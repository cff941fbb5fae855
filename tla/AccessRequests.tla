--------------------------- MODULE AccessRequests ---------------------------
(***************************************************************************)
(* Access requests of the control surface: an agent files a request made   *)
(* of items (bind a toolkit, bind a credential to a toolkit, grant a       *)
(* scope), reviewers decide the items, and approved items take effect.     *)
(*                                                                         *)
(* Every control-DB transaction is an operator on the snapshot s it has    *)
(* read: SQLAlchemy keeps the attributes it loaded and flushes the changed *)
(* ones by primary key.  This module runs each against the current state,  *)
(* which is SQLite, where a write transaction is BEGIN IMMEDIATE and no    *)
(* other is open meanwhile; AccessRequestsRC lets them interleave, as      *)
(* PostgreSQL's READ COMMITTED does.  Admin-DB effects (toolkit bind,      *)
(* scope grant) follow the commit of decide(), each in a transaction of    *)
(* its own, and are then acknowledged in the control DB.                   *)
(*                                                                         *)
(* One agent, one API reference and one credential are modelled: items     *)
(* differ by kind and target.  Failures are unbounded: every step of a     *)
(* decide() may fail or be the last one before a crash.                    *)
(***************************************************************************)
EXTENDS Naturals, FiniteSets

CONSTANTS
    Requests,     \* ids of access requests
    Items,        \* ids of request items
    RequestOf,    \* the request of each item
    Toolkits,     \* toolkit ids
    OwnerOf,      \* the user who created each toolkit
    Scopes,       \* grantable scopes (GRANTABLE_SCOPES)
    ByRef,        \* target of a toolkit item filed by vendor/name, no id
    Filer,        \* the identity that files
    FilerOwner,   \* the user it belongs to (filer_owner_id)
    Reviewers,    \* callers holding agents:write
    Admins,       \* callers holding org:admin
    InitServing,  \* toolkits the credential is bound to at the start
    InitBindings, \* toolkits an operator has bound the agent to before
    MaxChurn,     \* bound: operator changes to the toolkit catalogue
    None          \* null

Kinds == {"credential", "toolkit", "scope"}

ASSUME ParametersOK ==
    /\ RequestOf \in [Items -> Requests]
    /\ \A r \in Requests : \E i \in Items : RequestOf[i] = r  \* items: min_length=1
    /\ InitServing \subseteq Toolkits /\ InitBindings \subseteq Toolkits
    /\ MaxChurn \in Nat
    /\ Toolkits \cap Scopes = {}
    /\ ByRef \notin Toolkits \cup Scopes
    /\ None \notin Toolkits \cup Scopes \cup {ByRef} \cup Items \cup Requests \cup Kinds

VARIABLES
    reqs,      \* control.access_requests: status of each request
    items,     \* control.access_request_items
    serving,   \* control.toolkit_credential_bindings of the credential
    live,      \* control.toolkits
    bindings,  \* admin.agent_toolkit_bindings of the agent
    grants,    \* admin.actor_scope_grants of the agent
    events,    \* kinds of event emitted for each request
    pc,        \* where each reviewer's decide() stands
    on,        \* the request it decides
    ids,       \* the approved admin items it has to deliver (pending_admin_ids)
    moved,     \* whether it transitioned an item (any_transition)
    todo,      \* phase 2: the un-acked items still to drive
    cur,       \* the item being driven, and the target it resolved to
    failed,    \* whether an item of this pass failed
    purging,   \* deleted toolkits whose admin bindings are still to be removed
    churn      \* operator changes so far

store == <<reqs, items>>
admin == <<bindings, grants>>
cat   == <<serving, live, purging, churn>>
call  == <<pc, on, ids, moved, todo, cur, failed>>
vars  == <<reqs, items, serving, live, bindings, grants, events, pc, on,
           ids, moved, todo, cur, failed, purging, churn>>

AdminKinds == {"toolkit", "scope"}
Verdicts   == {"approved", "denied"}
ItemStatus == {"none", "pending", "withdrawn"} \cup Verdicts
ReqStatus  == ItemStatus \cup {"partially_approved"}
Effects    == Toolkits \cup Scopes
Targets    == Effects \cup {ByRef}
EventKinds == {"filed", "withdrawn", "approved", "denied"}
Steps      == {"idle", "list", "drive", "write", "ack", "view"}

ItemRec  == [kind : Kinds \cup {None}, target : Targets \cup {None},
             status : ItemStatus, applied : Effects \cup {None}]
Unfiled  == [kind |-> None, target |-> None, status |-> "none", applied |-> None]
Work     == [item : Items, kind : AdminKinds, target : Targets]
NoEffect == [item |-> None, to |-> None]

ItemsOf(r) == {i \in Items : RequestOf[i] = r}

\* What a transaction reads when it starts now.
Now == [reqs |-> reqs, items |-> items]

\* The targets an item of each kind can name.
TargetsOf(kind) ==
    CASE kind = "credential" -> Toolkits
      [] kind = "toolkit"    -> Toolkits \cup {ByRef}
      [] kind = "scope"      -> Scopes

-----------------------------------------------------------------------------
(* Helpers of the repositories, the scoping filters and the applicator.    *)

\* Wrong variant: mixed verdicts give a status requests do not have.
AggregateMixed(statuses) ==
    IF "pending" \in statuses THEN "pending"
    ELSE IF statuses \subseteq {"approved"} THEN "approved"
    ELSE IF "approved" \notin statuses THEN "denied"
    ELSE "mixed"

\* compute_aggregate_status, on the set of the items' statuses.
AggregateStatus(statuses) ==
    IF "pending" \in statuses THEN "pending"
    ELSE IF statuses \subseteq {"approved"} THEN "approved"
    ELSE IF "approved" \notin statuses THEN "denied"
    ELSE "partially_approved"

\* _compute_evaluation: not the filer, agents:write, owner of the filer or admin.
CanFulfill(d) == d # Filer /\ d \in Reviewers /\ (d = FilerOwner \/ d \in Admins)

\* toolkit_owner_scope and toolkit_visible_to_owners.
Visible(d) == {t \in live : d \in Admins \/ OwnerOf[t] = d}

\* The toolkits a toolkit:bind item may resolve to for this decider: the one it
\* names, or those holding a credential for the API (resolve_toolkits_for_api).
ResolvesTo(d, target) ==
    IF target = ByRef THEN Visible(d) \cap serving ELSE {target} \cap Visible(d)

\* validate() raises one of _UNFULFILLABLE_BIND_TARGET.
Unfulfillable(d, it) == it.kind = "toolkit" /\ ResolvesTo(d, it.target) = {}

\* validate() raises ToolkitReferenceAmbiguousError.
Ambiguous(d, it) ==
    it.kind = "toolkit" /\ \E t, u \in ResolvesTo(d, it.target) : t # u

\* find_pending_duplicate returns an item.
PendingTwin(s, kind, target) ==
    \E i \in Items :
        /\ s.items[i].status = "pending" /\ s.reqs[RequestOf[i]] = "pending"
        /\ s.items[i].kind = kind /\ s.items[i].target = target

Emit(r, kind) == events' = [events EXCEPT ![r] = @ \cup {kind}]

-----------------------------------------------------------------------------
Init ==
    /\ reqs = [r \in Requests |-> "none"]
    /\ items = [i \in Items |-> Unfiled]
    /\ serving = InitServing
    /\ live = Toolkits
    /\ bindings = InitBindings
    /\ grants = {}
    /\ events = [r \in Requests |-> {}]
    /\ pc = [d \in Reviewers |-> "idle"]
    /\ on = [d \in Reviewers |-> None]
    /\ ids = [d \in Reviewers |-> {}]
    /\ moved = [d \in Reviewers |-> FALSE]
    /\ todo = [d \in Reviewers |-> {}]
    /\ cur = [d \in Reviewers |-> NoEffect]
    /\ failed = [d \in Reviewers |-> FALSE]
    /\ purging = {}
    /\ churn = 0

(* file(): new gives each item of the request a kind and a target.         *)

\* _check_prerequisite (a read of the admin DB) and the duplicate check pass.
MayFile(s, r, new) ==
    /\ s.reqs[r] = "none"
    /\ \A i \in ItemsOf(r) :
          /\ new[i].target \in TargetsOf(new[i].kind)
          /\ new[i].kind = "credential" => new[i].target \in bindings
          /\ ~PendingTwin(s, new[i].kind, new[i].target)

FileTxn(r, new) ==
    /\ reqs' = [reqs EXCEPT ![r] = "pending"]
    /\ items' = [i \in Items |->
          IF i \in ItemsOf(r)
          THEN [kind |-> new[i].kind, target |-> new[i].target,
                status |-> "pending", applied |-> None]
          ELSE items[i]]
    /\ Emit(r, "filed")
    /\ UNCHANGED <<admin, cat>>

(* amend(): retarget an item that was read as pending; otherwise it raises. *)

MayAmend(s, i, t) ==
    /\ s.reqs[RequestOf[i]] = "pending" /\ s.items[i].status = "pending"
    /\ s.items[i].kind \in AdminKinds
    /\ t \in TargetsOf(s.items[i].kind) \ {ByRef}

AmendTxn(i, t) ==
    /\ items' = [items EXCEPT ![i].target = t]
    /\ UNCHANGED <<reqs, admin, cat, events>>

(* withdraw(): the request, and its items that were read as pending.       *)

MayWithdraw(s, r) == s.reqs[r] = "pending"

\* Wrong variant: withdraws the decided items too.
WithdrawTxnAll(s, r) ==
    /\ reqs' = [reqs EXCEPT ![r] = "withdrawn"]
    /\ items' = [i \in Items |->
          IF RequestOf[i] = r THEN [items[i] EXCEPT !.status = "withdrawn"] ELSE items[i]]
    /\ Emit(r, "withdrawn")
    /\ UNCHANGED <<admin, cat>>

WithdrawTxn(s, r) ==
    /\ reqs' = [reqs EXCEPT ![r] = "withdrawn"]
    /\ items' = [i \in Items |->
          IF RequestOf[i] = r /\ s.items[i].status = "pending"
          THEN [items[i] EXCEPT !.status = "withdrawn"] ELSE items[i]]
    /\ Emit(r, "withdrawn")
    /\ UNCHANGED <<admin, cat>>

(* decide(), phase 1: one control transaction decides the items v asks for *)
(* and binds credentials.                                                  *)

Fresh(s, v) == {i \in DOMAIN v : s.items[i].status = "pending"}

\* The verdict recorded for a pending item: an approval whose bind target is
\* unfulfillable closes the loop as a denial.
Recorded(s, d, v, i) ==
    IF v[i] = "approved" /\ Unfulfillable(d, s.items[i]) THEN "denied" ELSE v[i]

\* The credential items this call approves: bound in the same transaction.
Binds(s, d, v) ==
    {i \in Fresh(s, v) : Recorded(s, d, v, i) = "approved" /\ s.items[i].kind = "credential"}

\* pending_admin_ids: every item this call approves, or finds approved, whose
\* effect is applied after the commit.
AdminApprovals(s, d, v) ==
    {i \in DOMAIN v : /\ v[i] = "approved" /\ s.items[i].kind \in AdminKinds
                      /\ i \in Fresh(s, v) => Recorded(s, d, v, i) = "approved"}

\* No item raises: no ambiguous reference among the approvals, no conflict with
\* an earlier verdict, an earlier approval still valid, no missing FK target.
Acceptable(s, d, v) ==
    /\ \A i \in DOMAIN v :
          /\ v[i] = "approved" => ~Ambiguous(d, s.items[i])
          /\ i \notin Fresh(s, v) =>
                /\ s.items[i].status = v[i]
                /\ v[i] = "approved" => ~Unfulfillable(d, s.items[i])
    /\ \A i \in Binds(s, d, v) : s.items[i].target \in live

\* Wrong variant: the siblings are read before the decisions are flushed.
AggregateStale(s, d, r, v) == AggregateStatus({s.items[i].status : i \in ItemsOf(r)})

\* The aggregate decide_item computes from the siblings as this session sees them.
Aggregate(s, d, r, v) ==
    AggregateStatus({IF i \in Fresh(s, v) THEN Recorded(s, d, v, i) ELSE s.items[i].status :
                        i \in ItemsOf(r)})

DecideTxn(s, d, r, v) ==
    /\ Acceptable(s, d, v)
    /\ items' = [i \in Items |->
          IF i \notin Fresh(s, v) THEN items[i]
          ELSE [items[i] EXCEPT
                  !.status = Recorded(s, d, v, i),
                  !.applied = IF i \in Binds(s, d, v) THEN s.items[i].target ELSE @]]
    /\ reqs' = IF Fresh(s, v) # {} /\ Aggregate(s, d, r, v) # s.reqs[r]
               THEN [reqs EXCEPT ![r] = Aggregate(s, d, r, v)] ELSE reqs
    /\ serving' = serving \cup {s.items[i].target : i \in Binds(s, d, v)}
    /\ pc' = [pc EXCEPT ![d] = "list"]
    /\ on' = [on EXCEPT ![d] = r]
    /\ ids' = [ids EXCEPT ![d] = AdminApprovals(s, d, v)]
    /\ moved' = [moved EXCEPT ![d] = Fresh(s, v) # {}]
    /\ UNCHANGED <<admin, live, purging, churn, events, todo, cur, failed>>

\* The item decisions a call about r may ask for.
Decisions(r) == UNION {[asked -> Verdicts] : asked \in SUBSET ItemsOf(r) \ {{}}}

-----------------------------------------------------------------------------
(* Under SQLite each of these transactions is one step.                    *)

File(r) ==
    /\ \E new \in [ItemsOf(r) -> [kind : Kinds, target : Targets]] :
          MayFile(Now, r, new) /\ FileTxn(r, new)
    /\ UNCHANGED call

Amend(i, t) == MayAmend(Now, i, t) /\ AmendTxn(i, t) /\ UNCHANGED call

Withdraw(r) == MayWithdraw(Now, r) /\ WithdrawTxn(Now, r) /\ UNCHANGED call

Decide(d, r) ==
    /\ pc[d] = "idle"
    /\ CanFulfill(d)
    /\ reqs[r] # "none"
    /\ \E v \in Decisions(r) : DecideTxn(Now, d, r, v)

-----------------------------------------------------------------------------
(* decide(), phase 2: _reconcile_admin_effects drives the request's un-acked *)
(* approvals, also those of an earlier call that failed half-way.          *)

\* Wrong variant: drives undecided and denied items as well.
UnackedAnyStatus(r) == {i \in ItemsOf(r) : items[i].kind \in AdminKinds /\ items[i].applied = None}

Unacked(r) == {i \in ItemsOf(r) : /\ items[i].status = "approved"
                                  /\ items[i].kind \in AdminKinds
                                  /\ items[i].applied = None}

List(d) ==
    /\ pc[d] = "list"
    /\ todo' = [todo EXCEPT ![d] =
          {[item |-> i, kind |-> items[i].kind, target |-> items[i].target] :
              i \in Unacked(on[d])}]
    /\ pc' = [pc EXCEPT ![d] = "drive"]
    /\ UNCHANGED <<store, admin, cat, events, on, ids, moved, cur, failed>>

\* Resolve one item's target on a fresh control session.
Resolve(d, w) ==
    /\ pc[d] = "drive" /\ w \in todo[d]
    /\ todo' = [todo EXCEPT ![d] = @ \ {w}]
    /\ \E t \in IF w.kind = "toolkit" THEN ResolvesTo(d, w.target) ELSE {w.target} :
          /\ ~Ambiguous(d, w)
          /\ cur' = [cur EXCEPT ![d] = [item |-> w.item, to |-> t]]
    /\ pc' = [pc EXCEPT ![d] = "write"]
    /\ UNCHANGED <<store, admin, cat, events, on, ids, moved, failed>>

\* INSERT ... ON CONFLICT DO NOTHING in a transaction of the admin DB.
WriteEffect(d) ==
    /\ pc[d] = "write"
    /\ IF cur[d].to \in Toolkits
       THEN bindings' = bindings \cup {cur[d].to} /\ UNCHANGED grants
       ELSE grants' = grants \cup {cur[d].to} /\ UNCHANGED bindings
    /\ pc' = [pc EXCEPT ![d] = "ack"]
    /\ UNCHANGED <<store, cat, events, on, ids, moved, todo, cur, failed>>

\* set_applied_effects, by item id, whatever the item's status is by now.
Ack(d) ==
    /\ pc[d] = "ack"
    /\ items' = [items EXCEPT ![cur[d].item].applied = cur[d].to]
    /\ cur' = [cur EXCEPT ![d] = NoEffect]
    /\ pc' = [pc EXCEPT ![d] = "drive"]
    /\ UNCHANGED <<reqs, admin, cat, events, on, ids, moved, todo, failed>>

\* Wrong variant: an item's failure is swallowed.
ItemFailsSilently(d) ==
    /\ \/ /\ pc[d] = "drive"
          /\ \E w \in todo[d] : todo' = [todo EXCEPT ![d] = @ \ {w}]
       \/ pc[d] \in {"write", "ack"} /\ UNCHANGED todo
    /\ cur' = [cur EXCEPT ![d] = NoEffect]
    /\ pc' = [pc EXCEPT ![d] = "drive"]
    /\ UNCHANGED <<store, admin, cat, events, on, ids, moved, failed>>

\* One item's failure, at its resolution, its write or its ack, is remembered
\* and the pass goes on with the next.
ItemFails(d) ==
    /\ \/ /\ pc[d] = "drive"
          /\ \E w \in todo[d] : todo' = [todo EXCEPT ![d] = @ \ {w}]
       \/ pc[d] \in {"write", "ack"} /\ UNCHANGED todo
    /\ failed' = [failed EXCEPT ![d] = TRUE]
    /\ cur' = [cur EXCEPT ![d] = NoEffect]
    /\ pc' = [pc EXCEPT ![d] = "drive"]
    /\ UNCHANGED <<store, admin, cat, events, on, ids, moved>>

\* The call ends: its local state is gone.
Return(d) ==
    /\ pc' = [pc EXCEPT ![d] = "idle"]
    /\ on' = [on EXCEPT ![d] = None]
    /\ ids' = [ids EXCEPT ![d] = {}]
    /\ moved' = [moved EXCEPT ![d] = FALSE]
    /\ todo' = [todo EXCEPT ![d] = {}]
    /\ cur' = [cur EXCEPT ![d] = NoEffect]
    /\ failed' = [failed EXCEPT ![d] = FALSE]

\* The process dies between two steps of phase 2.
Crash(d) ==
    /\ pc[d] # "idle"
    /\ Return(d)
    /\ UNCHANGED <<store, admin, cat, events>>

\* Every item was visited: raise AdminEffectReconcileError, or go on.
EndPass(d) ==
    /\ pc[d] = "drive" /\ todo[d] = {}
    /\ IF failed[d] THEN Return(d)
       ELSE /\ pc' = [pc EXCEPT ![d] = "view"]
            /\ UNCHANGED <<on, ids, moved, todo, cur, failed>>
    /\ UNCHANGED <<store, admin, cat, events>>

\* _emit_decision: the event for the status the final read returned.
DecisionEvent(status) ==
    CASE status \in {"approved", "partially_approved"} -> "approved"
      [] status = "denied" -> "denied"
      [] OTHER -> None

\* Re-read the request, emit the decision event for its status, return the view.
View(d) ==
    /\ pc[d] = "view"
    /\ IF moved[d] /\ DecisionEvent(reqs[on[d]]) # None
       THEN Emit(on[d], DecisionEvent(reqs[on[d]])) ELSE UNCHANGED events
    /\ Return(d)
    /\ UNCHANGED <<store, admin, cat>>

(* What operators do to toolkits and credential bindings meanwhile         *)
(* (ToolkitService.bind_credential, unbind_credential, delete).            *)

Operator == churn < MaxChurn /\ churn' = churn + 1

BindCredential(t) ==
    /\ Operator
    /\ t \in live \ serving
    /\ serving' = serving \cup {t}
    /\ UNCHANGED <<store, admin, live, purging, events, call>>

UnbindCredential(t) ==
    /\ Operator
    /\ t \in serving
    /\ serving' = serving \ {t}
    /\ UNCHANGED <<store, admin, live, purging, events, call>>

DeleteToolkit(t) ==
    /\ Operator
    /\ t \in live
    /\ live' = live \ {t}
    /\ serving' = serving \ {t}
    /\ purging' = purging \cup {t}
    /\ UNCHANGED <<store, admin, events, call>>

\* The second transaction of delete(), on the admin DB; a crash skips it.
PurgeBindings(t) ==
    /\ t \in purging
    /\ purging' = purging \ {t}
    /\ bindings' \in {bindings, bindings \ {t}}
    /\ UNCHANGED <<store, grants, serving, live, churn, events, call>>

-----------------------------------------------------------------------------
ReviewerStep(d) ==
    \/ List(d) \/ (\E w \in todo[d] : Resolve(d, w)) \/ WriteEffect(d) \/ Ack(d)
    \/ ItemFails(d) \/ EndPass(d) \/ View(d) \/ Crash(d)

OperatorStep(t) ==
    BindCredential(t) \/ UnbindCredential(t) \/ DeleteToolkit(t) \/ PurgeBindings(t)

Next ==
    \/ \E r \in Requests : File(r) \/ Withdraw(r)
    \/ \E i \in Items, t \in Targets : Amend(i, t)
    \/ \E d \in Reviewers, r \in Requests : Decide(d, r)
    \/ \E d \in Reviewers : ReviewerStep(d)
    \/ \E t \in Toolkits : OperatorStep(t)

Spec == Init /\ [][Next]_vars

-----------------------------------------------------------------------------
(* Properties.                                                             *)

\* Every variable has its type.
TypeOK ==
    /\ reqs \in [Requests -> ReqStatus]
    /\ items \in [Items -> ItemRec]
    /\ serving \subseteq Toolkits /\ live \subseteq Toolkits /\ purging \subseteq Toolkits
    /\ bindings \subseteq Toolkits /\ grants \subseteq Scopes
    /\ events \in [Requests -> SUBSET EventKinds]
    /\ pc \in [Reviewers -> Steps]
    /\ on \in [Reviewers -> Requests \cup {None}]
    /\ ids \in [Reviewers -> SUBSET Items]
    /\ moved \in [Reviewers -> BOOLEAN] /\ failed \in [Reviewers -> BOOLEAN]
    /\ todo \in [Reviewers -> SUBSET Work]
    /\ cur \in [Reviewers -> [item : Items \cup {None}, to : Effects \cup {None}]]
    /\ churn \in 0 .. MaxChurn

\* The request's stored status is the aggregate of its items' statuses, unless it
\* was withdrawn, and then no item is pending: nobody waits for a decision that
\* can no longer be made.
AggregateMatchesItems ==
    \A r \in Requests :
        LET statuses == {items[i].status : i \in ItemsOf(r)}
        IN \/ statuses = {"none"} /\ reqs[r] = "none"
           \/ "none" \notin statuses /\ reqs[r] = AggregateStatus(statuses)
           \/ reqs[r] = "withdrawn" /\ "pending" \notin statuses

\* The targets that approving an item may put in the admin DB.
Asks(i) ==
    CASE items[i].kind = "toolkit" /\ items[i].target = ByRef -> Toolkits
      [] items[i].kind \in AdminKinds /\ items[i].target # ByRef -> {items[i].target}
      [] OTHER -> {}

\* Every scope grant, and every agent-toolkit binding an operator did not make, comes
\* from an item that is, now, approved and asked for it: a denied or withdrawn item
\* gives nothing.
EffectsAuthorised ==
    \A t \in (bindings \ InitBindings) \cup grants :
        \E i \in Items : items[i].status = "approved" /\ t \in Asks(i)

\* When decide() gets to return its view instead of raising, every approval the
\* caller asked for and did not see turned into a denial is still approved, and
\* its effect was applied and acknowledged.
DeliveredOnSuccess ==
    \A d \in Reviewers : pc[d] = "view" =>
        \A i \in ids[d] : items[i].status = "approved" /\ items[i].applied # None

\* Both together: the effects in place were approved, and the approvals a caller was told
\* of are in effect (phase 2 of decide()).
EffectsSound == EffectsAuthorised /\ DeliveredOnSuccess

\* The events of a request tell one story: approved, denied or withdrawn, never
\* two of them, however many reviewers decided its items at once.
EventsConsistent ==
    \A r \in Requests : Cardinality(events[r] \ {"filed"}) <= 1

\* What a request says of itself agrees: its status with its items (decide_item,
\* withdraw), and what was announced of it with itself (_emit_decision).
RequestCoherent == AggregateMatchesItems /\ EventsConsistent

\* No admin effect is left that no item accounts for: each is acknowledged by an
\* approved item or still belongs to one that is un-acked (service.decide: "no
\* orphaned admin-DB bindings/grants").
NoOrphanedEffect ==
    \A t \in (bindings \ InitBindings) \cup grants :
        \E i \in Items : /\ items[i].status = "approved"
                         /\ \/ items[i].applied = t
                            \/ items[i].applied = None /\ t \in Asks(i)

\* Seen from outside, requests behave as ItemDecisions says.
Abstract == INSTANCE ItemDecisions WITH
    verdicts  <- [i \in Items |-> items[i].status],
    asks      <- [i \in Items |-> Asks(i)],
    effects   <- (bindings \ InitBindings) \cup grants,
    confirmed <- {i \in Items : items[i].applied # None}
ImplementsItemDecisions == Abstract!Spec
=============================================================================
