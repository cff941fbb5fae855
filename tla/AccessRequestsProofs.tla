------------------------ MODULE AccessRequestsProofs ------------------------
(***************************************************************************)
(* What AccessRequests guarantees for any requests, items, reviewers and   *)
(* toolkits, where the control database's transactions are serial: the     *)
(* effects of decide() are those of approved items, requests agree with    *)
(* their items and with the events about them, and what a reader sees is   *)
(* a behaviour of ItemDecisions.                                           *)
(***************************************************************************)
EXTENDS AccessRequests, FiniteSetTheorems, TLAPS

\* An item that was filed has a kind, and a target that kind can name; any other is null.
FiledItems ==
    \A i \in Items :
        IF items[i].status = "none" THEN items[i] = Unfiled
        ELSE items[i].kind \in Kinds /\ items[i].target \in TargetsOf(items[i].kind)

\* What a reviewer has listed to drive is an approved item, as it still is.
HeldWork ==
    \A d \in Reviewers : \A w \in todo[d] :
        /\ items[w.item].status = "approved"
        /\ items[w.item].kind = w.kind /\ items[w.item].target = w.target

\* What a reviewer is about to write or to acknowledge was asked for by an approved item.
HeldEffect ==
    \A d \in Reviewers : pc[d] \in {"write", "ack"} =>
        /\ cur[d].item \in Items
        /\ items[cur[d].item].status = "approved"
        /\ cur[d].to \in Asks(cur[d].item)

\* The approvals a call owes its caller are approved, belong to its request, and each is
\* acknowledged, still to be driven, being driven, or remembered as failed.
Owed(d, i) ==
    \/ items[i].applied # None
    \/ failed[d]
    \/ \E w \in todo[d] : w.item = i
    \/ pc[d] \in {"write", "ack"} /\ cur[d].item = i

Promised ==
    \A d \in Reviewers :
        /\ pc[d] # "idle" =>
              /\ on[d] \in Requests
              /\ \A i \in ids[d] : /\ RequestOf[i] = on[d] /\ items[i].kind \in AdminKinds
                                   /\ items[i].status = "approved"
        /\ pc[d] \in {"drive", "write", "ack", "view"} => \A i \in ids[d] : Owed(d, i)
        /\ pc[d] = "view" => todo[d] = {} /\ ~failed[d]

\* The kind of event that a request of a status may have had, besides its filing.
Announced(status) ==
    CASE status \in {"approved", "partially_approved"} -> {"approved"}
      [] status \in {"denied", "withdrawn"} -> {status}
      [] OTHER -> {}

\* Nothing was announced of a request but what it is.
EventsMatch == \A r \in Requests : events[r] \subseteq {"filed"} \cup Announced(reqs[r])

IInv ==
    /\ TypeOK
    /\ FiledItems
    /\ AggregateMatchesItems
    /\ EventsMatch
    /\ HeldWork
    /\ HeldEffect
    /\ Promised
    /\ EffectsAuthorised

-----------------------------------------------------------------------------
\* In the initial state nothing is filed, held or in effect.
LEMMA InitIInv == Init => IInv
<1> SUFFICES ASSUME Init PROVE IInv
  OBVIOUS
<1> USE ParametersOK DEF Init
<1>1. TypeOK
  BY DEF TypeOK, ReqStatus, ItemStatus, ItemRec, Unfiled, NoEffect, Steps, Work
<1>2. FiledItems /\ HeldWork /\ HeldEffect /\ Promised
  BY DEF FiledItems, HeldWork, HeldEffect, Promised, Unfiled
<1>3. AggregateMatchesItems
  <2> SUFFICES ASSUME NEW r \in Requests
               PROVE  {items[i].status : i \in ItemsOf(r)} = {"none"} /\ reqs[r] = "none"
    BY DEF AggregateMatchesItems
  <2> QED BY DEF ItemsOf, Unfiled
<1>4. EventsMatch
  BY DEF EventsMatch
<1>5. EffectsAuthorised
  BY DEF EffectsAuthorised
<1> QED BY <1>1, <1>2, <1>3, <1>4, <1>5 DEF IInv

-----------------------------------------------------------------------------
(* Types.                                                                  *)

\* The aggregate of item statuses of filed items is a status a request may have.
LEMMA AggregateType ==
    ASSUME NEW S PROVE AggregateStatus(S) \in ReqStatus
BY DEF AggregateStatus, ReqStatus, ItemStatus, Verdicts

\* The transactions of file(), amend() and withdraw().
LEMMA SessionTypes ==
    ASSUME TypeOK,
           \/ \E r \in Requests : File(r) \/ Withdraw(r)
           \/ \E i \in Items, t \in Targets : Amend(i, t)
    PROVE  TypeOK'
<1>1. ASSUME NEW r \in Requests, File(r) PROVE TypeOK'
  <2>1. PICK new \in [ItemsOf(r) -> [kind : Kinds, target : Targets]] :
            MayFile(Now, r, new) /\ FileTxn(r, new)
    BY <1>1 DEF File
  <2>2. items' \in [Items -> ItemRec]
    <3> SUFFICES ASSUME NEW i \in Items PROVE items'[i] \in ItemRec
      BY <2>1 DEF FileTxn
    <3>1. CASE i \in ItemsOf(r)
      BY <2>1, <3>1 DEF FileTxn, ItemRec, ItemStatus
    <3>2. CASE i \notin ItemsOf(r)
      BY <2>1, <3>2 DEF FileTxn, TypeOK
    <3> QED BY <3>1, <3>2
  <2>3. reqs' \in [Requests -> ReqStatus]
    BY <2>1 DEF FileTxn, TypeOK, ReqStatus, ItemStatus
  <2>4. events' \in [Requests -> SUBSET EventKinds]
    BY <2>1 DEF FileTxn, TypeOK, Emit, EventKinds
  <2> QED BY <1>1, <2>1, <2>2, <2>3, <2>4 DEF File, FileTxn, TypeOK, admin, cat, call
<1>2. ASSUME NEW r \in Requests, Withdraw(r) PROVE TypeOK'
  <2>1. items' \in [Items -> ItemRec]
    <3> SUFFICES ASSUME NEW i \in Items PROVE items'[i] \in ItemRec
      BY <1>2 DEF Withdraw, WithdrawTxn
    <3>1. items[i] \in ItemRec /\ "withdrawn" \in ItemStatus
      BY DEF TypeOK, ItemStatus
    <3>2. items'[i] \in {items[i], [items[i] EXCEPT !.status = "withdrawn"]}
      BY <1>2 DEF Withdraw, WithdrawTxn
    <3> QED BY <3>1, <3>2 DEF ItemRec
  <2>2. reqs' \in [Requests -> ReqStatus]
    BY <1>2 DEF Withdraw, WithdrawTxn, TypeOK, ReqStatus, ItemStatus
  <2>3. events' \in [Requests -> SUBSET EventKinds]
    BY <1>2 DEF Withdraw, WithdrawTxn, TypeOK, Emit, EventKinds
  <2> QED BY <1>2, <2>1, <2>2, <2>3 DEF Withdraw, WithdrawTxn, TypeOK, admin, cat, call
<1>3. ASSUME NEW i \in Items, NEW t \in Targets, Amend(i, t) PROVE TypeOK'
  <2>1. items' \in [Items -> ItemRec]
    <3>1. items[i] \in ItemRec /\ [items[i] EXCEPT !.target = t] \in ItemRec
      BY ZenonT(60) DEF TypeOK, ItemRec
    <3> QED BY <1>3, <3>1 DEF Amend, AmendTxn, TypeOK
  <2> QED BY <1>3, <2>1 DEF Amend, AmendTxn, TypeOK, admin, cat, call
<1> QED BY <1>1, <1>2, <1>3

\* Phase 1 of decide().
LEMMA DecideTypes ==
    ASSUME TypeOK, FiledItems, NEW d \in Reviewers, NEW r \in Requests, Decide(d, r)
    PROVE  TypeOK'
<1>1. PICK v \in Decisions(r) : DecideTxn(Now, d, r, v)
  BY DEF Decide
<1>2. DOMAIN v \subseteq ItemsOf(r) /\ \A i \in DOMAIN v : v[i] \in Verdicts
  BY DEF Decisions
<1>3. \A i \in Binds(Now, d, v) : i \in Items /\ items[i].target \in Toolkits
  BY <1>2 DEF Binds, Fresh, Now, FiledItems, TargetsOf, ItemsOf
<1>4. items' \in [Items -> ItemRec]
  <2> SUFFICES ASSUME NEW i \in Items PROVE items'[i] \in ItemRec
    BY <1>1 DEF DecideTxn
  <2>1. CASE i \notin Fresh(Now, v)
    BY <1>1, <2>1 DEF DecideTxn, TypeOK
  <2>2. CASE i \in Fresh(Now, v)
    <3>1. Recorded(Now, d, v, i) \in ItemStatus
      BY <1>2, <2>2 DEF Fresh, Recorded, ItemStatus, Verdicts
    <3>2. (IF i \in Binds(Now, d, v) THEN Now.items[i].target ELSE items[i].applied)
              \in Effects \cup {None}
      BY <1>3 DEF Now, TypeOK, ItemRec, Effects
    <3>3. items'[i] = [items[i] EXCEPT !.status = Recorded(Now, d, v, i),
                         !.applied = IF i \in Binds(Now, d, v) THEN Now.items[i].target ELSE @]
      BY <1>1, <2>2 DEF DecideTxn
    <3>4. items[i] \in ItemRec
      BY DEF TypeOK
    <3> QED BY <3>1, <3>2, <3>3, <3>4 DEF ItemRec
  <2> QED BY <2>1, <2>2
<1>5. reqs' \in [Requests -> ReqStatus]
  BY <1>1, AggregateType DEF DecideTxn, Aggregate, TypeOK
<1>6. serving' \subseteq Toolkits
  <2>1. serving' = serving \cup {Now.items[i].target : i \in Binds(Now, d, v)}
    BY <1>1 DEF DecideTxn
  <2>2. \A i \in Binds(Now, d, v) : Now.items[i].target \in Toolkits
    BY <1>3 DEF Now
  <2> QED BY <2>1, <2>2 DEF TypeOK
<1>7. ids' \in [Reviewers -> SUBSET Items]
  <2>1. AdminApprovals(Now, d, v) \subseteq Items
    BY <1>2 DEF AdminApprovals, ItemsOf
  <2> QED BY <1>1, <2>1 DEF DecideTxn, TypeOK
<1>8. /\ pc' \in [Reviewers -> Steps]
      /\ on' \in [Reviewers -> Requests \cup {None}]
      /\ moved' \in [Reviewers -> BOOLEAN]
  BY <1>1 DEF DecideTxn, TypeOK, Steps
<1> QED BY <1>1, <1>4, <1>5, <1>6, <1>7, <1>8 DEF DecideTxn, TypeOK, admin

\* The steps of phase 2.
LEMMA ReviewerTypes ==
    ASSUME TypeOK, FiledItems, HeldWork, HeldEffect, NEW d \in Reviewers, ReviewerStep(d)
    PROVE  TypeOK'
<1>1. CASE List(d)
  <2>1. {[item |-> i, kind |-> items[i].kind, target |-> items[i].target] : i \in Unacked(on[d])}
            \subseteq Work
    BY DEF Unacked, ItemsOf, Work, FiledItems, TargetsOf, Targets, Effects, AdminKinds
  <2>2. todo' \in [Reviewers -> SUBSET Work]
    BY <1>1, <2>1 DEF List, TypeOK
  <2> QED BY <1>1, <2>2 DEF List, TypeOK, Steps, store, admin, cat
<1>2. ASSUME NEW w \in todo[d], Resolve(d, w) PROVE TypeOK'
  <2>1. w \in Work /\ items[w.item].kind = w.kind /\ items[w.item].target = w.target
        /\ items[w.item].status = "approved"
    BY DEF TypeOK, HeldWork
  <2>2. w.item \in Items /\ w.kind = "scope" => w.target \in Scopes
    BY <2>1 DEF Work, FiledItems, TargetsOf
  <2>3. PICK t \in IF w.kind = "toolkit" THEN ResolvesTo(d, w.target) ELSE {w.target} :
            cur' = [cur EXCEPT ![d] = [item |-> w.item, to |-> t]]
    BY <1>2 DEF Resolve
  <2>4. t \in Effects
    BY <2>1, <2>2, <2>3 DEF Work, AdminKinds, ResolvesTo, Visible, TypeOK, Effects
  <2>5. cur' \in [Reviewers -> [item : Items \cup {None}, to : Effects \cup {None}]]
    BY <2>1, <2>3, <2>4 DEF TypeOK, Work
  <2>6. todo' \in [Reviewers -> SUBSET Work]
    BY <1>2 DEF Resolve, TypeOK
  <2> QED BY <1>2, <2>5, <2>6 DEF Resolve, TypeOK, Steps, store, admin, cat
<1>3. CASE WriteEffect(d)
  <2>1. cur[d].to \in Effects
    BY <1>3 DEF WriteEffect, HeldEffect, Asks, TypeOK, ItemRec, FiledItems, TargetsOf, Effects,
        AdminKinds
  <2>2. bindings' \subseteq Toolkits /\ grants' \subseteq Scopes
    BY <1>3, <2>1 DEF WriteEffect, TypeOK, Effects
  <2> QED BY <1>3, <2>2 DEF WriteEffect, TypeOK, Steps, store, cat
<1>4. CASE Ack(d)
  <2>1. items' \in [Items -> ItemRec]
    <3>1. cur[d].item \in Items /\ cur[d].to \in Effects \cup {None}
      BY <1>4 DEF Ack, HeldEffect, TypeOK
    <3>2. items[cur[d].item] \in ItemRec
      BY <3>1 DEF TypeOK
    <3>3. [items[cur[d].item] EXCEPT !.applied = cur[d].to] \in ItemRec
      BY <3>1, <3>2 DEF ItemRec
    <3> QED BY <1>4, <3>1, <3>3 DEF Ack, TypeOK
  <2>2. cur' \in [Reviewers -> [item : Items \cup {None}, to : Effects \cup {None}]]
    BY <1>4 DEF Ack, TypeOK, NoEffect
  <2> QED BY <1>4, <2>1, <2>2 DEF Ack, TypeOK, Steps, admin, cat
<1>5. CASE ItemFails(d)
  <2>1. cur' \in [Reviewers -> [item : Items \cup {None}, to : Effects \cup {None}]]
    BY <1>5 DEF ItemFails, TypeOK, NoEffect
  <2>2. todo' \in [Reviewers -> SUBSET Work]
    BY <1>5 DEF ItemFails, TypeOK
  <2> QED BY <1>5, <2>1, <2>2 DEF ItemFails, TypeOK, Steps, store, admin, cat
<1>6. ASSUME Return(d)
      PROVE  /\ pc' \in [Reviewers -> Steps] /\ on' \in [Reviewers -> Requests \cup {None}]
             /\ ids' \in [Reviewers -> SUBSET Items]
             /\ moved' \in [Reviewers -> BOOLEAN] /\ failed' \in [Reviewers -> BOOLEAN]
             /\ todo' \in [Reviewers -> SUBSET Work]
             /\ cur' \in [Reviewers -> [item : Items \cup {None}, to : Effects \cup {None}]]
  BY <1>6 DEF Return, TypeOK, Steps, NoEffect
<1>7. CASE EndPass(d)
  BY <1>6, <1>7 DEF EndPass, TypeOK, Steps, store, admin, cat
<1>8. CASE View(d)
  <2>1. DecisionEvent(reqs[on[d]]) \in EventKinds \cup {None}
    BY DEF DecisionEvent, EventKinds
  <2>2. events' \in [Requests -> SUBSET EventKinds]
    BY <1>8, <2>1 DEF View, Emit, TypeOK
  <2> QED BY <1>6, <1>8, <2>2 DEF View, TypeOK, store, admin, cat
<1>9. CASE Crash(d)
  BY <1>6, <1>9 DEF Crash, TypeOK, store, admin, cat
<1> QED BY <1>1, <1>2, <1>3, <1>4, <1>5, <1>7, <1>8, <1>9 DEF ReviewerStep

\* What operators do.
LEMMA OperatorTypes ==
    ASSUME TypeOK, NEW t \in Toolkits, OperatorStep(t)
    PROVE  TypeOK'
<1>1. ASSUME BindCredential(t) \/ UnbindCredential(t) \/ DeleteToolkit(t) PROVE TypeOK'
  <2>1. churn' \in 0 .. MaxChurn
    BY <1>1, ParametersOK DEF BindCredential, UnbindCredential, DeleteToolkit, Operator, TypeOK
  <2> QED BY <1>1, <2>1 DEF BindCredential, UnbindCredential, DeleteToolkit, TypeOK, store,
          admin, call
<1>2. CASE PurgeBindings(t)
  BY <1>2 DEF PurgeBindings, TypeOK, store, call
<1> QED BY <1>1, <1>2 DEF OperatorStep

\* Types are kept by every step, given what reviewers hold.
LEMMA TypePreserved == IInv /\ [Next]_vars => TypeOK'
<1> SUFFICES ASSUME IInv, [Next]_vars PROVE TypeOK'
  OBVIOUS
<1>1. CASE UNCHANGED vars
  BY <1>1 DEF IInv, TypeOK, vars
<1>2. CASE Next
  BY <1>2, SessionTypes, DecideTypes, ReviewerTypes, OperatorTypes DEF IInv, Next
<1> QED BY <1>1, <1>2

-----------------------------------------------------------------------------
(* Rows.                                                                   *)

\* The items of an unfiled request are unfiled, and a request that is decided or withdrawn
\* has no pending item.
LEMMA RequestAndItems ==
    ASSUME AggregateMatchesItems, NEW i \in Items
    PROVE  /\ reqs[RequestOf[i]] = "none" => items[i].status = "none"
           /\ items[i].status = "pending" => reqs[RequestOf[i]] = "pending"
<1> DEFINE r == RequestOf[i]
           statuses == {items[j].status : j \in ItemsOf(r)}
<1>1. r \in Requests /\ items[i].status \in statuses
  BY ParametersOK DEF ItemsOf
<1>2. \/ statuses = {"none"} /\ reqs[r] = "none"
      \/ "none" \notin statuses /\ reqs[r] = AggregateStatus(statuses)
      \/ reqs[r] = "withdrawn" /\ "pending" \notin statuses
  BY <1>1 DEF AggregateMatchesItems
<1> QED BY <1>1, <1>2 DEF AggregateStatus

\* A decided or withdrawn item stays as it is, but for the acknowledgement of its effect,
\* which is not taken back; an item that is filed keeps its kind, and an unfiled one is as it
\* was.
LEMMA RowsKept ==
    ASSUME IInv, Next, NEW i \in Items
    PROVE  /\ items[i].status # "none" => items'[i].kind = items[i].kind
                                          /\ items'[i].status # "none"
           /\ items[i].status \in {"approved", "denied", "withdrawn"} =>
                 items'[i].status = items[i].status /\ items'[i].target = items[i].target
           /\ items[i].status = "approved" /\ items[i].applied # None => items'[i].applied # None
           /\ items'[i].status = "none" => items'[i] = items[i]
<1>0. items[i] \in ItemRec
  BY DEF IInv, TypeOK
<1>1. ASSUME NEW r \in Requests, File(r)
      PROVE  (items[i].status = "none" /\ items'[i].status = "pending") \/ items'[i] = items[i]
  <2>1. reqs[r] = "none" /\ IF i \in ItemsOf(r) THEN items'[i].status = "pending"
                                               ELSE items'[i] = items[i]
    BY <1>1 DEF File, FileTxn, MayFile, Now
  <2> QED BY <2>1, RequestAndItems DEF IInv, ItemsOf
<1>2. ASSUME NEW r \in Requests, Withdraw(r)
      PROVE  \/ items'[i] = items[i]
             \/ items[i].status = "pending" /\ items'[i] = [items[i] EXCEPT !.status = "withdrawn"]
  BY <1>2 DEF Withdraw, WithdrawTxn, Now
<1>3. ASSUME NEW j \in Items, NEW t \in Targets, Amend(j, t)
      PROVE  \/ items'[i] = items[i]
             \/ items[i].status = "pending" /\ items'[i] = [items[i] EXCEPT !.target = t]
  BY <1>3 DEF Amend, AmendTxn, MayAmend, Now, IInv, TypeOK
<1>4. ASSUME NEW d \in Reviewers, NEW r \in Requests, Decide(d, r)
      PROVE  \/ items'[i] = items[i]
             \/ \E verdict \in Verdicts : \E e : items[i].status = "pending"
                   /\ items'[i] = [items[i] EXCEPT !.status = verdict, !.applied = e]
  <2>1. PICK v \in Decisions(r) : DecideTxn(Now, d, r, v)
    BY <1>4 DEF Decide
  <2>2. CASE i \notin Fresh(Now, v)
    BY <2>1, <2>2 DEF DecideTxn
  <2>3. CASE i \in Fresh(Now, v)
    <3>1. items[i].status = "pending" /\ Recorded(Now, d, v, i) \in Verdicts
      BY <2>3 DEF Fresh, Now, Recorded, Decisions, Verdicts
    <3>2. \E e : items'[i] = [items[i] EXCEPT !.status = Recorded(Now, d, v, i), !.applied = e]
      BY <2>1, <2>3 DEF DecideTxn
    <3> QED BY <3>1, <3>2
  <2> QED BY <2>2, <2>3
<1>5. ASSUME NEW d \in Reviewers, ReviewerStep(d)
      PROVE  \/ items'[i] = items[i]
             \/ items[i].status = "approved"
                /\ \E e \in Effects : items'[i] = [items[i] EXCEPT !.applied = e]
  <2>1. CASE Ack(d)
    <3>1. cur[d].to \in Effects
      BY <2>1 DEF Ack, IInv, HeldEffect, Asks, TypeOK, ItemRec, FiledItems, TargetsOf, Effects,
          AdminKinds
    <3> QED BY <2>1, <3>1 DEF Ack, IInv, TypeOK, HeldEffect
  <2>2. CASE ~Ack(d)
    BY <1>5, <2>2 DEF ReviewerStep, List, Resolve, WriteEffect, ItemFails, EndPass, View, Crash,
        store
  <2> QED BY <2>1, <2>2
<1>6. ASSUME NEW t \in Toolkits, OperatorStep(t) PROVE items'[i] = items[i]
  BY <1>6 DEF OperatorStep, BindCredential, UnbindCredential, DeleteToolkit, PurgeBindings, store
<1>7. None \notin Effects
  BY ParametersOK DEF Effects
<1> QED BY ZenonT(60), <1>0, <1>1, <1>2, <1>3, <1>4, <1>5, <1>6, <1>7 DEF Next, ItemRec, Verdicts

\* A step moves a reviewer's call only by the reviewer's own handler.
LEMMA CallsKept ==
    ASSUME IInv, Next, NEW e \in Reviewers
    PROVE  \/ ReviewerStep(e)
           \/ \E r \in Requests : Decide(e, r)
           \/ /\ pc'[e] = pc[e] /\ on'[e] = on[e] /\ ids'[e] = ids[e] /\ moved'[e] = moved[e]
              /\ todo'[e] = todo[e] /\ cur'[e] = cur[e] /\ failed'[e] = failed[e]
<1>1. ASSUME NEW d \in Reviewers \ {e}, ReviewerStep(d)
      PROVE  /\ pc'[e] = pc[e] /\ on'[e] = on[e] /\ ids'[e] = ids[e] /\ moved'[e] = moved[e]
             /\ todo'[e] = todo[e] /\ cur'[e] = cur[e] /\ failed'[e] = failed[e]
  BY <1>1 DEF ReviewerStep, List, Resolve, WriteEffect, Ack, ItemFails, EndPass, View, Crash,
      Return, IInv, TypeOK
<1>2. ASSUME NEW d \in Reviewers \ {e}, NEW r \in Requests, Decide(d, r)
      PROVE  /\ pc'[e] = pc[e] /\ on'[e] = on[e] /\ ids'[e] = ids[e] /\ moved'[e] = moved[e]
             /\ todo'[e] = todo[e] /\ cur'[e] = cur[e] /\ failed'[e] = failed[e]
  BY ZenonT(60), <1>2 DEF Decide, DecideTxn, IInv, TypeOK
<1>3. ASSUME \/ \E r \in Requests : File(r) \/ Withdraw(r)
             \/ \E i \in Items, t \in Targets : Amend(i, t)
             \/ \E t \in Toolkits : OperatorStep(t)
      PROVE  UNCHANGED call
  BY <1>3 DEF File, Withdraw, Amend, OperatorStep, BindCredential, UnbindCredential,
      DeleteToolkit, PurgeBindings
<1> QED BY <1>1, <1>2, <1>3 DEF Next, call

\* An item has a kind and a target from the moment it is filed.
LEMMA FiledPreserved == IInv /\ Next => FiledItems'
<1> SUFFICES ASSUME IInv, Next, NEW i \in Items, items'[i].status # "none"
             PROVE  items'[i].kind \in Kinds /\ items'[i].target \in TargetsOf(items'[i].kind)
  BY RowsKept DEF FiledItems, TargetsOf, IInv
<1>0. items[i] \in ItemRec
  BY DEF IInv, TypeOK
<1>1. ASSUME NEW r \in Requests, File(r)
      PROVE  \/ items'[i] = items[i]
             \/ items'[i].kind \in Kinds /\ items'[i].target \in TargetsOf(items'[i].kind)
  <2>1. PICK new \in [ItemsOf(r) -> [kind : Kinds, target : Targets]] :
            MayFile(Now, r, new) /\ FileTxn(r, new)
    BY <1>1 DEF File
  <2>2. CASE i \in ItemsOf(r)
    <3>1. items'[i].kind = new[i].kind /\ items'[i].target = new[i].target
      BY <2>1, <2>2 DEF FileTxn
    <3> QED BY <2>1, <2>2, <3>1 DEF MayFile
  <2>3. CASE i \notin ItemsOf(r)
    BY <2>1, <2>3 DEF FileTxn
  <2> QED BY <2>2, <2>3
<1>2. ASSUME NEW r \in Requests, Withdraw(r)
      PROVE  /\ items'[i].kind = items[i].kind /\ items'[i].target = items[i].target
             /\ items[i].status # "none"
  <2>1. \/ items'[i] = items[i]
        \/ items[i].status = "pending" /\ items'[i] = [items[i] EXCEPT !.status = "withdrawn"]
    BY <1>2 DEF Withdraw, WithdrawTxn, Now
  <2> QED BY <1>0, <2>1 DEF ItemRec
<1>3. ASSUME NEW j \in Items, NEW t \in Targets, Amend(j, t)
      PROVE  \/ items'[i] = items[i]
             \/ items'[i].kind = items[i].kind /\ items'[i].target \in TargetsOf(items[i].kind)
                /\ items[i].status = "pending"
  BY <1>0, <1>3 DEF Amend, AmendTxn, MayAmend, Now, IInv, TypeOK, ItemRec
<1>4. ASSUME NEW d \in Reviewers, NEW r \in Requests, Decide(d, r)
      PROVE  /\ items'[i].kind = items[i].kind /\ items'[i].target = items[i].target
             /\ items[i].status # "none"
  <2>1. PICK v \in Decisions(r) : DecideTxn(Now, d, r, v)
    BY <1>4 DEF Decide
  <2> QED BY <1>0, <2>1 DEF DecideTxn, ItemRec, Fresh, Now
<1>5. ASSUME NEW d \in Reviewers, ReviewerStep(d)
      PROVE  /\ items'[i].kind = items[i].kind /\ items'[i].target = items[i].target
             /\ items'[i].status = items[i].status
  <2>1. \/ items'[i] = items[i]
        \/ items'[i] = [items[i] EXCEPT !.applied = cur[d].to]
    BY <1>5 DEF ReviewerStep, List, Resolve, WriteEffect, Ack, ItemFails, EndPass, View, Crash,
        store, IInv, TypeOK
  <2> QED BY <1>0, <2>1 DEF ItemRec
<1>6. ASSUME NEW t \in Toolkits, OperatorStep(t) PROVE items'[i] = items[i]
  BY <1>6 DEF OperatorStep, BindCredential, UnbindCredential, DeleteToolkit, PurgeBindings, store
<1> QED BY <1>1, <1>2, <1>3, <1>4, <1>5, <1>6 DEF Next, IInv, FiledItems

\* The status of a request stays the aggregate of its items'.
LEMMA AggregatePreserved == IInv /\ Next => AggregateMatchesItems'
<1> DEFINE Statuses(q) == {items[i].status : i \in ItemsOf(q)}
           Matches(q) ==
              \/ Statuses(q) = {"none"} /\ reqs[q] = "none"
              \/ "none" \notin Statuses(q) /\ reqs[q] = AggregateStatus(Statuses(q))
              \/ reqs[q] = "withdrawn" /\ "pending" \notin Statuses(q)
<1> SUFFICES ASSUME IInv, Next, NEW q \in Requests PROVE Matches(q)'
  BY DEF AggregateMatchesItems
<1>0. Matches(q) /\ ItemsOf(q)' = ItemsOf(q) /\ ItemsOf(q) \subseteq Items
  BY DEF IInv, AggregateMatchesItems, ItemsOf
<1>1. ASSUME reqs'[q] = reqs[q], \A i \in ItemsOf(q) : items'[i].status = items[i].status
      PROVE  Matches(q)'
  <2>1. Statuses(q)' = Statuses(q)
    BY <1>0, <1>1
  <2> QED BY <1>0, <1>1, <2>1
<1>2. ASSUME NEW r \in Requests, File(r) PROVE Matches(q)'
  <2>1. CASE q = r
    <3>1. reqs'[q] = "pending" /\ \A i \in ItemsOf(q) : items'[i].status = "pending"
      BY <1>2, <2>1 DEF File, FileTxn, IInv, TypeOK, ItemsOf
    <3>2. \E i \in ItemsOf(q) : TRUE
      BY ParametersOK DEF ItemsOf
    <3>3. Statuses(q)' = {"pending"}
      BY <1>0, <3>1, <3>2
    <3> QED BY <3>1, <3>3 DEF AggregateStatus
  <2>2. CASE q # r
    BY <1>1, <1>2, <2>2 DEF File, FileTxn, IInv, TypeOK, ItemsOf
  <2> QED BY <2>1, <2>2
<1>3. ASSUME NEW r \in Requests, Withdraw(r) PROVE Matches(q)'
  <2>1. CASE q = r
    <3>1. reqs'[q] = "withdrawn"
      BY <1>3, <2>1 DEF Withdraw, WithdrawTxn, IInv, TypeOK
    <3>2. ASSUME NEW i \in ItemsOf(q) PROVE items'[i].status # "pending"
      <4>1. items[i] \in ItemRec
        BY DEF IInv, TypeOK, ItemsOf
      <4>2. items'[i] = IF items[i].status = "pending"
                        THEN [items[i] EXCEPT !.status = "withdrawn"] ELSE items[i]
        BY <1>3, <2>1 DEF Withdraw, WithdrawTxn, Now, ItemsOf
      <4> QED BY <4>1, <4>2 DEF ItemRec
    <3> QED BY <1>0, <3>1, <3>2
  <2>2. CASE q # r
    BY <1>1, <1>3, <2>2 DEF Withdraw, WithdrawTxn, IInv, TypeOK, ItemsOf
  <2> QED BY <2>1, <2>2
<1>4. ASSUME NEW i \in Items, NEW t \in Targets, Amend(i, t) PROVE Matches(q)'
  BY ZenonT(60), <1>1, <1>4 DEF Amend, AmendTxn, IInv, TypeOK, ItemRec, ItemsOf
<1>5. ASSUME NEW d \in Reviewers, NEW r \in Requests, Decide(d, r) PROVE Matches(q)'
  <2>1. PICK v \in Decisions(r) : DecideTxn(Now, d, r, v)
    BY <1>5 DEF Decide
  <2>2. Fresh(Now, v) \subseteq ItemsOf(r)
    BY DEF Decisions, Fresh
  <2>3. CASE q # r \/ Fresh(Now, v) = {}
    <3>1. reqs'[q] = reqs[q]
      BY <2>1, <2>3 DEF DecideTxn, IInv, TypeOK
    <3>2. \A i \in ItemsOf(q) : items'[i] = items[i]
      BY <2>1, <2>2, <2>3 DEF DecideTxn, ItemsOf
    <3> QED BY <1>1, <3>1, <3>2
  <2>4. CASE q = r /\ Fresh(Now, v) # {}
    <3>1. PICK j \in ItemsOf(q) : items[j].status = "pending"
      BY <2>2, <2>4 DEF Fresh, Now
    <3>2. reqs[q] = "pending" /\ "none" \notin Statuses(q)
      <4>1. "pending" \in Statuses(q)
        BY <3>1
      <4> QED BY <1>0, <4>1 DEF AggregateStatus
    <3>3. \A i \in ItemsOf(q) :
             items'[i].status = IF i \in Fresh(Now, v) THEN Recorded(Now, d, v, i)
                                ELSE items[i].status
      <4> SUFFICES ASSUME NEW i \in ItemsOf(q)
                   PROVE  items'[i].status = IF i \in Fresh(Now, v) THEN Recorded(Now, d, v, i)
                                             ELSE items[i].status
        OBVIOUS
      <4>1. items[i] \in ItemRec /\ i \in Items
        BY DEF IInv, TypeOK, ItemsOf
      <4> QED BY <2>1, <4>1 DEF DecideTxn, ItemRec
    <3>4. Aggregate(Now, d, r, v) = AggregateStatus(Statuses(q)')
      <4>1. Statuses(q)' = {IF i \in Fresh(Now, v) THEN Recorded(Now, d, v, i)
                            ELSE Now.items[i].status : i \in ItemsOf(r)}
        BY <1>0, <2>4, <3>3 DEF Now
      <4> QED BY <4>1 DEF Aggregate
    <3>5. "none" \notin Statuses(q)'
      <4>1. \A i \in Fresh(Now, v) : Recorded(Now, d, v, i) # "none"
        BY DEF Recorded, Decisions, Fresh, Verdicts
      <4> QED BY <1>0, <3>2, <3>3, <4>1
    <3>6. reqs'[q] = Aggregate(Now, d, r, v)
      BY <2>1, <2>4 DEF DecideTxn, Now, IInv, TypeOK
    <3> QED BY <3>4, <3>5, <3>6
  <2> QED BY <2>3, <2>4
<1>6. ASSUME NEW d \in Reviewers, ReviewerStep(d) PROVE Matches(q)'
  <2>1. reqs' = reqs
    BY <1>6 DEF ReviewerStep, List, Resolve, WriteEffect, Ack, ItemFails, EndPass, View, Crash,
        store
  <2>2. \A i \in Items : items'[i].status = items[i].status
    BY SMTT(60), <1>6 DEF ReviewerStep, List, Resolve, WriteEffect, Ack, ItemFails, EndPass, View, Crash,
        store, IInv, TypeOK, ItemRec
  <2> QED BY <1>0, <1>1, <2>1, <2>2
<1>7. ASSUME NEW t \in Toolkits, OperatorStep(t) PROVE Matches(q)'
  BY <1>1, <1>7 DEF OperatorStep, BindCredential, UnbindCredential, DeleteToolkit, PurgeBindings,
      store
<1> QED BY <1>2, <1>3, <1>4, <1>5, <1>6, <1>7 DEF Next

\* A request that is no longer pending keeps its status, and what was announced of it
\* stays true.
LEMMA EventsPreserved == IInv /\ Next => EventsMatch'
<1> SUFFICES ASSUME IInv, Next, NEW q \in Requests
             PROVE  events'[q] \subseteq {"filed"} \cup Announced(reqs'[q])
  BY DEF EventsMatch, Announced
<1>0. events[q] \subseteq {"filed"} \cup Announced(reqs[q])
  BY DEF IInv, EventsMatch
<1>1. ASSUME NEW r \in Requests, File(r)
      PROVE  events'[q] \subseteq {"filed"} \cup Announced(reqs'[q])
  BY <1>0, <1>1 DEF File, FileTxn, MayFile, Now, Emit, IInv, TypeOK, Announced
<1>2. ASSUME NEW r \in Requests, Withdraw(r)
      PROVE  events'[q] \subseteq {"filed"} \cup Announced(reqs'[q])
  BY <1>0, <1>2 DEF Withdraw, WithdrawTxn, MayWithdraw, Now, Emit, IInv, TypeOK, Announced
<1>3. ASSUME NEW i \in Items, NEW t \in Targets, Amend(i, t)
      PROVE  events'[q] \subseteq {"filed"} \cup Announced(reqs'[q])
  BY <1>0, <1>3 DEF Amend, AmendTxn
<1>4. ASSUME NEW d \in Reviewers, NEW r \in Requests, Decide(d, r)
      PROVE  events'[q] \subseteq {"filed"} \cup Announced(reqs'[q])
  <2>1. PICK v \in Decisions(r) : DecideTxn(Now, d, r, v)
    BY <1>4 DEF Decide
  <2>2. Fresh(Now, v) # {} => reqs[r] = "pending"
    BY RequestAndItems DEF Fresh, Now, Decisions, ItemsOf, IInv
  <2>3. reqs'[q] = reqs[q] \/ reqs[q] = "pending"
    BY <2>1, <2>2 DEF DecideTxn, IInv, TypeOK
  <2>4. events' = events
    BY <2>1 DEF DecideTxn
  <2> QED BY <1>0, <2>3, <2>4 DEF Announced
<1>5. ASSUME NEW d \in Reviewers, ReviewerStep(d)
      PROVE  events'[q] \subseteq {"filed"} \cup Announced(reqs'[q])
  <2>1. reqs' = reqs
    BY <1>5 DEF ReviewerStep, List, Resolve, WriteEffect, Ack, ItemFails, EndPass, View, Crash,
        store
  <2>2. CASE View(d)
    BY <1>0, <2>1, <2>2, ParametersOK DEF View, Emit, IInv, TypeOK, DecisionEvent, Announced
  <2>3. CASE ~View(d)
    BY <1>0, <1>5, <2>1, <2>3 DEF ReviewerStep, List, Resolve, WriteEffect, Ack, ItemFails,
        EndPass, Crash
  <2> QED BY <2>2, <2>3
<1>6. ASSUME NEW t \in Toolkits, OperatorStep(t)
      PROVE  events'[q] \subseteq {"filed"} \cup Announced(reqs'[q])
  BY <1>0, <1>6 DEF OperatorStep, BindCredential, UnbindCredential, DeleteToolkit,
      PurgeBindings, store
<1> QED BY <1>1, <1>2, <1>3, <1>4, <1>5, <1>6 DEF Next

-----------------------------------------------------------------------------
(* What reviewers hold.                                                    *)

\* What a filed item allows are effects, and null is none.
LEMMA AsksEffects ==
    ASSUME FiledItems, NEW i \in Items, items[i].status # "none"
    PROVE  Asks(i) \subseteq Effects /\ None \notin Asks(i)
BY ParametersOK DEF FiledItems, Asks, TargetsOf, Effects, AdminKinds, Kinds

\* An approved item still allows what it allowed.
LEMMA AsksKept ==
    ASSUME IInv, Next, NEW i \in Items, items[i].status = "approved"
    PROVE  items'[i].status = "approved" /\ Asks(i)' = Asks(i)
BY RowsKept DEF Asks

\* What is listed was approved when it was listed, and approvals are final.
LEMMA WorkPreserved == IInv /\ Next => HeldWork'
<1> SUFFICES ASSUME IInv, Next, NEW e \in Reviewers, NEW w \in todo'[e]
             PROVE  /\ items'[w.item].status = "approved"
                    /\ items'[w.item].kind = w.kind /\ items'[w.item].target = w.target
  BY DEF HeldWork
<1>1. CASE w \in todo[e]
  <2>1. w.item \in Items /\ items[w.item].status = "approved"
        /\ items[w.item].kind = w.kind /\ items[w.item].target = w.target
    BY <1>1 DEF IInv, TypeOK, HeldWork, Work
  <2> QED BY <2>1, RowsKept
<1>2. CASE w \notin todo[e]
  <2>1. List(e)
    <3>1. CASE ReviewerStep(e)
      BY <1>2, <3>1 DEF ReviewerStep, Resolve, WriteEffect, Ack, ItemFails, EndPass, View,
          Crash, Return, IInv, TypeOK
    <3>2. CASE \E r \in Requests : Decide(e, r)
      BY <1>2, <3>2 DEF Decide, DecideTxn
    <3> QED BY <1>2, <3>1, <3>2, CallsKept
  <2>2. PICK i \in Unacked(on[e]) :
            w = [item |-> i, kind |-> items[i].kind, target |-> items[i].target]
    BY <1>2, <2>1 DEF List, IInv, TypeOK
  <2> QED BY <2>1, <2>2 DEF List, store, Unacked
<1> QED BY <1>1, <1>2

\* What is being written was resolved from an approved item.
LEMMA EffectPreserved == IInv /\ Next => HeldEffect'
<1> SUFFICES ASSUME IInv, Next, NEW e \in Reviewers, pc'[e] \in {"write", "ack"}
             PROVE  /\ cur'[e].item \in Items
                    /\ items'[cur'[e].item].status = "approved"
                    /\ cur'[e].to \in Asks(cur[e].item)'
  BY DEF HeldEffect, Asks
<1>1. CASE pc[e] \in {"write", "ack"} /\ cur'[e] = cur[e]
  <2>1. cur[e].item \in Items /\ items[cur[e].item].status = "approved"
        /\ cur[e].to \in Asks(cur[e].item)
    BY <1>1 DEF IInv, HeldEffect
  <2> QED BY <1>1, <2>1, AsksKept
<1>2. ASSUME NEW w \in todo[e], Resolve(e, w)
      PROVE  /\ cur'[e].item \in Items
             /\ items'[cur'[e].item].status = "approved"
             /\ cur'[e].to \in Asks(cur[e].item)'
  <2>1. w \in Work /\ w.item \in Items /\ items[w.item].status = "approved"
        /\ items[w.item].kind = w.kind /\ items[w.item].target = w.target
    BY DEF IInv, TypeOK, HeldWork, Work
  <2>2. PICK t \in IF w.kind = "toolkit" THEN ResolvesTo(e, w.target) ELSE {w.target} :
            cur' = [cur EXCEPT ![e] = [item |-> w.item, to |-> t]]
    BY <1>2 DEF Resolve
  <2>3. cur'[e] = [item |-> w.item, to |-> t]
    BY <2>2 DEF IInv, TypeOK
  <2>4. t \in Asks(w.item)
    <3>1. w.kind = "toolkit" \/ w.kind = "scope"
      BY <2>1 DEF Work, AdminKinds
    <3>2. w.target \in TargetsOf(w.kind)
      BY <2>1 DEF IInv, FiledItems
    <3>3. live \subseteq Toolkits
      BY DEF IInv, TypeOK
    <3> QED BY <2>1, <2>2, <3>1, <3>2, <3>3, ParametersOK DEF Asks, ResolvesTo, Visible,
            TargetsOf, AdminKinds
  <2> QED BY <2>1, <2>3, <2>4, AsksKept
<1>3. \/ pc[e] \in {"write", "ack"} /\ cur'[e] = cur[e]
      \/ \E w \in todo[e] : Resolve(e, w)
  BY ZenonT(60), CallsKept DEF ReviewerStep, List, Resolve, WriteEffect, Ack, ItemFails, EndPass, View,
      Crash, Return, Decide, DecideTxn, IInv, TypeOK
<1> QED BY <1>1, <1>2, <1>3

\* What a call owes its caller stays owed until it is acknowledged or has failed.
LEMMA PromisePreserved == IInv /\ Next => Promised'
<1> DEFINE Kept(e) ==
              /\ pc[e] # "idle" =>
                    /\ on[e] \in Requests
                    /\ \A i \in ids[e] : /\ RequestOf[i] = on[e] /\ items[i].kind \in AdminKinds
                                         /\ items[i].status = "approved"
              /\ pc[e] \in {"drive", "write", "ack", "view"} => \A i \in ids[e] : Owed(e, i)
              /\ pc[e] = "view" => todo[e] = {} /\ ~failed[e]
<1> SUFFICES ASSUME IInv, Next, NEW e \in Reviewers PROVE Kept(e)'
  BY DEF Promised
<1>0. Kept(e) /\ ids[e] \subseteq Items /\ pc[e] \in Steps
  BY DEF IInv, Promised, TypeOK
<1>1. ASSUME pc'[e] = pc[e], on'[e] = on[e], ids'[e] = ids[e], todo'[e] = todo[e],
             cur'[e] = cur[e], failed'[e] = failed[e]
      PROVE  Kept(e)'
  <2>1. ASSUME NEW i \in ids[e], pc[e] # "idle"
        PROVE  items'[i].kind \in AdminKinds /\ items'[i].status = "approved"
    BY <1>0, <2>1, RowsKept
  <2>2. ASSUME NEW i \in ids[e], pc[e] # "idle", Owed(e, i) PROVE Owed(e, i)'
    BY <1>0, <1>1, <2>2, RowsKept DEF Owed
  <2> QED BY <1>0, <1>1, <2>1, <2>2
<1>2. ASSUME NEW r \in Requests, Decide(e, r) PROVE Kept(e)'
  <2>1. PICK v \in Decisions(r) : DecideTxn(Now, e, r, v)
    BY <1>2 DEF Decide
  <2>2. pc'[e] = "list" /\ on'[e] = r /\ ids'[e] = AdminApprovals(Now, e, v)
    BY <2>1 DEF DecideTxn, IInv, TypeOK
  <2>3. ASSUME NEW i \in AdminApprovals(Now, e, v)
        PROVE  /\ RequestOf[i] = r /\ items'[i].kind \in AdminKinds
               /\ items'[i].status = "approved"
    <3>1. i \in Items /\ i \in DOMAIN v /\ RequestOf[i] = r /\ v[i] = "approved"
          /\ items[i].kind \in AdminKinds
      BY DEF AdminApprovals, Decisions, ItemsOf, Now
    <3>2. items[i] \in ItemRec
      BY <3>1 DEF IInv, TypeOK
    <3>3. CASE i \in Fresh(Now, v)
      <4>1. Recorded(Now, e, v, i) = "approved"
        BY <3>3 DEF AdminApprovals
      <4>2. \E a : items'[i] = [items[i] EXCEPT !.status = "approved", !.applied = a]
        BY <2>1, <3>1, <3>3, <4>1 DEF DecideTxn
      <4> QED BY <3>1, <3>2, <4>2 DEF ItemRec
    <3>4. CASE i \notin Fresh(Now, v)
      <4>1. items'[i] = items[i] /\ items[i].status = v[i]
        BY <2>1, <3>1, <3>4 DEF DecideTxn, Acceptable, Now
      <4> QED BY <3>1, <4>1
    <3> QED BY <3>3, <3>4
  <2> QED BY <2>2, <2>3
<1>3. CASE List(e)
  <2>1. /\ pc[e] = "list" /\ pc'[e] = "drive" /\ on'[e] = on[e] /\ ids'[e] = ids[e]
        /\ items' = items
        /\ todo'[e] = {[item |-> i, kind |-> items[i].kind, target |-> items[i].target] :
                          i \in Unacked(on[e])}
    BY <1>3 DEF List, IInv, TypeOK, store
  <2>2. ASSUME NEW i \in ids[e], items[i].applied = None
        PROVE  \E w \in todo'[e] : w.item = i
    <3> DEFINE w == [item |-> i, kind |-> items[i].kind, target |-> items[i].target]
    <3>1. i \in Unacked(on[e])
      BY <1>0, <2>1, <2>2 DEF Unacked, ItemsOf
    <3>2. w \in todo'[e] /\ w.item = i
      BY <2>1, <3>1
    <3> QED BY <3>2
  <2> QED BY <1>0, <2>1, <2>2 DEF Owed
<1>4. ASSUME NEW w \in todo[e], Resolve(e, w) PROVE Kept(e)'
  <2>1. /\ pc[e] = "drive" /\ pc'[e] = "write" /\ on'[e] = on[e] /\ ids'[e] = ids[e]
        /\ items' = items /\ todo'[e] = todo[e] \ {w} /\ cur'[e].item = w.item
        /\ failed'[e] = failed[e]
    BY <1>4 DEF Resolve, IInv, TypeOK, store
  <2>2. ASSUME NEW i \in ids[e] PROVE Owed(e, i)'
    <3>1. Owed(e, i)
      BY <1>0, <2>1
    <3> QED BY <2>1, <3>1 DEF Owed
  <2> QED BY <1>0, <2>1, <2>2
<1>5. CASE WriteEffect(e)
  <2>1. /\ pc[e] = "write" /\ pc'[e] = "ack" /\ on'[e] = on[e] /\ ids'[e] = ids[e]
        /\ items' = items /\ todo'[e] = todo[e] /\ cur'[e] = cur[e] /\ failed'[e] = failed[e]
    BY <1>5 DEF WriteEffect, IInv, TypeOK, store
  <2> QED BY <1>0, <2>1 DEF Owed
<1>6. CASE Ack(e)
  <2>1. /\ pc[e] = "ack" /\ pc'[e] = "drive" /\ on'[e] = on[e] /\ ids'[e] = ids[e]
        /\ todo'[e] = todo[e] /\ failed'[e] = failed[e]
    BY <1>6 DEF Ack, IInv, TypeOK
  <2>2. cur[e].item \in Items /\ items'[cur[e].item].applied # None
    <3>1. cur[e].item \in Items /\ items[cur[e].item] \in ItemRec
          /\ cur[e].to \in Asks(cur[e].item)
      BY <2>1 DEF IInv, HeldEffect, TypeOK
    <3>2. cur[e].to # None
      BY <2>1, <3>1, AsksEffects DEF IInv, HeldEffect
    <3>3. items'[cur[e].item] = [items[cur[e].item] EXCEPT !.applied = cur[e].to]
      BY <1>6, <3>1 DEF Ack, IInv, TypeOK
    <3> QED BY <3>1, <3>2, <3>3 DEF ItemRec
  <2>3. ASSUME NEW i \in ids[e]
        PROVE  /\ items'[i].kind \in AdminKinds /\ items'[i].status = "approved"
               /\ Owed(e, i)'
    <3>1. items[i].status = "approved" /\ items[i].kind \in AdminKinds /\ i \in Items
          /\ Owed(e, i)
      BY <1>0, <2>1
    <3> QED BY <2>1, <2>2, <3>1, RowsKept DEF Owed
  <2> QED BY <1>0, <2>1, <2>3
<1>7. CASE ItemFails(e)
  <2>1. /\ pc[e] \in {"drive", "write", "ack"} /\ pc'[e] = "drive" /\ on'[e] = on[e]
        /\ ids'[e] = ids[e] /\ items' = items /\ failed'[e] = TRUE
    BY <1>7 DEF ItemFails, IInv, TypeOK, store
  <2> QED BY <1>0, <2>1 DEF Owed
<1>8. ASSUME Return(e) PROVE Kept(e)'
  BY <1>8 DEF Return, IInv, TypeOK
<1>9. CASE EndPass(e)
  <2>1. CASE failed[e]
    BY <1>8, <1>9, <2>1 DEF EndPass
  <2>2. CASE ~failed[e]
    <3>1. /\ pc[e] = "drive" /\ pc'[e] = "view" /\ on'[e] = on[e] /\ ids'[e] = ids[e]
          /\ items' = items /\ todo'[e] = {} /\ todo[e] = {} /\ failed'[e] = failed[e]
      BY <1>9, <2>2 DEF EndPass, IInv, TypeOK, store
    <3> QED BY <1>0, <2>2, <3>1 DEF Owed
  <2> QED BY <2>1, <2>2
<1> QED BY <1>1, <1>2, <1>3, <1>4, <1>5, <1>6, <1>7, <1>8, <1>9, CallsKept
        DEF ReviewerStep, View, Crash

\* An effect enters by the write of a reviewer who holds an approved item that asks for it,
\* and approvals and what they ask for are final.
LEMMA AuthorisedPreserved == IInv /\ Next => EffectsAuthorised'
<1> SUFFICES ASSUME IInv, Next, NEW t \in (bindings' \ InitBindings) \cup grants'
             PROVE  \E i \in Items : items'[i].status = "approved" /\ t \in Asks(i)'
  BY DEF EffectsAuthorised, Asks
<1>1. CASE t \in (bindings \ InitBindings) \cup grants
  <2>1. PICK i \in Items : items[i].status = "approved" /\ t \in Asks(i)
    BY <1>1 DEF IInv, EffectsAuthorised
  <2> QED BY <2>1, AsksKept
<1>2. ASSUME NEW d \in Reviewers, WriteEffect(d), t = cur[d].to
      PROVE  \E i \in Items : items'[i].status = "approved" /\ t \in Asks(i)'
  <2>1. cur[d].item \in Items /\ items[cur[d].item].status = "approved"
        /\ cur[d].to \in Asks(cur[d].item)
    BY <1>2 DEF WriteEffect, IInv, HeldEffect
  <2> QED BY <1>2, <2>1, AsksKept
<1>3. \/ t \in (bindings \ InitBindings) \cup grants
      \/ \E d \in Reviewers : WriteEffect(d) /\ t = cur[d].to
  <2>1. ASSUME NEW d \in Reviewers, ReviewerStep(d), ~WriteEffect(d) PROVE UNCHANGED admin
    BY <2>1 DEF ReviewerStep, List, Resolve, Ack, ItemFails, EndPass, View, Crash
  <2>2. ASSUME NEW d \in Reviewers, WriteEffect(d)
        PROVE  t \in (bindings \ InitBindings) \cup grants \/ t = cur[d].to
    BY SMTT(60), <2>2 DEF WriteEffect
  <2>3. ASSUME \/ \E r \in Requests : File(r) \/ Withdraw(r)
               \/ \E i \in Items, u \in Targets : Amend(i, u)
               \/ \E d \in Reviewers, r \in Requests : Decide(d, r)
        PROVE  UNCHANGED admin
    BY ZenonT(60), <2>3 DEF File, FileTxn, Withdraw, WithdrawTxn, Amend, AmendTxn, Decide, DecideTxn
  <2>4. ASSUME NEW u \in Toolkits, OperatorStep(u)
        PROVE  bindings' \subseteq bindings /\ grants' = grants
    BY <2>4 DEF OperatorStep, BindCredential, UnbindCredential, DeleteToolkit, PurgeBindings, admin
  <2> QED BY <2>1, <2>2, <2>3, <2>4 DEF Next, admin
<1> QED BY <1>1, <1>2, <1>3

-----------------------------------------------------------------------------
\* Every step keeps the invariant.
LEMMA StepIInv == IInv /\ [Next]_vars => IInv'
<1> SUFFICES ASSUME IInv, [Next]_vars PROVE IInv'
  OBVIOUS
<1>1. CASE Next
  BY <1>1, TypePreserved, FiledPreserved, AggregatePreserved, EventsPreserved, WorkPreserved,
     EffectPreserved, PromisePreserved, AuthorisedPreserved DEF IInv
<1>2. CASE UNCHANGED vars
  <2> USE <1>2 DEF vars
  <2>1. TypeOK' /\ FiledItems' /\ AggregateMatchesItems'
    BY ZenonT(60), TypePreserved DEF IInv, FiledItems, TargetsOf, AggregateMatchesItems, ItemsOf
  <2>2. EventsMatch' /\ HeldWork' /\ HeldEffect'
    BY DEF IInv, EventsMatch, HeldWork, HeldEffect, Asks
  <2>3. Promised' /\ EffectsAuthorised'
    BY DEF IInv, Promised, Owed, EffectsAuthorised, Asks
  <2> QED BY <2>1, <2>2, <2>3 DEF IInv
<1> QED BY <1>1, <1>2

\* The invariant holds of every behaviour.
LEMMA Invariance == Spec => []IInv
BY InitIInv, StepIInv, PTL DEF Spec

\* Every variable of the access requests keeps its type.
THEOREM TypeCorrect == Spec => []TypeOK
<1>1. IInv => TypeOK
  BY DEF IInv
<1> QED BY <1>1, Invariance, PTL

\* Every effect in force was asked for by an item that is approved now, and a decide() that
\* returns its view has approved, applied and acknowledged all it was asked to approve,
\* whatever failed, crashed and was decided meanwhile (AccessRequestService.decide).
THEOREM Effectiveness == Spec => []EffectsSound
<1>1. IInv => EffectsSound
  <2> SUFFICES ASSUME IInv PROVE DeliveredOnSuccess
    BY DEF IInv, EffectsSound
  <2> QED BY DEF IInv, Promised, Owed, DeliveredOnSuccess
<1> QED BY <1>1, Invariance, PTL

\* The status of a request is the aggregate of its items' statuses, or it is withdrawn with
\* no item pending, and its events tell no two stories (decide_item, withdraw,
\* _emit_decision).
THEOREM Coherence == Spec => []RequestCoherent
<1>1. IInv => RequestCoherent
  <2> SUFFICES ASSUME IInv, NEW r \in Requests PROVE Cardinality(events[r] \ {"filed"}) <= 1
    BY DEF IInv, RequestCoherent, EventsConsistent
  <2>1. events[r] \ {"filed"} \subseteq Announced(reqs[r])
    BY DEF IInv, EventsMatch
  <2>2. CASE events[r] \ {"filed"} = {}
    BY <2>2, FS_EmptySet
  <2>3. CASE \E k : events[r] \ {"filed"} = {k}
    <3>1. PICK k : events[r] \ {"filed"} = {k}
      BY <2>3
    <3>2. Cardinality({k}) = 1
      BY FS_Singleton
    <3> QED BY <3>1, <3>2
  <2> QED BY <2>1, <2>2, <2>3 DEF Announced
<1> QED BY <1>1, Invariance, PTL

-----------------------------------------------------------------------------
(* The refinement of ItemDecisions.                                        *)

\* The abstract state: what effects are in force, and which items are confirmed.
InForce == (bindings \ InitBindings) \cup grants
Confirmed == {i \in Items : items[i].applied # None}

\* What the items allow is among the effects.
LEMMA AsksTyped ==
    ASSUME TypeOK, FiledItems, NEW i \in Items
    PROVE  Asks(i) \subseteq Effects /\ (items[i].status = "none" => Asks(i) = {})
BY ParametersOK, AsksEffects DEF Asks, FiledItems, Unfiled, AdminKinds, Kinds

\* A step that keeps verdicts, what they allow, effects and confirmations is a stutter.
LEMMA Stutters ==
    ASSUME \A i \in Items : items'[i].status = items[i].status /\ Asks(i)' = Asks(i),
           InForce' = InForce, Confirmed' = Confirmed
    PROVE  UNCHANGED Abstract!vars
BY DEF Abstract!vars, InForce, Confirmed

\* A step that changes the verdicts of the items of S only, between two sets, moves them.
LEMMA Movement ==
    ASSUME TypeOK', NEW S \in SUBSET Items, NEW From, NEW To,
           \A i \in S : items[i].status \in From /\ items'[i].status \in To,
           \A i \in Items \ S : items'[i].status = items[i].status
    PROVE  Abstract!Moves(S, From, To)
<1>1. \A i \in Items : items'[i].status \in {"none", "pending", "approved", "denied", "withdrawn"}
  BY DEF TypeOK, ItemRec, ItemStatus, Verdicts
<1> QED BY <1>1 DEF Abstract!Moves

\* What an item with a kind and a target the schema takes may ask for is a toolkit or a scope.
LEMMA AskedWithin ==
    ASSUME NEW kind \in Kinds, NEW target \in TargetsOf(kind)
    PROVE  (CASE kind = "toolkit" /\ target = ByRef -> Toolkits
              [] kind \in AdminKinds /\ target # ByRef -> {target}
              [] OTHER -> {}) \subseteq Effects
<1>1. CASE kind = "credential"
  BY <1>1 DEF AdminKinds
<1>2. CASE kind = "toolkit"
  <2>1. CASE target = ByRef
    BY <1>2, <2>1 DEF Effects
  <2>2. CASE target # ByRef
    <3>1. target \in Toolkits
      BY <1>2, <2>2 DEF TargetsOf
    <3> QED BY <1>2, <2>2, <3>1 DEF Effects, AdminKinds
  <2> QED BY <2>1, <2>2
<1>3. CASE kind = "scope"
  <2>1. target \in Scopes /\ target # ByRef
    BY <1>3, ParametersOK DEF TargetsOf
  <2> QED BY <1>3, <2>1 DEF Effects, AdminKinds
<1> QED BY <1>1, <1>2, <1>3 DEF Kinds

\* Filing.
LEMMA FileRefines ==
    ASSUME IInv, IInv', NEW r \in Requests, File(r)
    PROVE  \E S \in SUBSET Items : Abstract!File(S)
<1>1. \A i \in ItemsOf(r) : items[i].status = "none" /\ items'[i].status = "pending"
                            /\ items'[i].applied = None
  BY RequestAndItems DEF File, FileTxn, MayFile, Now, IInv, ItemsOf
<1>2. \A i \in Items \ ItemsOf(r) : items'[i] = items[i]
  BY DEF File, FileTxn
<1>3. Abstract!Moves(ItemsOf(r), {"none"}, {"pending"})
  BY <1>1, <1>2, Movement DEF IInv, ItemsOf
<1>4. \A i \in Items : Asks(i)' \in SUBSET Effects
  <2> SUFFICES ASSUME NEW i \in Items PROVE Asks(i)' \subseteq Effects
    OBVIOUS
  <2>1. CASE items'[i].status = "none"
    BY <2>1, ParametersOK DEF IInv, FiledItems, Unfiled, Asks, AdminKinds, Kinds
  <2>2. CASE items'[i].status # "none"
    <3>1. items'[i].kind \in Kinds /\ items'[i].target \in TargetsOf(items'[i].kind)
      BY <2>2 DEF IInv, FiledItems
    <3> QED BY <3>1, AskedWithin DEF Asks
  <2> QED BY <2>1, <2>2
<1>5. \A i \in Items \ ItemsOf(r) : Asks(i)' = Asks(i)
  BY <1>2 DEF Asks
<1>6. UNCHANGED <<bindings, grants>>
  BY DEF File, FileTxn, admin
<1>7. Confirmed' = Confirmed
  BY <1>1, <1>2 DEF Confirmed, IInv, FiledItems, Unfiled, ItemsOf
<1>8. ItemsOf(r) \in SUBSET Items
  BY DEF ItemsOf
<1> QED BY <1>3, <1>4, <1>5, <1>6, <1>7, <1>8 DEF Abstract!File, Confirmed, InForce

\* Amending a pending item changes what it allows, and nothing else.
LEMMA AmendRefines ==
    ASSUME IInv, IInv', NEW i \in Items, NEW t \in Targets, Amend(i, t)
    PROVE  Abstract!Amend(i)
<1>1. /\ items[i].status = "pending"
      /\ items[i] \in ItemRec /\ items'[i] = [items[i] EXCEPT !.target = t]
      /\ \A j \in Items \ {i} : items'[j] = items[j]
  BY DEF Amend, AmendTxn, MayAmend, Now, IInv, TypeOK
<1>2. \A j \in Items : items'[j].status = items[j].status /\ items'[j].applied = items[j].applied
  BY <1>1 DEF ItemRec
<1>3. \A j \in Items \ {i} : Asks(j)' = Asks(j)
  BY <1>1 DEF Asks
<1>4. Asks(i)' \subseteq Effects
  <2>1. items'[i].kind \in Kinds /\ items'[i].target \in TargetsOf(items'[i].kind)
    BY <1>1, <1>2 DEF IInv, FiledItems
  <2> QED BY <2>1, AskedWithin DEF Asks
<1>5. [j \in Items |-> Asks(j)]' = [[j \in Items |-> Asks(j)] EXCEPT ![i] = Asks(i)']
  BY <1>3
<1>6. UNCHANGED <<bindings, grants>>
  BY DEF Amend, AmendTxn, admin
<1> QED BY <1>1, <1>2, <1>4, <1>5, <1>6 DEF Abstract!Amend

\* Withdrawing a request withdraws its pending items.
LEMMA WithdrawRefines ==
    ASSUME IInv, IInv', NEW r \in Requests, Withdraw(r)
    PROVE  \E S \in SUBSET Items : Abstract!Withdraw(S)
<1> DEFINE S == {i \in ItemsOf(r) : items[i].status = "pending"}
<1>1. \A i \in S : items'[i] = [items[i] EXCEPT !.status = "withdrawn"]
  BY DEF Withdraw, WithdrawTxn, Now, ItemsOf
<1>2. \A i \in Items \ S : items'[i] = items[i]
  BY DEF Withdraw, WithdrawTxn, Now, ItemsOf
<1>3. \A i \in S : /\ items[i].status = "pending" /\ items'[i].status = "withdrawn"
                   /\ items'[i].kind = items[i].kind /\ items'[i].target = items[i].target
                   /\ items'[i].applied = items[i].applied
  BY <1>1 DEF IInv, TypeOK, ItemRec, ItemsOf
<1>4. Abstract!Moves(S, {"pending"}, {"withdrawn"})
  BY <1>2, <1>3, Movement DEF IInv, ItemsOf
<1>5. \A i \in Items : Asks(i)' = Asks(i) /\ items'[i].applied = items[i].applied
  BY <1>2, <1>3 DEF Asks
<1>6. UNCHANGED <<bindings, grants>>
  BY DEF Withdraw, WithdrawTxn, admin
<1>7. S \in SUBSET Items
  BY DEF ItemsOf
<1> QED BY <1>4, <1>5, <1>6, <1>7 DEF Abstract!Withdraw

\* Phase 1 of decide() decides the pending items it was asked to, and confirms the
\* credential items it binds.
LEMMA DecideRefines ==
    ASSUME IInv, IInv', NEW d \in Reviewers, NEW r \in Requests, Decide(d, r)
    PROVE  \E S \in SUBSET Items : Abstract!Decide(S)
<1>1. PICK v \in Decisions(r) : DecideTxn(Now, d, r, v)
  BY DEF Decide
<1> DEFINE S == Fresh(Now, v)
           T == Binds(Now, d, v)
<1>2. S \subseteq Items /\ \A i \in S : items[i].status = "pending" /\ v[i] \in Verdicts
  BY DEF Fresh, Now, Decisions, ItemsOf
<1>3. \A i \in Items \ S : items'[i] = items[i]
  BY <1>1 DEF DecideTxn
<1>4. \A i \in S : /\ items'[i].status = Recorded(Now, d, v, i)
                   /\ items'[i].kind = items[i].kind /\ items'[i].target = items[i].target
                   /\ items'[i].applied = IF i \in Binds(Now, d, v) THEN Now.items[i].target
                                          ELSE items[i].applied
  <2> SUFFICES ASSUME NEW i \in S
               PROVE  /\ items'[i].status = Recorded(Now, d, v, i)
                      /\ items'[i].kind = items[i].kind /\ items'[i].target = items[i].target
                      /\ items'[i].applied = IF i \in Binds(Now, d, v) THEN Now.items[i].target
                                             ELSE items[i].applied
    OBVIOUS
  <2>1. items'[i] = [items[i] EXCEPT !.status = Recorded(Now, d, v, i),
                       !.applied = IF i \in Binds(Now, d, v) THEN Now.items[i].target ELSE @]
    BY <1>1, <1>2 DEF DecideTxn
  <2>2. items[i] \in ItemRec
    BY <1>2 DEF IInv, TypeOK
  <2> QED BY <2>1, <2>2 DEF ItemRec
<1>5. \A i \in S : items'[i].status \in Verdicts
  BY <1>2, <1>4 DEF Recorded, Verdicts
<1>6. Abstract!Moves(S, {"pending"}, {"approved", "denied"})
  BY <1>2, <1>3, <1>5, Movement DEF IInv, Verdicts
<1>7. \A i \in Items : Asks(i)' = Asks(i)
  BY <1>3, <1>4 DEF Asks
<1>8. T \subseteq S /\ \A i \in T : items'[i].status = "approved" /\ items[i].target # None
  BY <1>2, <1>4, ParametersOK DEF Binds, Now, IInv, FiledItems, TargetsOf
<1>9. Confirmed' = Confirmed \cup T
  <2>1. \A i \in Items : items'[i].applied # None <=> items[i].applied # None \/ i \in T
    BY <1>3, <1>4, <1>8 DEF Now
  <2> QED BY <1>2, <1>8, <2>1 DEF Confirmed
<1>10. UNCHANGED <<bindings, grants>>
  BY <1>1 DEF DecideTxn, admin
<1> QED BY <1>2, <1>6, <1>7, <1>8, <1>9, <1>10 DEF Abstract!Decide, Confirmed

\* A reviewer's phase 2 puts an effect in force that an approved item allows, confirms an
\* approved item, or does neither.
LEMMA ReviewerRefines ==
    ASSUME IInv, IInv', NEW d \in Reviewers, ReviewerStep(d)
    PROVE  Abstract!Next \/ UNCHANGED Abstract!vars
<1>1. CASE WriteEffect(d)
  <2>1. /\ cur[d].item \in Items /\ items[cur[d].item].status = "approved"
        /\ cur[d].to \in Asks(cur[d].item) /\ cur[d].to \in Effects
    BY <1>1, AsksTyped DEF WriteEffect, IInv, HeldEffect
  <2>2. items' = items
    BY <1>1 DEF WriteEffect, store
  <2>3. \A i \in Items : Asks(i)' = Asks(i)
    BY <2>2 DEF Asks
  <2>4. InForce' = InForce \/ InForce' = InForce \cup {cur[d].to}
    BY <1>1 DEF WriteEffect, InForce
  <2>5. CASE InForce' = InForce
    BY <2>2, <2>3, <2>5, Stutters DEF Confirmed
  <2>6. CASE InForce' = InForce \cup {cur[d].to}
    <3>1. Abstract!Apply(cur[d].item, cur[d].to)
      BY <2>1, <2>2, <2>3, <2>6 DEF Abstract!Apply, InForce
    <3> QED BY <2>1, <3>1 DEF Abstract!Next
  <2> QED BY <2>4, <2>5, <2>6
<1>2. CASE Ack(d)
  <2>1. cur[d].item \in Items /\ items[cur[d].item].status = "approved"
        /\ cur[d].to \in Asks(cur[d].item) /\ items[cur[d].item] \in ItemRec
    BY <1>2 DEF Ack, IInv, HeldEffect, TypeOK
  <2>2. cur[d].to # None
    BY <2>1, AsksEffects DEF IInv
  <2>3. /\ items'[cur[d].item] = [items[cur[d].item] EXCEPT !.applied = cur[d].to]
        /\ \A i \in Items \ {cur[d].item} : items'[i] = items[i]
    BY <1>2, <2>1 DEF Ack, IInv, TypeOK
  <2>4. \A i \in Items : /\ items'[i].status = items[i].status /\ items'[i].kind = items[i].kind
                         /\ items'[i].target = items[i].target
                         /\ items'[i].applied = IF i = cur[d].item THEN cur[d].to
                                                ELSE items[i].applied
    BY <2>1, <2>3 DEF ItemRec
  <2>5. \A i \in Items : Asks(i)' = Asks(i)
    BY <2>4 DEF Asks
  <2>6. Confirmed' = Confirmed \cup {cur[d].item}
    BY <2>1, <2>2, <2>4 DEF Confirmed
  <2>7. UNCHANGED <<bindings, grants>>
    BY <1>2 DEF Ack, admin
  <2>8. PICK i \in Items : i = cur[d].item
    BY <2>1
  <2>9. Abstract!Confirm(i)
    BY <2>1, <2>4, <2>5, <2>6, <2>7, <2>8 DEF Abstract!Confirm, Confirmed
  <2> QED BY <2>9 DEF Abstract!Next
<1>3. CASE ~WriteEffect(d) /\ ~Ack(d)
  <2>1. UNCHANGED <<items, bindings, grants>>
    BY <1>3 DEF ReviewerStep, List, Resolve, ItemFails, EndPass, View, Crash, store, admin
  <2> QED BY <2>1 DEF Abstract!vars, Asks
<1> QED BY <1>1, <1>2, <1>3

\* Operators may remove a binding.
LEMMA OperatorRefines ==
    ASSUME IInv, NEW t \in Toolkits, OperatorStep(t)
    PROVE  Abstract!Next \/ UNCHANGED Abstract!vars
<1>1. items' = items /\ grants' = grants /\ bindings' \in {bindings, bindings \ {t}}
  BY DEF OperatorStep, BindCredential, UnbindCredential, DeleteToolkit, PurgeBindings, store,
      admin
<1>2. \A i \in Items : Asks(i)' = Asks(i)
  BY <1>1 DEF Asks
<1>3. CASE InForce' = InForce
  BY <1>1, <1>2, <1>3, Stutters DEF Confirmed
<1>4. CASE InForce' # InForce
  <2>1. t \notin grants
    BY ParametersOK DEF IInv, TypeOK
  <2>2. t \in InForce /\ InForce' = InForce \ {t}
    BY <1>1, <1>4, <2>1 DEF InForce
  <2>3. Abstract!Remove(t)
    BY <1>1, <1>2, <2>2 DEF Abstract!Remove, InForce
  <2> QED BY <2>2, <2>3 DEF Abstract!Next, InForce
<1> QED BY <1>3, <1>4

\* Seen from outside, the requests are a behaviour of ItemDecisions: an item is decided
\* once, an effect exists because an approved item asked for it, and no failure, crash or
\* repetition of decide() shows in anything else.
THEOREM Refinement == Spec => ImplementsItemDecisions
<1>1. Init => Abstract!Init
  <2> SUFFICES ASSUME Init PROVE Abstract!Init
    OBVIOUS
  <2>1. IInv
    BY InitIInv
  <2>2. \A i \in Items : items[i].status = "none" /\ Asks(i) = {} /\ items[i].applied = None
    BY <2>1, AsksTyped DEF Init, Unfiled, IInv
  <2>3. (bindings \ InitBindings) \cup grants = {}
    BY DEF Init
  <2> QED BY <2>2, <2>3 DEF Abstract!Init
<1>2. IInv /\ IInv' /\ [Next]_vars => [Abstract!Next]_Abstract!vars
  <2> SUFFICES ASSUME IInv, IInv', [Next]_vars PROVE Abstract!Next \/ UNCHANGED Abstract!vars
    OBVIOUS
  <2>1. ASSUME NEW r \in Requests, File(r) \/ Withdraw(r) PROVE Abstract!Next
    BY <2>1, FileRefines, WithdrawRefines DEF Abstract!Next
  <2>2. ASSUME NEW i \in Items, NEW t \in Targets, Amend(i, t) PROVE Abstract!Next
    BY <2>2, AmendRefines DEF Abstract!Next
  <2>3. ASSUME NEW d \in Reviewers, NEW r \in Requests, Decide(d, r) PROVE Abstract!Next
    BY <2>3, DecideRefines DEF Abstract!Next
  <2>4. CASE UNCHANGED vars
    BY <2>4 DEF vars, Abstract!vars, Asks
  <2> QED BY <2>1, <2>2, <2>3, <2>4, ReviewerRefines, OperatorRefines DEF Next
<1> QED BY <1>1, <1>2, Invariance, PTL DEF Spec, ImplementsItemDecisions, Abstract!Spec
=============================================================================
