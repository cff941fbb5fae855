-------------------------- MODULE AccessRequestsRC --------------------------
(***************************************************************************)
(* AccessRequests under PostgreSQL's READ COMMITTED.  A control-DB          *)
(* transaction is two steps: it reads the request and its items, and later *)
(* flushes what it computed from them, by primary key, whatever was        *)
(* committed in between.  No row is locked by the reads and no version is  *)
(* checked by the writes.  Phase 2 of decide() is that of AccessRequests:  *)
(* its transactions are single statements.                                 *)
(***************************************************************************)
EXTENDS AccessRequests

CONSTANT Sessions  \* other callers: they file, amend and withdraw

VARIABLE open      \* the control transaction each caller has open, and its reads

rcVars == <<vars, open>>

Callers == Sessions \cup Reviewers

RCInit == Init /\ open = [p \in Callers |-> None]

\* A transaction starts: everything it will ever see of the request is read now.
Begin(p, txn) == open[p] = None /\ open' = [open EXCEPT ![p] = txn]

BeginFile(p, r) ==
    \E new \in [ItemsOf(r) -> [kind : Kinds, target : Targets]] :
        /\ MayFile(Now, r, new)
        /\ Begin(p, [op |-> "file", req |-> r, new |-> new, read |-> Now])

BeginAmend(p, i, t) ==
    /\ MayAmend(Now, i, t)
    /\ Begin(p, [op |-> "amend", item |-> i, target |-> t, read |-> Now])

BeginWithdraw(p, r) ==
    /\ MayWithdraw(Now, r)
    /\ Begin(p, [op |-> "withdraw", req |-> r, read |-> Now])

BeginDecide(d, r) ==
    /\ pc[d] = "idle" /\ CanFulfill(d) /\ reqs[r] # "none"
    /\ \E v \in Decisions(r) :
          Begin(d, [op |-> "decide", req |-> r, verdict |-> v, read |-> Now])

\* uq_access_request_items_pending_dedup, the partial unique index PostgreSQL has:
\* it sees rows whose to_id and resource_id are both set, here credential items.
Collides(new) ==
    \E i \in DOMAIN new :
        /\ new[i].kind = "credential"
        /\ \/ \E j \in Items : items[j].status = "pending" /\ items[j].kind = "credential"
                               /\ items[j].target = new[i].target
           \/ \E j \in DOMAIN new \ {i} : new[j] = new[i]

Commit(p) ==
    /\ open[p] # None
    /\ LET x == open[p]
       IN CASE x.op = "file" ->
                 reqs[x.req] = "none" /\ ~Collides(x.new) /\ FileTxn(x.req, x.new) /\ UNCHANGED call
            [] x.op = "amend" -> AmendTxn(x.item, x.target) /\ UNCHANGED call
            [] x.op = "withdraw" -> WithdrawTxn(x.read, x.req) /\ UNCHANGED call
            [] x.op = "decide" -> DecideTxn(x.read, p, x.req, x.verdict)
    /\ open' = [open EXCEPT ![p] = None]

\* The transaction raises, or its process dies: it is rolled back.
Rollback(p) ==
    /\ open[p] # None
    /\ open' = [open EXCEPT ![p] = None]
    /\ UNCHANGED vars

RCNext ==
    \/ \E p \in Sessions :
          /\ \/ \E r \in Requests : BeginFile(p, r) \/ BeginWithdraw(p, r)
             \/ \E i \in Items, t \in Targets : BeginAmend(p, i, t)
          /\ UNCHANGED vars
    \/ \E d \in Reviewers, r \in Requests : BeginDecide(d, r) /\ UNCHANGED vars
    \/ \E p \in Callers : Commit(p) \/ Rollback(p)
    \/ \E d \in Reviewers : ReviewerStep(d) /\ UNCHANGED open
    \/ \E t \in Toolkits : OperatorStep(t) /\ UNCHANGED open

RCSpec == RCInit /\ [][RCNext]_rcVars

\* A verdict is never replaced by the opposite one (service.decide: "a genuine conflict
\* (e.g. requested DENY for an already-APPROVED item) still raises").  Two reviewers
\* who both read an item as pending break it: the later commit overwrites the earlier.
ConflictingVerdictRaises ==
    [][\A i \in Items :
          items[i].status \in Verdicts /\ items'[i].status \in Verdicts
              => items'[i].status = items[i].status]_rcVars
=============================================================================
