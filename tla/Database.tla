------------------------------ MODULE Database ------------------------------
(***************************************************************************)
(* The transactions of one database, as the services use them: a           *)
(* handler reads and checks, and its writes become visible together at its *)
(* commit.  On SQLite a transaction takes the only write lock first (BEGIN *)
(* IMMEDIATE); on PostgreSQL transactions interleave under READ COMMITTED, *)
(* and only SELECT ... FOR UPDATE and the writes themselves lock rows.     *)
(***************************************************************************)
EXTENDS Naturals

CONSTANT Workers  \* requests being served at the same time

VARIABLES
    db,  \* the configured backend; it never changes
    tx   \* what each worker is doing: [op, on, by, seen, n, open]

\* No request.
NoRequest == [op |-> "none", on |-> 0, by |-> {}, seen |-> {}, n |-> 0, open |-> FALSE]

DatabaseInit ==
    /\ db \in {"sqlite", "postgres"}
    /\ tx = [w \in Workers |-> NoRequest]

Serial == db = "sqlite"

\* Wrong variant: a deferred BEGIN, which takes no lock.
MayBeginAlways == TRUE

\* BEGIN IMMEDIATE waits for the one writer there may be.
MayBegin == Serial => \A v \in Workers : ~tx[v].open

Request(op, on, by, seen, n, open) ==
    [op |-> op, on |-> on, by |-> by, seen |-> seen, n |-> n, open |-> open]

\* A worker begins a transaction: on a row, with what was asked for and what it read ...
Begin(w, op, on, by, seen) ==
    /\ tx[w].op = "none" /\ MayBegin
    /\ tx' = [tx EXCEPT ![w] = Request(op, on, by, seen, 0, TRUE)]

\* ... or only reads, in a session of its own, before it does.
Look(w, op, on, by, n) ==
    /\ tx[w].op = "none"
    /\ tx' = [tx EXCEPT ![w] = Request(op, on, by, {}, n, FALSE)]

\* It goes on from what it looked at, with its own transaction.
Open(w, from, op, seen) ==
    /\ tx[w].op = from /\ ~tx[w].open /\ MayBegin
    /\ tx' = [tx EXCEPT ![w].op = op, ![w].seen = seen, ![w].open = TRUE]

\* The request is over: committed, or rolled back because a check, the database or
\* the process failed.
End(w) == tx' = [tx EXCEPT ![w] = NoRequest]

\* It ends in one transaction begun and committed by this step.
Short(w, op) == tx[w].op = op /\ MayBegin /\ End(w)

\* Some transaction other than w's holds row r through one of these operations.
LockedByOther(w, ops, r) ==
    \E v \in Workers \ {w} : tx[v].open /\ tx[v].op \in ops /\ tx[v].on = r

Rollback(w) == tx[w].op # "none" /\ End(w)
=============================================================================
