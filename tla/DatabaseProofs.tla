--------------------------- MODULE DatabaseProofs ---------------------------
(***************************************************************************)
(* What a step of a handler does to the workers of Database, whichever     *)
(* component the handler belongs to: it turns at most one worker to a new  *)
(* request, and a transaction begins only where it may.                    *)
(***************************************************************************)
EXTENDS Database, TLAPS

\* Every worker has a request of the right form, and works in a transaction only if it
\* has one.
TxShape ==
    /\ tx = [w \in Workers |-> tx[w]]
    /\ \A w \in Workers :
          /\ tx[w] = Request(tx[w].op, tx[w].on, tx[w].by, tx[w].seen, tx[w].n, tx[w].open)
          /\ tx[w].open \in BOOLEAN
          /\ tx[w].op = "none" => tx[w] = NoRequest

\* On SQLite at most one transaction is open.
OneWriter == Serial => \A v, w \in Workers : tx[v].open /\ tx[w].open => v = w

DatabaseInv == TxShape /\ OneWriter

\* Worker w turns to request r, and no other worker's changes.
Turns(w, r) ==
    /\ tx' = [v \in Workers |-> tx'[v]]
    /\ tx'[w] = r
    /\ \A v \in Workers \ {w} : tx'[v] = tx[v]

\* Nobody but w is in a transaction where there is one writer.
Alone(w) == Serial => \A v \in Workers \ {w} : ~tx[v].open

\* A step serves requests of ops alone: a worker it changes turns to one of these
\* operations, or to none.
Serves(ops) == \A v \in Workers : tx'[v] = tx[v] \/ tx'[v].op \in ops \cup {"none"}

\* A step stays within ops: a worker it changes had one of these operations, or none, and
\* goes on to one of them, or to none.
Within(ops) ==
    \A v \in Workers : \/ tx'[v] = tx[v]
                       \/ tx[v].op \in ops \cup {"none"} /\ tx'[v].op \in ops \cup {"none"}

LEMMA RequestFields ==
    ASSUME NEW op, NEW on, NEW by, NEW seen, NEW n, NEW open
    PROVE  /\ Request(op, on, by, seen, n, open).op = op
           /\ Request(op, on, by, seen, n, open).on = on
           /\ Request(op, on, by, seen, n, open).by = by
           /\ Request(op, on, by, seen, n, open).seen = seen
           /\ Request(op, on, by, seen, n, open).n = n
           /\ Request(op, on, by, seen, n, open).open = open
  BY DEF Request

LEMMA NoRequestFields ==
    /\ NoRequest = Request("none", 0, {}, {}, 0, FALSE)
    /\ NoRequest.op = "none" /\ NoRequest.on = 0 /\ NoRequest.by = {}
    /\ NoRequest.seen = {} /\ NoRequest.n = 0 /\ NoRequest.open = FALSE
  BY DEF NoRequest, Request

\* The database's helpers, as turns of one worker.
LEMMA ExceptTurns ==
    ASSUME TxShape, NEW w \in Workers, NEW r, tx' = [tx EXCEPT ![w] = r]
    PROVE  Turns(w, r)
  BY DEF TxShape, Turns

LEMMA BeginTurns ==
    ASSUME TxShape, NEW w \in Workers, NEW op, NEW on, NEW by, NEW seen,
           Begin(w, op, on, by, seen)
    PROVE  /\ tx[w].op = "none" /\ MayBegin
           /\ Turns(w, Request(op, on, by, seen, 0, TRUE))
  BY ExceptTurns DEF Begin

LEMMA LookTurns ==
    ASSUME TxShape, NEW w \in Workers, NEW op, NEW on, NEW by, NEW n, Look(w, op, on, by, n)
    PROVE  tx[w].op = "none" /\ Turns(w, Request(op, on, by, {}, n, FALSE))
  BY ExceptTurns DEF Look

LEMMA OpenTurns ==
    ASSUME TxShape, NEW w \in Workers, NEW from, NEW op, NEW seen, Open(w, from, op, seen)
    PROVE  /\ tx[w].op = from /\ ~tx[w].open /\ MayBegin
           /\ Turns(w, Request(op, tx[w].on, tx[w].by, seen, tx[w].n, TRUE))
  <1> DEFINE q == tx[w]
             r == [q EXCEPT !.op = op, !.seen = seen, !.open = TRUE]
  <1>1. q = [op |-> q.op, on |-> q.on, by |-> q.by, seen |-> q.seen, n |-> q.n, open |-> q.open]
    BY DEF TxShape, Request
  <1>2. r = Request(op, q.on, q.by, seen, q.n, TRUE)
    <2>1. PICK r1 : r1 = [q EXCEPT !.op = op]
      OBVIOUS
    <2>2. PICK r2 : r2 = [r1 EXCEPT !.seen = seen]
      OBVIOUS
    <2>3. PICK r3 : r3 = [r2 EXCEPT !.open = TRUE]
      OBVIOUS
    <2>4. r3 = Request(op, q.on, q.by, seen, q.n, TRUE)
      BY <1>1, <2>1, <2>2, <2>3 DEF Request
    <2>5. r3 = [q EXCEPT !.op = op, !.seen = seen, !.open = TRUE]
      BY <2>1, <2>2, <2>3
    <2> QED BY <2>4, <2>5
  <1>3. tx' = [tx EXCEPT ![w].op = op, ![w].seen = seen, ![w].open = TRUE]
    BY DEF Open
  <1>4. tx' = [tx EXCEPT ![w] = r]
    <2>1. \A v \in Workers : tx'[v] = IF v = w THEN r ELSE tx[v]
      BY <1>3 DEF TxShape
    <2> QED BY <1>3, <2>1 DEF TxShape
  <1> QED BY <1>2, <1>4, ExceptTurns DEF Open

\* A worker that goes on to another operation, closing its transaction or not.
LEMMA OpTurns ==
    ASSUME TxShape, NEW w \in Workers, NEW op, tx' = [tx EXCEPT ![w].op = op]
    PROVE  Turns(w, Request(op, tx[w].on, tx[w].by, tx[w].seen, tx[w].n, tx[w].open))
  <1> DEFINE q == tx[w]
             r == [q EXCEPT !.op = op]
  <1>1. q = [op |-> q.op, on |-> q.on, by |-> q.by, seen |-> q.seen, n |-> q.n, open |-> q.open]
    BY DEF TxShape, Request
  <1>2. r = Request(op, q.on, q.by, q.seen, q.n, q.open)
    BY <1>1 DEF Request
  <1>3. tx' = [tx EXCEPT ![w] = r]
    OBVIOUS
  <1> QED BY <1>2, <1>3, ExceptTurns

LEMMA CloseTurns ==
    ASSUME TxShape, NEW w \in Workers, NEW op,
           tx' = [tx EXCEPT ![w].op = op, ![w].open = FALSE]
    PROVE  Turns(w, Request(op, tx[w].on, tx[w].by, tx[w].seen, tx[w].n, FALSE))
  <1> DEFINE q == tx[w]
             r == [q EXCEPT !.op = op, !.open = FALSE]
  <1>1. q = [op |-> q.op, on |-> q.on, by |-> q.by, seen |-> q.seen, n |-> q.n, open |-> q.open]
    BY DEF TxShape, Request
  <1>2. r = Request(op, q.on, q.by, q.seen, q.n, FALSE)
    <2>1. PICK r1 : r1 = [q EXCEPT !.op = op]
      OBVIOUS
    <2>2. PICK r2 : r2 = [r1 EXCEPT !.open = FALSE]
      OBVIOUS
    <2>3. r2 = Request(op, q.on, q.by, q.seen, q.n, FALSE)
      BY <1>1, <2>1, <2>2 DEF Request
    <2>4. r2 = [q EXCEPT !.op = op, !.open = FALSE]
      BY <2>1, <2>2
    <2> QED BY <2>3, <2>4
  <1>3. tx' = [tx EXCEPT ![w] = r]
    OBVIOUS
  <1> QED BY <1>2, <1>3, ExceptTurns

LEMMA SeenTurns ==
    ASSUME TxShape, NEW w \in Workers, NEW seen, tx' = [tx EXCEPT ![w].seen = seen]
    PROVE  Turns(w, Request(tx[w].op, tx[w].on, tx[w].by, seen, tx[w].n, tx[w].open))
  <1> DEFINE q == tx[w]
             r == [q EXCEPT !.seen = seen]
  <1>1. q = [op |-> q.op, on |-> q.on, by |-> q.by, seen |-> q.seen, n |-> q.n, open |-> q.open]
    BY DEF TxShape, Request
  <1>2. r = Request(q.op, q.on, q.by, seen, q.n, q.open)
    BY <1>1 DEF Request
  <1>3. tx' = [tx EXCEPT ![w] = r]
    OBVIOUS
  <1> QED BY <1>2, <1>3, ExceptTurns

\* ... with a number, or with what it saw, closing its transaction or not.
LEMMA OpNumberTurns ==
    ASSUME TxShape, NEW w \in Workers, NEW op, NEW n,
           tx' = [tx EXCEPT ![w].op = op, ![w].n = n]
    PROVE  Turns(w, Request(op, tx[w].on, tx[w].by, tx[w].seen, n, tx[w].open))
  <1> DEFINE q == tx[w]
             r == [q EXCEPT !.op = op, !.n = n]
  <1>1. q = [op |-> q.op, on |-> q.on, by |-> q.by, seen |-> q.seen, n |-> q.n, open |-> q.open]
    BY DEF TxShape, Request
  <1>2. r = Request(op, tx[w].on, tx[w].by, tx[w].seen, n, tx[w].open)
    <2>1. PICK r1 : r1 = [q EXCEPT !.op = op]
      OBVIOUS
    <2>2. PICK r2 : r2 = [r1 EXCEPT !.n = n]
      OBVIOUS
    <2>3. r2 = Request(op, tx[w].on, tx[w].by, tx[w].seen, n, tx[w].open)
      BY <1>1, <2>1, <2>2 DEF Request
    <2>4. r2 = r
      BY <2>1, <2>2
    <2> QED BY <2>3, <2>4
  <1>3. tx' = [tx EXCEPT ![w] = r]
    <2>1. \A v \in Workers : tx'[v] = IF v = w THEN r ELSE tx[v]
      BY DEF TxShape
    <2> QED BY <2>1 DEF TxShape
  <1> QED BY <1>2, <1>3, ExceptTurns

LEMMA OpSeenTurns ==
    ASSUME TxShape, NEW w \in Workers, NEW op, NEW seen,
           tx' = [tx EXCEPT ![w].op = op, ![w].seen = seen]
    PROVE  Turns(w, Request(op, tx[w].on, tx[w].by, seen, tx[w].n, tx[w].open))
  <1> DEFINE q == tx[w]
             r == [q EXCEPT !.op = op, !.seen = seen]
  <1>1. q = [op |-> q.op, on |-> q.on, by |-> q.by, seen |-> q.seen, n |-> q.n, open |-> q.open]
    BY DEF TxShape, Request
  <1>2. r = Request(op, tx[w].on, tx[w].by, seen, tx[w].n, tx[w].open)
    <2>1. PICK r1 : r1 = [q EXCEPT !.op = op]
      OBVIOUS
    <2>2. PICK r2 : r2 = [r1 EXCEPT !.seen = seen]
      OBVIOUS
    <2>3. r2 = Request(op, tx[w].on, tx[w].by, seen, tx[w].n, tx[w].open)
      BY <1>1, <2>1, <2>2 DEF Request
    <2>4. r2 = r
      BY <2>1, <2>2
    <2> QED BY <2>3, <2>4
  <1>3. tx' = [tx EXCEPT ![w] = r]
    <2>1. \A v \in Workers : tx'[v] = IF v = w THEN r ELSE tx[v]
      BY DEF TxShape
    <2> QED BY <2>1 DEF TxShape
  <1> QED BY <1>2, <1>3, ExceptTurns

LEMMA OpSeenCloseTurns ==
    ASSUME TxShape, NEW w \in Workers, NEW op, NEW seen,
           tx' = [tx EXCEPT ![w].op = op, ![w].seen = seen, ![w].open = FALSE]
    PROVE  Turns(w, Request(op, tx[w].on, tx[w].by, seen, tx[w].n, FALSE))
  <1> DEFINE q == tx[w]
             r == [q EXCEPT !.op = op, !.seen = seen, !.open = FALSE]
  <1>1. q = [op |-> q.op, on |-> q.on, by |-> q.by, seen |-> q.seen, n |-> q.n, open |-> q.open]
    BY DEF TxShape, Request
  <1>2. r = Request(op, tx[w].on, tx[w].by, seen, tx[w].n, FALSE)
    <2>1. PICK r1 : r1 = [q EXCEPT !.op = op]
      OBVIOUS
    <2>2. PICK r2 : r2 = [r1 EXCEPT !.seen = seen]
      OBVIOUS
    <2>3. PICK r3 : r3 = [r2 EXCEPT !.open = FALSE]
      OBVIOUS
    <2>4. r3 = Request(op, tx[w].on, tx[w].by, seen, tx[w].n, FALSE)
      BY <1>1, <2>1, <2>2, <2>3 DEF Request
    <2>5. r3 = r
      BY <2>1, <2>2, <2>3
    <2> QED BY <2>4, <2>5
  <1>3. tx' = [tx EXCEPT ![w] = r]
    <2>1. \A v \in Workers : tx'[v] = IF v = w THEN r ELSE tx[v]
      BY DEF TxShape
    <2> QED BY <2>1 DEF TxShape
  <1> QED BY <1>2, <1>3, ExceptTurns

LEMMA EndTurns ==
    ASSUME TxShape, NEW w \in Workers, End(w)
    PROVE  Turns(w, NoRequest)
  BY ExceptTurns DEF End

LEMMA ShortTurns ==
    ASSUME TxShape, NEW w \in Workers, NEW op, Short(w, op)
    PROVE  tx[w].op = op /\ MayBegin /\ Turns(w, NoRequest)
  BY EndTurns DEF Short

\* A turn to an operation serves it.
LEMMA TurnServes ==
    ASSUME NEW ops, NEW w \in Workers, NEW r, Turns(w, r), r.op \in ops \cup {"none"}
    PROVE  Serves(ops)
  BY DEF Turns, Serves

LEMMA RequestServes ==
    ASSUME NEW ops, NEW w \in Workers, NEW op \in ops,
           NEW on, NEW by, NEW seen, NEW n, NEW open, Turns(w, Request(op, on, by, seen, n, open))
    PROVE  Serves(ops)
  <1>1. Request(op, on, by, seen, n, open).op = op
    BY RequestFields
  <1> QED BY <1>1, TurnServes

LEMMA EndServes ==
    ASSUME NEW ops, NEW w \in Workers, Turns(w, NoRequest)
    PROVE  Serves(ops)
  BY TurnServes, NoRequestFields

LEMMA RequestWithin ==
    ASSUME NEW ops, NEW w \in Workers, tx[w].op \in ops \cup {"none"}, NEW op \in ops,
           NEW on, NEW by, NEW seen, NEW n, NEW open, Turns(w, Request(op, on, by, seen, n, open))
    PROVE  Within(ops)
  <1>1. Request(op, on, by, seen, n, open).op = op
    BY RequestFields
  <1> QED BY <1>1 DEF Turns, Within

LEMMA EndWithin ==
    ASSUME NEW ops, NEW w \in Workers, tx[w].op \in ops \cup {"none"}, Turns(w, NoRequest)
    PROVE  Within(ops)
  BY NoRequestFields DEF Turns, Within

\* Workers with an operation of another part are left alone by a step that stays within ops.
LEMMA WithinElsewhere ==
    ASSUME NEW ops, NEW others, ops \cap others = {}, "none" \notin others, Within(ops)
    PROVE  \A v \in Workers : tx[v].op \in others \/ tx'[v].op \in others => tx'[v] = tx[v]
  BY DEF Within

\* Where a transaction may begin, and where one is open, nobody else is in one.
LEMMA BeginnerAlone ==
    ASSUME MayBegin, NEW w \in Workers
    PROVE  Alone(w)
  BY DEF MayBegin, Alone

LEMMA HolderAlone ==
    ASSUME OneWriter, NEW w \in Workers, tx[w].open
    PROVE  Alone(w)
  BY DEF OneWriter, Alone

\* A turn keeps the invariant if a transaction is begun alone.
LEMMA TurnKeepsDatabase ==
    ASSUME DatabaseInv, db' = db, NEW w \in Workers,
           NEW op, NEW on, NEW by, NEW seen, NEW n, NEW open \in BOOLEAN,
           Turns(w, Request(op, on, by, seen, n, open)),
           op = "none" => Request(op, on, by, seen, n, open) = NoRequest,
           open => tx[w].open \/ MayBegin
    PROVE  DatabaseInv'
  <1> DEFINE r == Request(op, on, by, seen, n, open)
  <1>1. r.open = open /\ r = Request(r.op, r.on, r.by, r.seen, r.n, r.open) /\ r.op = op
    BY RequestFields
  <1>2. \A v \in Workers : tx'[v] = IF v = w THEN r ELSE tx[v]
    BY DEF Turns
  <1>3. TxShape'
    <2>1. tx' = [v \in Workers |-> tx'[v]]
      BY DEF Turns
    <2>2. ASSUME NEW v \in Workers
          PROVE  /\ tx'[v] = Request(tx'[v].op, tx'[v].on, tx'[v].by, tx'[v].seen, tx'[v].n, tx'[v].open)
                 /\ tx'[v].open \in BOOLEAN
                 /\ tx'[v].op = "none" => tx'[v] = NoRequest
      <3>1. CASE v = w
        <4>1. tx'[v] = r
          BY <1>2, <3>1
        <4> QED BY <4>1, <1>1
      <3>2. CASE v # w
        BY <1>2, <3>2 DEF DatabaseInv, TxShape
      <3> QED BY <3>1, <3>2
    <2> QED BY <2>1, <2>2 DEF TxShape
  <1>4. OneWriter'
    <2> SUFFICES ASSUME Serial, NEW u \in Workers, NEW v \in Workers, tx'[u].open, tx'[v].open, u # v
                 PROVE  FALSE
      BY DEF OneWriter, Serial
    <2>1. CASE u # w /\ v # w
      BY <1>2, <2>1 DEF DatabaseInv, OneWriter
    <2>2. CASE u = w
      BY <1>1, <1>2, <2>2 DEF DatabaseInv, OneWriter, MayBegin
    <2>3. CASE v = w
      BY <1>1, <1>2, <2>3 DEF DatabaseInv, OneWriter, MayBegin
    <2> QED BY <2>1, <2>2, <2>3
  <1> QED BY <1>3, <1>4 DEF DatabaseInv

LEMMA EndKeepsDatabase ==
    ASSUME DatabaseInv, db' = db, NEW w \in Workers, Turns(w, NoRequest)
    PROVE  DatabaseInv'
  BY TurnKeepsDatabase, NoRequestFields

LEMMA StutterKeepsDatabase ==
    ASSUME DatabaseInv, db' = db, tx' = tx
    PROVE  DatabaseInv'
  BY DEF DatabaseInv, TxShape, OneWriter, Serial

LEMMA DatabaseStarts ==
    ASSUME DatabaseInit
    PROVE  DatabaseInv
  <1>1. tx = [w \in Workers |-> NoRequest]
    BY DEF DatabaseInit
  <1> QED BY <1>1, NoRequestFields DEF DatabaseInv, TxShape, OneWriter
=============================================================================
