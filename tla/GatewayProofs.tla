---------------------------- MODULE GatewayProofs ----------------------------
(***************************************************************************)
(* Proofs about Gateway.  Each part of the broker has an invariant of its  *)
(* own, about its variables and the workers that serve its requests; a     *)
(* step of another part changes neither, because it stays within the       *)
(* operations of that part.                                                *)
(***************************************************************************)
EXTENDS Gateway, RecordsProofs

-----------------------------------------------------------------------------
(* Calls with an Idempotency-Key.                                          *)

CallTypes ==
    /\ slot \in [Slots -> [phase : {"free", "pending", "done"}, fp : Fingerprints \cup {0},
                           run : 0..MaxRuns]]
    /\ runs \in [Slots -> Seq(Fingerprints)]
    /\ \A s \in Slots : Len(runs[s]) <= MaxRuns
    /\ recorded \subseteq Slots \X (1..MaxRuns)
    /\ expiries \in [Slots -> 0..MaxExpiries]

\* The n-th run under a slot was of fingerprint f, and it is recorded.
Ran(s, f, n) == n \in 1..Len(runs[s]) /\ runs[s][n] = f
RanAndRecorded(s, f, n) == Ran(s, f, n) /\ <<s, n>> \in recorded

\* A done slot holds a recorded run.
SlotsTrue ==
    \A s \in Slots : slot[s].phase = "done" => RanAndRecorded(s, slot[s].fp, slot[s].run)

\* What a worker that serves a call holds: the slot and the fingerprint of its request, and
\* once it was sent, or found, the run.
CallHeld(q) ==
    q.op \in CallOps =>
        /\ q.on \in Slots
        /\ \E f \in Fingerprints :
              /\ q.by = {f}
              /\ q.op \in {"answered", "failed"} => Ran(q.on, f, q.n)
              /\ q.op \in {"recorded", "replayed"} => RanAndRecorded(q.on, f, q.n)

CallWork == \A w \in Workers : CallHeld(tx[w])

\* Those who hold a claim of slot s that has not been sent.
Claims(q, s) == q.op \in {"claimed", "calling"} /\ q.on = s
Claimers(s) == {w \in Workers : Claims(tx[w], s)}

\* Every run, and every claim that may still run, goes back to the entry there is or to
\* one that expired.
ClaimsCounted ==
    \A s \in Slots :
        Len(runs[s]) + Cardinality(Claimers(s))
            <= expiries[s] + (IF slot[s].phase = "free" THEN 0 ELSE 1)

CallInv == CallTypes /\ SlotsTrue /\ CallWork /\ ClaimsCounted

\* The claimers of a slot, where one worker turns.
LEMMA ClaimersTurn ==
    ASSUME NEW w \in Workers, NEW r, Turns(w, r), NEW s
    PROVE  /\ Cardinality(Claimers(s)) \in Nat /\ Cardinality(Claimers(s)') \in Nat
           /\ (Claims(r, s) <=> Claims(tx[w], s)) =>
                  Cardinality(Claimers(s)') = Cardinality(Claimers(s))
           /\ Claims(r, s) /\ ~Claims(tx[w], s) =>
                  Cardinality(Claimers(s)') = Cardinality(Claimers(s)) + 1
           /\ ~Claims(r, s) /\ Claims(tx[w], s) =>
                  Cardinality(Claimers(s)') = Cardinality(Claimers(s)) - 1
  <1>1. IsFiniteSet(Claimers(s)) /\ IsFiniteSet(Claimers(s)')
    <2>1. Claimers(s) \subseteq Workers /\ Claimers(s)' \subseteq Workers
      BY DEF Claimers
    <2> QED BY <2>1, FS_Subset, CallsOK
  <1>2. Cardinality(Claimers(s)) \in Nat /\ Cardinality(Claimers(s)') \in Nat
    BY <1>1, FS_CardinalityType
  <1>3. \A v \in Workers : tx'[v] = IF v = w THEN r ELSE tx[v]
    BY DEF Turns
  <1>4. ASSUME Claims(r, s) <=> Claims(tx[w], s)
        PROVE  Claimers(s)' = Claimers(s)
    BY <1>3, <1>4 DEF Claimers, Claims
  <1>5. ASSUME Claims(r, s), ~Claims(tx[w], s)
        PROVE  Claimers(s)' = Claimers(s) \cup {w} /\ w \notin Claimers(s)
    BY <1>3, <1>5 DEF Claimers, Claims
  <1>6. ASSUME ~Claims(r, s), Claims(tx[w], s)
        PROVE  Claimers(s)' = Claimers(s) \ {w} /\ w \in Claimers(s)
    BY <1>3, <1>6 DEF Claimers, Claims
  <1>7. Claims(r, s) /\ ~Claims(tx[w], s) =>
            Cardinality(Claimers(s)') = Cardinality(Claimers(s)) + 1
    BY <1>1, <1>5, FS_AddElement
  <1>8. ~Claims(r, s) /\ Claims(tx[w], s) =>
            Cardinality(Claimers(s)') = Cardinality(Claimers(s)) - 1
    BY <1>1, <1>6, FS_RemoveElement
  <1> QED BY <1>2, <1>4, <1>7, <1>8

\* Where runs and records only grow, what workers hold stays true.
LEMMA CallHeldGrows ==
    ASSUME NEW q, CallHeld(q), CallTypes,
           recorded \subseteq recorded',
           \A s \in Slots : /\ Len(runs[s]) <= Len(runs'[s]) /\ Len(runs'[s]) \in Nat
                            /\ \A n \in 1..Len(runs[s]) : runs'[s][n] = runs[s][n]
    PROVE  CallHeld(q)'
  <1>1. \A s \in Slots : \A f, n : Ran(s, f, n) => Ran(s, f, n)'
    <2> TAKE s \in Slots
    <2>1. Len(runs[s]) \in Nat /\ Len(runs'[s]) \in Nat
      BY DEF CallTypes
    <2> QED BY <2>1 DEF Ran
  <1>2. \A s \in Slots : \A f, n : RanAndRecorded(s, f, n) => RanAndRecorded(s, f, n)'
    BY <1>1 DEF RanAndRecorded
  <1> QED BY <1>1, <1>2 DEF CallHeld

LEMMA CallWorkTurn ==
    ASSUME CallInv, NEW w \in Workers, NEW r, Turns(w, r), CallHeld(r)',
           recorded \subseteq recorded',
           \A s \in Slots : /\ Len(runs[s]) <= Len(runs'[s]) /\ Len(runs'[s]) \in Nat
                            /\ \A n \in 1..Len(runs[s]) : runs'[s][n] = runs[s][n]
    PROVE  CallWork'
  <1>1. \A v \in Workers : tx'[v] = IF v = w THEN r ELSE tx[v]
    BY DEF Turns
  <1>2. \A v \in Workers : CallHeld(tx[v])'
    <2> TAKE v \in Workers
    <2>1. CallHeld(tx[v])
      BY DEF CallInv, CallWork
    <2>2. CASE v = w
      <3>1. tx'[v] = r
        BY <1>1, <2>2
      <3> QED BY <3>1 DEF CallHeld, Ran, RanAndRecorded
    <2>3. CASE v # w
      <3>1. tx'[v] = tx[v]
        BY <1>1, <2>3
      <3>2. PICK q : q = tx[v]
        OBVIOUS
      <3>3. CallHeld(q)'
        BY <2>1, <3>2, CallHeldGrows DEF CallInv
      <3> QED BY <3>1, <3>2, <3>3 DEF CallHeld, Ran, RanAndRecorded
    <2> QED BY <2>2, <2>3
  <1> QED BY <1>2 DEF CallWork

\* A step that leaves the runs and the records as they are, and gives up or keeps a claim.
LEMMA CallTurnKeeps ==
    ASSUME CallInv, UNCHANGED idempotentCalls, NEW w \in Workers, NEW r, Turns(w, r),
           CallHeld(r), \A s \in Slots : Claims(r, s) => Claims(tx[w], s)
    PROVE  CallInv'
  <1>1. CallTypes' /\ SlotsTrue'
    BY DEF CallInv, CallTypes, SlotsTrue, RanAndRecorded, Ran, idempotentCalls
  <1>2. CallWork'
    <2>1. CallHeld(r)'
      BY DEF CallHeld, Ran, RanAndRecorded, idempotentCalls
    <2>2. \A s \in Slots : Len(runs[s]) \in Nat
      BY DEF CallInv, CallTypes
    <2> QED BY <2>1, <2>2, CallWorkTurn DEF idempotentCalls
  <1>3. ClaimsCounted'
    <2> SUFFICES ASSUME NEW s \in Slots
                 PROVE  (Len(runs[s]) + Cardinality(Claimers(s))
                            <= expiries[s] + (IF slot[s].phase = "free" THEN 0 ELSE 1))'
      BY DEF ClaimsCounted
    <2>1. Len(runs[s]) \in Nat /\ expiries[s] \in Nat
      BY CallsOK DEF CallInv, CallTypes
    <2>2. Len(runs[s]) + Cardinality(Claimers(s))
              <= expiries[s] + (IF slot[s].phase = "free" THEN 0 ELSE 1)
      BY DEF CallInv, ClaimsCounted
    <2>3. Cardinality(Claimers(s)') \in Nat /\ Cardinality(Claimers(s)') <= Cardinality(Claimers(s))
      BY ClaimersTurn
    <2>4. Cardinality(Claimers(s)) \in Nat
      BY ClaimersTurn
    <2> QED BY <2>1, <2>2, <2>3, <2>4 DEF idempotentCalls
  <1> QED BY <1>1, <1>2, <1>3 DEF CallInv

LEMMA CallEnds ==
    ASSUME CallInv, UNCHANGED idempotentCalls, NEW w \in Workers, Turns(w, NoRequest)
    PROVE  CallInv'
  <1>1. CallHeld(NoRequest) /\ \A s \in Slots : ~Claims(NoRequest, s)
    BY NoRequestFields DEF CallHeld, CallOps, Claims
  <1> QED BY <1>1, CallTurnKeeps

LEMMA ClaimKeeps ==
    ASSUME CallInv, DatabaseInv, db' = db, NEW w \in Workers, NEW s \in Slots,
           NEW f \in Fingerprints, Claim(w, s, f)
    PROVE  CallInv' /\ DatabaseInv' /\ Within(CallOps)
  <1>1. CASE slot[s].phase = "free"
    <2>0. PICK r : r = Request("claimed", s, {f}, {}, 0, FALSE)
      OBVIOUS
    <2>1. /\ slot' = [slot EXCEPT ![s] = Pending(f)] /\ tx[w].op = "none" /\ Turns(w, r)
          /\ UNCHANGED <<runs, recorded, expiries>>
      BY <1>1, <2>0, LookTurns DEF Claim, DatabaseInv
    <2>2. r.op = "claimed" /\ r.on = s /\ r.by = {f}
      BY <2>0 DEF Request
    <2>3. CallTypes' /\ SlotsTrue'
      BY <2>1, CallsOK DEF CallInv, CallTypes, SlotsTrue, RanAndRecorded, Ran, Pending
    <2>4. CallWork'
      <3>1. CallHeld(r)'
        BY <2>2 DEF CallHeld
      <3>2. \A t \in Slots : Len(runs[t]) \in Nat
        BY DEF CallInv, CallTypes
      <3> QED BY <2>1, <3>1, <3>2, CallWorkTurn
    <2>5. ClaimsCounted'
      <3> SUFFICES ASSUME NEW t \in Slots
                   PROVE  (Len(runs[t]) + Cardinality(Claimers(t))
                              <= expiries[t] + (IF slot[t].phase = "free" THEN 0 ELSE 1))'
        BY DEF ClaimsCounted
      <3>1. Len(runs[t]) \in Nat /\ expiries[t] \in Nat
        BY CallsOK DEF CallInv, CallTypes
      <3>2. Len(runs[t]) + Cardinality(Claimers(t))
                <= expiries[t] + (IF slot[t].phase = "free" THEN 0 ELSE 1)
        BY DEF CallInv, ClaimsCounted
      <3>3. ~Claims(tx[w], t)
        BY <2>1 DEF Claims
      <3>4. CASE t = s
        <4>1. Cardinality(Claimers(t)') = Cardinality(Claimers(t)) + 1
          BY <2>1, <2>2, <3>3, <3>4, ClaimersTurn DEF Claims
        <4>2. Cardinality(Claimers(t)) \in Nat
          BY <2>1, ClaimersTurn
        <4>3. slot'[t].phase = "pending"
          BY <2>1, <3>4 DEF CallInv, CallTypes, Pending
        <4> QED BY SMTT(60), <1>1, <2>1, <3>1, <3>2, <3>4, <4>1, <4>2, <4>3
      <3>5. CASE t # s
        <4>1. Cardinality(Claimers(t)') = Cardinality(Claimers(t))
          BY <2>1, <2>2, <3>3, <3>5, ClaimersTurn DEF Claims
        <4>2. slot'[t] = slot[t]
          BY <2>1, <3>5 DEF CallInv, CallTypes
        <4> QED BY <2>1, <3>1, <3>2, <4>1, <4>2
      <3> QED BY <3>4, <3>5
    <2>6. DatabaseInv'
      BY <2>0, <2>1, TurnKeepsDatabase
    <2>7. Within(CallOps)
      BY <2>0, <2>1, RequestWithin DEF CallOps
    <2> QED BY <2>3, <2>4, <2>5, <2>6, <2>7 DEF CallInv
  <1>2. CASE slot[s].phase # "free"
    <2>0. PICK r : r = Request("refused", s, {f}, {}, 0, FALSE)
      OBVIOUS
    <2>1. tx[w].op = "none" /\ Turns(w, r) /\ UNCHANGED idempotentCalls
      BY <1>2, <2>0, LookTurns DEF Claim, DatabaseInv, idempotentCalls
    <2>2. CallHeld(r) /\ \A t \in Slots : ~Claims(r, t)
      BY <2>0 DEF Request, CallHeld, Claims
    <2>3. CallInv'
      BY <2>1, <2>2, CallTurnKeeps
    <2>4. DatabaseInv'
      BY <2>0, <2>1, TurnKeepsDatabase
    <2>5. Within(CallOps)
      BY <2>0, <2>1, RequestWithin DEF CallOps
    <2> QED BY <2>3, <2>4, <2>5
  <1> QED BY <1>1, <1>2

LEMMA CallReplyKeeps ==
    ASSUME CallInv, DatabaseInv, db' = db, NEW w \in Workers,
           Classify(w) \/ Reply(w) \/ AbandonCall(w)
    PROVE  CallInv' /\ DatabaseInv' /\ Within(CallOps)
  <1>1. CASE /\ tx[w].op \in CallOps /\ UNCHANGED idempotentCalls /\ End(w)
    <2>1. Turns(w, NoRequest)
      BY <1>1, EndTurns DEF DatabaseInv
    <2> QED BY <1>1, <2>1, CallEnds, EndKeepsDatabase, EndWithin
  <1>2. CASE /\ tx[w].op = "refused" /\ Replays(w) /\ UNCHANGED idempotentCalls
             /\ tx' = [tx EXCEPT ![w].op = "replayed", ![w].n = slot[tx[w].on].run]
    <2>1. PICK n : n = slot[tx[w].on].run
      OBVIOUS
    <2>2. PICK r : r = Request("replayed", tx[w].on, tx[w].by, tx[w].seen, n, tx[w].open)
      OBVIOUS
    <2>3. Turns(w, r)
      BY <1>2, <2>1, <2>2, OpNumberTurns DEF DatabaseInv
    <2>4. CallHeld(tx[w])
      BY DEF CallInv, CallWork
    <2>5. PICK f \in Fingerprints : tx[w].by = {f} /\ tx[w].on \in Slots
      BY <1>2, <2>4 DEF CallHeld, CallOps
    <2>6. RanAndRecorded(tx[w].on, f, n)
      BY <1>2, <2>1, <2>5 DEF Replays, Fingerprint, CallInv, SlotsTrue
    <2>7. CallHeld(r)
      BY <2>2, <2>5, <2>6 DEF CallHeld, Request
    <2>8. \A s \in Slots : ~Claims(r, s)
      BY <2>2 DEF Claims, Request
    <2>9. CallInv'
      BY <1>2, <2>3, <2>7, <2>8, CallTurnKeeps
    <2>10. tx[w].open \in BOOLEAN
      BY DEF DatabaseInv, TxShape
    <2>11. DatabaseInv'
      BY <2>2, <2>3, <2>10, TurnKeepsDatabase
    <2>12. Within(CallOps)
      BY <1>2, <2>2, <2>3, RequestWithin DEF CallOps
    <2> QED BY <2>9, <2>11, <2>12
  <1> QED BY <1>1, <1>2 DEF Classify, Reply, AbandonCall, CallOps

LEMMA BeginCallKeeps ==
    ASSUME CallInv, DatabaseInv, db' = db, NEW w \in Workers, BeginCall(w)
    PROVE  CallInv' /\ DatabaseInv' /\ Within(CallOps)
  <1>1. PICK r : r = Request("calling", tx[w].on, tx[w].by, {}, tx[w].n, TRUE)
    OBVIOUS
  <1>2. tx[w].op = "claimed" /\ MayBegin /\ Turns(w, r) /\ UNCHANGED idempotentCalls
    BY <1>1, OpenTurns DEF BeginCall, DatabaseInv
  <1>3. CallHeld(tx[w])
    BY DEF CallInv, CallWork
  <1>4. CallHeld(r)
    BY <1>1, <1>2, <1>3 DEF CallHeld, Request, CallOps
  <1>5. \A s \in Slots : Claims(r, s) => Claims(tx[w], s)
    BY <1>1, <1>2 DEF Claims, Request
  <1>6. CallInv'
    BY <1>2, <1>4, <1>5, CallTurnKeeps
  <1>7. DatabaseInv'
    BY <1>1, <1>2, TurnKeepsDatabase
  <1>8. Within(CallOps)
    BY <1>1, <1>2, RequestWithin DEF CallOps
  <1> QED BY <1>6, <1>7, <1>8

\* The upstream is called: the claim is used up by the run.
LEMMA SendKeeps ==
    ASSUME CallInv, DatabaseInv, db' = db, NEW w \in Workers, Send(w)
    PROVE  CallInv' /\ DatabaseInv' /\ Within(CallOps)
  <1>1. PICK s : s = tx[w].on
    OBVIOUS
  <1>2. CallHeld(tx[w])
    BY DEF CallInv, CallWork
  <1>3. PICK f \in Fingerprints : tx[w].by = {f} /\ s \in Slots
    BY <1>1, <1>2 DEF CallHeld, CallOps, Send
  <1>4. PICK n : n = Len(runs[s]) + 1
    OBVIOUS
  <1>5. PICK outcome \in {"answered", "failed"} :
            tx' = [tx EXCEPT ![w].op = outcome, ![w].n = n]
    BY <1>1, <1>4 DEF Send
  <1>6. /\ tx[w].op = "calling" /\ Len(runs[s]) < MaxRuns
        /\ runs' = [runs EXCEPT ![s] = Append(@, f)]
        /\ UNCHANGED <<slot, recorded, expiries>>
    BY <1>1, <1>3 DEF Send, Fingerprint
  <1>7. PICK r : r = Request(outcome, s, {f}, tx[w].seen, n, tx[w].open)
    OBVIOUS
  <1>8. Turns(w, r)
    BY <1>1, <1>3, <1>5, <1>7, OpNumberTurns DEF DatabaseInv
  <1>9. r.op = outcome /\ r.on = s /\ r.by = {f} /\ r.n = n
    BY <1>7 DEF Request
  <1>10. \A t \in Slots : runs[t] \in Seq(Fingerprints) /\ Len(runs[t]) \in Nat
    BY DEF CallInv, CallTypes
  <1>11. /\ runs' \in [Slots -> Seq(Fingerprints)]
         /\ \A t \in Slots : t # s => runs'[t] = runs[t]
         /\ Len(runs'[s]) = n /\ runs'[s][n] = f
         /\ \A i \in 1..Len(runs[s]) : runs'[s][i] = runs[s][i]
    BY <1>3, <1>4, <1>6, <1>10 DEF CallInv, CallTypes
  <1>12. CallTypes'
    BY <1>3, <1>4, <1>6, <1>10, <1>11, CallsOK DEF CallInv, CallTypes
  <1>13. \A t \in Slots : /\ Len(runs[t]) <= Len(runs'[t]) /\ Len(runs'[t]) \in Nat
                          /\ \A i \in 1..Len(runs[t]) : runs'[t][i] = runs[t][i]
    BY <1>4, <1>10, <1>11
  <1>14. SlotsTrue'
    <2> SUFFICES ASSUME NEW t \in Slots, slot[t].phase = "done"
                 PROVE  RanAndRecorded(t, slot[t].fp, slot[t].run)'
      BY <1>6 DEF SlotsTrue
    <2>1. RanAndRecorded(t, slot[t].fp, slot[t].run)
      BY DEF CallInv, SlotsTrue
    <2> QED BY <1>6, <1>10, <1>13, <2>1 DEF RanAndRecorded, Ran
  <1>15. CallWork'
    <2>1. CallHeld(r)'
      BY <1>3, <1>4, <1>9, <1>10, <1>11 DEF CallHeld, Ran
    <2> QED BY <1>6, <1>8, <1>13, <2>1, CallWorkTurn
  <1>16. ClaimsCounted'
    <2> SUFFICES ASSUME NEW t \in Slots
                 PROVE  (Len(runs[t]) + Cardinality(Claimers(t))
                            <= expiries[t] + (IF slot[t].phase = "free" THEN 0 ELSE 1))'
      BY DEF ClaimsCounted
    <2>1. expiries[t] \in Nat
      BY CallsOK DEF CallInv, CallTypes
    <2>2. Len(runs[t]) + Cardinality(Claimers(t))
              <= expiries[t] + (IF slot[t].phase = "free" THEN 0 ELSE 1)
      BY DEF CallInv, ClaimsCounted
    <2>3. ~Claims(r, t) /\ (Claims(tx[w], t) <=> t = s)
      BY <1>1, <1>6, <1>9 DEF Claims
    <2>4. Cardinality(Claimers(t)) \in Nat /\ Cardinality(Claimers(t)') \in Nat
      BY <1>8, ClaimersTurn
    <2>5. CASE t = s
      <3>1. Cardinality(Claimers(t)') = Cardinality(Claimers(t)) - 1
        BY <1>8, <2>3, <2>5, ClaimersTurn
      <3>2. Len(runs'[t]) = Len(runs[t]) + 1
        BY <1>4, <1>11, <2>5
      <3> QED BY <1>6, <1>10, <2>1, <2>2, <2>4, <3>1, <3>2
    <2>6. CASE t # s
      <3>1. Cardinality(Claimers(t)') = Cardinality(Claimers(t))
        BY <1>8, <2>3, <2>6, ClaimersTurn
      <3> QED BY <1>6, <1>10, <1>11, <2>1, <2>2, <2>4, <2>6, <3>1
    <2> QED BY <2>5, <2>6
  <1>17. DatabaseInv'
    <2>1. tx[w].open \in BOOLEAN
      BY DEF DatabaseInv, TxShape
    <2> QED BY <1>5, <1>7, <1>8, <2>1, TurnKeepsDatabase
  <1>18. Within(CallOps)
    BY <1>5, <1>6, <1>7, <1>8, RequestWithin DEF CallOps
  <1> QED BY <1>12, <1>14, <1>15, <1>16, <1>17, <1>18 DEF CallInv

\* A run that was answered, or failed, is recorded.
LEMMA RecordKeeps ==
    ASSUME CallInv, DatabaseInv, db' = db, NEW w \in Workers, RecordFailure(w) \/ Record(w)
    PROVE  CallInv' /\ DatabaseInv' /\ Within(CallOps)
  <1>1. PICK s, n : s = tx[w].on /\ n = tx[w].n
    OBVIOUS
  <1>2. tx[w].op \in {"failed", "answered"}
    BY DEF RecordFailure, Record
  <1>3. CallHeld(tx[w])
    BY DEF CallInv, CallWork
  <1>4. PICK f \in Fingerprints : tx[w].by = {f} /\ s \in Slots /\ Ran(s, f, n)
    BY <1>1, <1>2, <1>3 DEF CallHeld, CallOps
  <1>5. recorded' = recorded \cup {<<s, n>>} /\ UNCHANGED <<slot, runs, expiries>>
    BY <1>1 DEF RecordFailure, Record
  <1>6. \A t \in Slots : runs[t] \in Seq(Fingerprints) /\ Len(runs[t]) \in Nat
    BY DEF CallInv, CallTypes
  <1>7. PICK r : /\ Turns(w, r) /\ CallHeld(r)' /\ \A t \in Slots : ~Claims(r, t)
                 /\ DatabaseInv' /\ Within(CallOps)
    <2>1. CASE RecordFailure(w)
      <3>1. Turns(w, NoRequest)
        BY <2>1, EndTurns DEF RecordFailure, DatabaseInv
      <3>2. CallHeld(NoRequest)' /\ \A t \in Slots : ~Claims(NoRequest, t)
        BY NoRequestFields DEF CallHeld, CallOps, Claims
      <3> QED BY <1>2, <3>1, <3>2, EndKeepsDatabase, EndWithin DEF CallOps
    <2>2. CASE Record(w)
      <3>1. PICK r : r = Request("recorded", s, tx[w].by, tx[w].seen, n, FALSE)
        OBVIOUS
      <3>2. Turns(w, r)
        BY <1>1, <2>2, <3>1, CloseTurns DEF Record, DatabaseInv
      <3>3. r.op = "recorded" /\ r.on = s /\ r.by = {f} /\ r.n = n
        BY <1>4, <3>1 DEF Request
      <3>4. RanAndRecorded(s, f, n)'
        BY <1>4, <1>5 DEF RanAndRecorded, Ran
      <3>5. CallHeld(r)' /\ \A t \in Slots : ~Claims(r, t)
        BY <1>4, <3>3, <3>4 DEF CallHeld, Claims
      <3>6. DatabaseInv'
        BY <3>1, <3>2, TurnKeepsDatabase
      <3>7. Within(CallOps)
        BY <1>2, <3>1, <3>2, RequestWithin DEF CallOps
      <3> QED BY <3>2, <3>5, <3>6, <3>7
    <2> QED BY <2>1, <2>2
  <1>8. CallTypes' /\ SlotsTrue'
    <2>1. n \in 1..MaxRuns
      BY <1>4, <1>6, CallsOK DEF Ran, CallInv, CallTypes
    <2> QED BY <1>4, <1>5, <2>1 DEF CallInv, CallTypes, SlotsTrue, RanAndRecorded, Ran
  <1>9. CallWork'
    BY <1>5, <1>6, <1>7, CallWorkTurn
  <1>10. ClaimsCounted'
    <2> SUFFICES ASSUME NEW t \in Slots
                 PROVE  (Len(runs[t]) + Cardinality(Claimers(t))
                            <= expiries[t] + (IF slot[t].phase = "free" THEN 0 ELSE 1))'
      BY DEF ClaimsCounted
    <2>1. Cardinality(Claimers(t)') = Cardinality(Claimers(t))
      BY <1>2, <1>7, ClaimersTurn DEF Claims
    <2> QED BY <1>5, <2>1 DEF CallInv, ClaimsCounted
  <1> QED BY <1>7, <1>8, <1>9, <1>10 DEF CallInv

\* The slot is overwritten with a run that was recorded; a slot that had expired is taken.
LEMMA CompleteKeeps ==
    ASSUME CallInv, DatabaseInv, db' = db, NEW w \in Workers, Complete(w)
    PROVE  CallInv' /\ DatabaseInv' /\ Within(CallOps)
  <1>1. PICK s, n : s = tx[w].on /\ n = tx[w].n
    OBVIOUS
  <1>2. CallHeld(tx[w])
    BY DEF CallInv, CallWork
  <1>3. PICK f \in Fingerprints : tx[w].by = {f} /\ s \in Slots /\ RanAndRecorded(s, f, n)
    BY <1>1, <1>2 DEF CallHeld, CallOps, Complete
  <1>4. /\ slot' = [slot EXCEPT ![s] = Done(f, n)] /\ UNCHANGED <<runs, recorded, expiries>>
        /\ Turns(w, NoRequest)
    BY <1>1, <1>3, EndTurns DEF Complete, Fingerprint, DatabaseInv
  <1>5. \A t \in Slots : runs[t] \in Seq(Fingerprints) /\ Len(runs[t]) \in Nat
    BY DEF CallInv, CallTypes
  <1>6. n \in 0..MaxRuns
    BY <1>3, <1>5, CallsOK DEF RanAndRecorded, Ran, CallInv, CallTypes
  <1>7. CallTypes' /\ SlotsTrue'
    BY <1>3, <1>4, <1>6 DEF CallInv, CallTypes, SlotsTrue, RanAndRecorded, Ran, Done
  <1>8. CallWork'
    <2>1. CallHeld(NoRequest)'
      BY NoRequestFields DEF CallHeld, CallOps
    <2> QED BY <1>4, <1>5, <2>1, CallWorkTurn
  <1>9. ClaimsCounted'
    <2> SUFFICES ASSUME NEW t \in Slots
                 PROVE  (Len(runs[t]) + Cardinality(Claimers(t))
                            <= expiries[t] + (IF slot[t].phase = "free" THEN 0 ELSE 1))'
      BY DEF ClaimsCounted
    <2>1. ~Claims(tx[w], t) /\ ~Claims(NoRequest, t)
      BY NoRequestFields DEF Complete, Claims
    <2>2. /\ Cardinality(Claimers(t)') = Cardinality(Claimers(t))
          /\ Cardinality(Claimers(t)) \in Nat
      BY <1>4, <2>1, ClaimersTurn
    <2>3. Len(runs[t]) + Cardinality(Claimers(t))
              <= expiries[t] + (IF slot[t].phase = "free" THEN 0 ELSE 1)
      BY DEF CallInv, ClaimsCounted
    <2>4. slot'[t].phase = "free" => slot[t].phase = "free"
      BY <1>4 DEF Done, CallInv, CallTypes
    <2>5. expiries[t] \in Nat
      BY CallsOK DEF CallInv, CallTypes
    <2> QED BY <1>4, <1>5, <2>2, <2>3, <2>4, <2>5
  <1>10. DatabaseInv' /\ Within(CallOps)
    BY <1>4, EndKeepsDatabase, EndWithin DEF Complete, CallOps
  <1> QED BY <1>7, <1>8, <1>9, <1>10 DEF CallInv

LEMMA ExpireKeeps ==
    ASSUME CallInv, DatabaseInv, db' = db, NEW s \in Slots, Expire(s)
    PROVE  CallInv' /\ DatabaseInv' /\ Within(CallOps)
  <1>1. /\ slot[s].phase # "free" /\ slot' = [slot EXCEPT ![s] = Free]
        /\ expiries[s] < MaxExpiries /\ expiries' = [expiries EXCEPT ![s] = @ + 1]
        /\ UNCHANGED <<tx, runs, recorded>>
    BY DEF Expire
  <1>2. \A t \in Slots : Len(runs[t]) \in Nat /\ expiries[t] \in Nat
    BY CallsOK DEF CallInv, CallTypes
  <1>3. CallTypes'
    BY SMTT(60), <1>1, <1>2, CallsOK DEF CallInv, CallTypes, Free
  <1>4. SlotsTrue' /\ CallWork'
    BY <1>1 DEF CallInv, CallTypes, SlotsTrue, CallWork, CallHeld, RanAndRecorded, Ran, Free
  <1>5. ClaimsCounted'
    <2> SUFFICES ASSUME NEW t \in Slots
                 PROVE  (Len(runs[t]) + Cardinality(Claimers(t))
                            <= expiries[t] + (IF slot[t].phase = "free" THEN 0 ELSE 1))'
      BY DEF ClaimsCounted
    <2>1. Cardinality(Claimers(t)) \in Nat
      <3>1. IsFiniteSet(Claimers(t))
        BY FS_Subset, CallsOK DEF Claimers
      <3> QED BY <3>1, FS_CardinalityType
    <2>2. Len(runs[t]) + Cardinality(Claimers(t))
              <= expiries[t] + (IF slot[t].phase = "free" THEN 0 ELSE 1)
      BY DEF CallInv, ClaimsCounted
    <2>3. Cardinality(Claimers(t)') = Cardinality(Claimers(t))
      BY <1>1 DEF Claimers, Claims
    <2>4. CASE t = s
      <3>1. expiries'[t] = expiries[t] + 1 /\ slot'[t].phase = "free"
        BY <1>1, <2>4 DEF CallInv, CallTypes, Free
      <3> QED BY <1>1, <1>2, <2>1, <2>2, <2>3, <2>4, <3>1
    <2>5. CASE t # s
      <3>1. expiries'[t] = expiries[t] /\ slot'[t] = slot[t]
        BY <1>1, <2>5 DEF CallInv, CallTypes
      <3> QED BY <1>1, <1>2, <2>1, <2>2, <2>3, <3>1
    <2> QED BY <2>4, <2>5
  <1>6. DatabaseInv' /\ Within(CallOps)
    BY <1>1, StutterKeepsDatabase DEF Within
  <1> QED BY <1>3, <1>4, <1>5, <1>6 DEF CallInv

\* Every step of the part keeps its invariant, and stays within its operations.
LEMMA CallPartKeeps ==
    ASSUME CallInv, DatabaseInv, db' = db, CallPart
    PROVE  CallInv' /\ DatabaseInv' /\ Within(CallOps)
  <1>1. CASE \E s \in Slots : Expire(s)
    BY <1>1, ExpireKeeps
  <1>2. ASSUME NEW w \in Workers, CallStep(w)
        PROVE  CallInv' /\ DatabaseInv' /\ Within(CallOps)
    <2>1. CASE \E s \in Slots, f \in Fingerprints : Claim(w, s, f)
      BY <2>1, ClaimKeeps
    <2>2. CASE Classify(w) \/ Reply(w) \/ AbandonCall(w)
      BY <2>2, CallReplyKeeps
    <2>3. CASE BeginCall(w)
      BY <2>3, BeginCallKeeps
    <2>4. CASE Send(w)
      BY <2>4, SendKeeps
    <2>5. CASE RecordFailure(w) \/ Record(w)
      BY <2>5, RecordKeeps
    <2>6. CASE Complete(w)
      BY <2>6, CompleteKeeps
    <2> QED BY <1>2, <2>1, <2>2, <2>3, <2>4, <2>5, <2>6 DEF CallStep
  <1> QED BY <1>1, <1>2 DEF CallPart

\* A step of another part leaves the calls alone.
LEMMA CallElsewhere ==
    ASSUME CallInv, UNCHANGED idempotentCalls, NEW ops, Within(ops), ops \cap CallOps = {}
    PROVE  CallInv'
  <1>1. \A v \in Workers : tx[v].op \in CallOps \/ tx'[v].op \in CallOps => tx'[v] = tx[v]
    BY WithinElsewhere DEF CallOps
  <1>2. CallTypes' /\ SlotsTrue'
    BY DEF CallInv, CallTypes, SlotsTrue, RanAndRecorded, Ran, idempotentCalls
  <1>3. CallWork'
    <2> SUFFICES ASSUME NEW v \in Workers, tx'[v].op \in CallOps
                 PROVE  CallHeld(tx[v])'
      BY DEF CallWork, CallHeld
    <2>1. CallHeld(tx[v]) /\ tx'[v] = tx[v]
      BY <1>1 DEF CallInv, CallWork
    <2> QED BY <2>1 DEF CallHeld, RanAndRecorded, Ran, idempotentCalls
  <1>4. \A s : Claimers(s)' = Claimers(s)
    BY <1>1 DEF Claimers, Claims, CallOps
  <1>5. ClaimsCounted'
    BY <1>4 DEF CallInv, ClaimsCounted, idempotentCalls
  <1> QED BY <1>2, <1>3, <1>5 DEF CallInv

LEMMA CallStarts ==
    ASSUME DatabaseInit, IdempotentCallsInit
    PROVE  CallInv
  <1>1. \A w \in Workers : tx[w] = NoRequest
    BY DEF DatabaseInit
  <1>2. CallTypes /\ SlotsTrue
    BY CallsOK DEF IdempotentCallsInit, CallTypes, SlotsTrue, Free
  <1>3. CallWork
    BY <1>1, NoRequestFields DEF CallWork, CallHeld, CallOps
  <1>4. \A s : Claimers(s) = {}
    BY <1>1, NoRequestFields DEF Claimers, Claims
  <1>5. ClaimsCounted
    <2> SUFFICES ASSUME NEW s \in Slots
                 PROVE  Len(runs[s]) + Cardinality(Claimers(s))
                            <= expiries[s] + (IF slot[s].phase = "free" THEN 0 ELSE 1)
      BY DEF ClaimsCounted
    <2>1. runs[s] = <<>> /\ expiries[s] = 0 /\ slot[s].phase = "free"
      BY DEF IdempotentCallsInit, Free
    <2>2. Cardinality(Claimers(s)) = 0
      BY <1>4, FS_EmptySet
    <2> QED BY <2>1, <2>2
  <1> QED BY <1>2, <1>3, <1>5 DEF CallInv

LEMMA CallGives ==
    ASSUME CallInv
    PROVE  IdempotentCallsTypeOK /\ CallsIdempotent
  <1>1. IdempotentCallsTypeOK
    BY DEF CallInv, CallTypes, IdempotentCallsTypeOK
  <1>2. OnePerClaim
    <2> SUFFICES ASSUME NEW s \in Slots
                 PROVE  Len(runs[s]) <= 1 + expiries[s]
      BY DEF OnePerClaim
    <2>1. Cardinality(Claimers(s)) \in Nat
      <3>1. IsFiniteSet(Claimers(s))
        BY FS_Subset, CallsOK DEF Claimers
      <3> QED BY <3>1, FS_CardinalityType
    <2>2. Len(runs[s]) \in Nat /\ expiries[s] \in Nat
      BY CallsOK DEF CallInv, CallTypes
    <2> QED BY <2>1, <2>2 DEF CallInv, ClaimsCounted
  <1>3. ReplayFaithful
    <2> SUFFICES ASSUME NEW w \in Workers, tx[w].op = "replayed"
                 PROVE  /\ runs[tx[w].on][tx[w].n] = Fingerprint(w)
                        /\ <<tx[w].on, tx[w].n>> \in recorded
      BY DEF ReplayFaithful
    <2>1. CallHeld(tx[w])
      BY DEF CallInv, CallWork
    <2>2. PICK f \in Fingerprints : tx[w].by = {f} /\ RanAndRecorded(tx[w].on, f, tx[w].n)
      BY <2>1 DEF CallHeld, CallOps
    <2> QED BY <2>2 DEF RanAndRecorded, Ran, Fingerprint
  <1> QED BY <1>1, <1>2, <1>3 DEF CallsIdempotent

\* The promise of a key, of which every step of the part is a step or a stutter.  The workers'
\* answers turn with the workers.
LEMMA RepliesTurn ==
    ASSUME NEW w \in Workers, NEW r, Turns(w, r)
    PROVE  RepliesDue' = [RepliesDue EXCEPT ![w] = ReplyTo(r)]
  <1>1. \A v \in Workers : tx'[v] = IF v = w THEN r ELSE tx[v]
    BY DEF Turns
  <1>2. RepliesDue' = [v \in Workers |-> IF v = w THEN ReplyTo(r) ELSE ReplyTo(tx[v])]
    BY <1>1 DEF RepliesDue, ReplyTo
  <1> QED BY <1>2 DEF RepliesDue

LEMMA RepliesStay ==
    ASSUME NEW w \in Workers, NEW r, Turns(w, r), tx[w].op # "replayed", r.op # "replayed"
    PROVE  RepliesDue' = RepliesDue
  <1>1. ReplyTo(r) = ReplyTo(tx[w])
    BY DEF ReplyTo
  <1>2. \A v \in Workers : tx'[v] = IF v = w THEN r ELSE tx[v]
    BY DEF Turns
  <1>3. \A v \in Workers : ReplyTo(tx[v])' = ReplyTo(tx[v])
    BY <1>1, <1>2 DEF ReplyTo
  <1> QED BY <1>3 DEF RepliesDue

\* Claims, refusals and begun transactions are no part of the promise.
LEMMA ClaimRefines ==
    ASSUME CallInv, DatabaseInv, NEW w \in Workers, NEW s \in Slots, NEW f \in Fingerprints,
           Claim(w, s, f)
    PROVE  UNCHANGED Keys!promised
  <1>1. PICK op \in {"claimed", "refused"} : Look(w, op, s, {f}, 0)
    BY DEF Claim
  <1>2. PICK r : r = Request(op, s, {f}, {}, 0, FALSE)
    OBVIOUS
  <1>3. tx[w].op = "none" /\ Turns(w, r) /\ r.op = op
    BY <1>1, <1>2, LookTurns DEF DatabaseInv, Request
  <1>4. RepliesDue' = RepliesDue
    BY <1>1, <1>3, RepliesStay
  <1>5. UNCHANGED <<runs, recorded, expiries>>
    BY DEF Claim
  <1>6. \A t \in Slots : \/ slot'[t] = slot[t]
                         \/ slot[t].phase # "done" /\ slot'[t].phase # "done"
    BY DEF Claim, Pending, CallInv, CallTypes
  <1>7. AnswerKept' = AnswerKept
    BY <1>6 DEF AnswerKept
  <1> QED BY <1>4, <1>5, <1>7 DEF Keys!promised, CallsLeft

LEMMA BeginCallRefines ==
    ASSUME DatabaseInv, NEW w \in Workers, BeginCall(w)
    PROVE  UNCHANGED Keys!promised
  <1>1. PICK r : r = Request("calling", tx[w].on, tx[w].by, {}, tx[w].n, TRUE)
    OBVIOUS
  <1>2. tx[w].op = "claimed" /\ Turns(w, r) /\ UNCHANGED idempotentCalls
    BY <1>1, OpenTurns DEF BeginCall, DatabaseInv
  <1>3. RepliesDue' = RepliesDue
    BY <1>1, <1>2, RepliesStay DEF Request
  <1> QED BY <1>2, <1>3 DEF Keys!promised, CallsLeft, AnswerKept, idempotentCalls

\* A claimer that sends has a call left: the entry he claimed, or one that expired, is not
\* used up by another.
LEMMA SendRefines ==
    ASSUME CallInv, DatabaseInv, NEW w \in Workers, Send(w)
    PROVE  \E s \in Slots, f \in Fingerprints : Keys!Execute(s, f)
  <1>1. PICK s : s = tx[w].on
    OBVIOUS
  <1>2. CallHeld(tx[w]) /\ tx[w].op = "calling"
    BY DEF CallInv, CallWork, Send
  <1>3. PICK f \in Fingerprints : tx[w].by = {f} /\ s \in Slots
    BY <1>1, <1>2 DEF CallHeld, CallOps
  <1>4. PICK n : n = Len(runs[s]) + 1
    OBVIOUS
  <1>5. PICK outcome \in {"answered", "failed"} :
            tx' = [tx EXCEPT ![w].op = outcome, ![w].n = n]
    BY <1>1, <1>4 DEF Send
  <1>6. /\ runs' = [runs EXCEPT ![s] = Append(@, f)]
        /\ UNCHANGED <<slot, recorded, expiries>>
    BY <1>1, <1>3 DEF Send, Fingerprint
  <1>7. PICK r : r = Request(outcome, s, {f}, tx[w].seen, n, tx[w].open)
    OBVIOUS
  <1>8. Turns(w, r)
    BY <1>1, <1>3, <1>5, <1>7, OpNumberTurns DEF DatabaseInv
  <1>9. RepliesDue' = RepliesDue
    BY <1>2, <1>7, <1>8, RepliesStay, RequestFields
  <1>10. /\ \A t \in Slots : Len(runs[t]) \in Nat /\ expiries[t] \in Nat
         /\ runs \in [Slots -> Seq(Fingerprints)]
    BY CallsOK DEF CallInv, CallTypes
  <1>11. CallsLeft[s] > 0
    <2>1. Cardinality(Claimers(s)) \in Nat /\ Cardinality(Claimers(s)) # 0
      <3>1. IsFiniteSet(Claimers(s)) /\ Claimers(s) # {}
        BY <1>1, <1>2, FS_Subset, CallsOK DEF Claimers, Claims
      <3> QED BY <3>1, FS_CardinalityType, FS_EmptySet
    <2>2. Len(runs[s]) + Cardinality(Claimers(s)) <= expiries[s] + 1
      <3>1. Len(runs[s]) + Cardinality(Claimers(s))
                <= expiries[s] + (IF slot[s].phase = "free" THEN 0 ELSE 1)
        BY <1>3 DEF CallInv, ClaimsCounted
      <3> QED BY <1>3, <1>10, <2>1, <3>1
    <2>3. CallsLeft[s] = 1 + expiries[s] - Len(runs[s])
      BY <1>3 DEF CallsLeft
    <2> QED BY <1>3, <1>10, <2>1, <2>2, <2>3
  <1>12. CallsLeft' = [CallsLeft EXCEPT ![s] = @ - 1]
    <2>1. \A t \in Slots : Len(runs'[t]) = IF t = s THEN Len(runs[t]) + 1 ELSE Len(runs[t])
      BY <1>3, <1>6, <1>10
    <2>2. \A t \in Slots : 1 + expiries[t] - Len(runs'[t])
              = IF t = s THEN (1 + expiries[t] - Len(runs[t])) - 1
                         ELSE 1 + expiries[t] - Len(runs[t])
      BY <1>10, <2>1
    <2> QED BY <1>6, <2>2 DEF CallsLeft
  <1>13. AnswerKept' = AnswerKept
    BY <1>6 DEF AnswerKept
  <1> QED BY <1>3, <1>6, <1>9, <1>11, <1>12, <1>13 DEF Keys!Execute

\* A record of a call, and what follows it, is of a call that was made.
LEMMA RecordRefines ==
    ASSUME CallInv, DatabaseInv, NEW w \in Workers, RecordFailure(w) \/ Record(w)
    PROVE  \E s \in Slots : \E n \in DOMAIN runs[s] : Keys!Keep(s, n)
  <1>1. PICK s, n : s = tx[w].on /\ n = tx[w].n
    OBVIOUS
  <1>2. CallHeld(tx[w]) /\ tx[w].op \in {"failed", "answered"}
    BY DEF CallInv, CallWork, RecordFailure, Record
  <1>3. s \in Slots /\ n \in 1..Len(runs[s])
    BY <1>1, <1>2 DEF CallHeld, CallOps, Ran
  <1>4. n \in DOMAIN runs[s]
    BY <1>3 DEF CallInv, CallTypes
  <1>5. recorded' = recorded \cup {<<s, n>>} /\ UNCHANGED <<slot, runs, expiries>>
    BY <1>1 DEF RecordFailure, Record
  <1>6. PICK r : Turns(w, r) /\ r.op # "replayed"
    <2>1. CASE RecordFailure(w)
      BY <2>1, EndTurns, NoRequestFields DEF RecordFailure, DatabaseInv
    <2>2. CASE Record(w)
      <3>1. PICK r : r = Request("recorded", s, tx[w].by, tx[w].seen, n, FALSE)
        OBVIOUS
      <3>2. Turns(w, r) /\ r.op = "recorded"
        BY <1>1, <2>2, <3>1, CloseTurns DEF Record, DatabaseInv, Request
      <3> QED BY <3>2
    <2> QED BY <2>1, <2>2
  <1>7. RepliesDue' = RepliesDue
    BY <1>2, <1>6, RepliesStay
  <1> QED BY <1>3, <1>4, <1>5, <1>7 DEF Keys!Keep, CallsLeft, AnswerKept

LEMMA CompleteRefines ==
    ASSUME CallInv, DatabaseInv, NEW w \in Workers, Complete(w)
    PROVE  \E s \in Slots : \E n \in DOMAIN runs[s] : Keys!Remember(s, n)
  <1>1. PICK s, n : s = tx[w].on /\ n = tx[w].n
    OBVIOUS
  <1>2. CallHeld(tx[w]) /\ tx[w].op = "recorded"
    BY DEF CallInv, CallWork, Complete
  <1>3. PICK f \in Fingerprints : tx[w].by = {f} /\ s \in Slots /\ RanAndRecorded(s, f, n)
    BY <1>1, <1>2 DEF CallHeld, CallOps
  <1>4. n \in DOMAIN runs[s] /\ <<s, n>> \in recorded
    BY <1>3 DEF RanAndRecorded, Ran, CallInv, CallTypes
  <1>5. slot' = [slot EXCEPT ![s] = Done(f, n)] /\ UNCHANGED <<runs, recorded, expiries>>
    BY <1>1, <1>3 DEF Complete, Fingerprint
  <1>6. Turns(w, NoRequest)
    BY EndTurns DEF Complete, DatabaseInv
  <1>7. RepliesDue' = RepliesDue
    BY <1>2, <1>6, RepliesStay, NoRequestFields
  <1>8. AnswerKept' = [AnswerKept EXCEPT ![s] = n]
    <2>1. \A t \in Slots : slot'[t] = IF t = s THEN Done(f, n) ELSE slot[t]
      BY <1>3, <1>5 DEF CallInv, CallTypes
    <2>2. \A t \in Slots : (IF slot'[t].phase = "done" THEN slot'[t].run ELSE 0)
              = IF t = s THEN n ELSE IF slot[t].phase = "done" THEN slot[t].run ELSE 0
      BY <2>1 DEF Done
    <2> QED BY <2>2 DEF AnswerKept
  <1> QED BY <1>3, <1>4, <1>5, <1>7, <1>8 DEF Keys!Remember, CallsLeft

\* The answer that is replayed is the one the key remembers, to the request it was made for.
LEMMA ClassifyRefines ==
    ASSUME CallInv, DatabaseInv, NEW w \in Workers, Classify(w)
    PROVE  \/ UNCHANGED Keys!promised
           \/ \E s \in Slots, f \in Fingerprints : Keys!Replay(w, s, f)
  <1>1. UNCHANGED idempotentCalls /\ tx[w].op = "refused"
    BY DEF Classify
  <1>2. CallsLeft' = CallsLeft /\ AnswerKept' = AnswerKept /\ UNCHANGED <<runs, recorded>>
    BY <1>1 DEF CallsLeft, AnswerKept, idempotentCalls
  <1>3. CASE End(w)
    <2>1. RepliesDue' = RepliesDue
      BY <1>1, <1>3, EndTurns, RepliesStay, NoRequestFields DEF DatabaseInv
    <2> QED BY <1>2, <2>1 DEF Keys!promised
  <1>4. CASE Replays(w) /\ tx' = [tx EXCEPT ![w].op = "replayed", ![w].n = slot[tx[w].on].run]
    <2>1. PICK s, n : s = tx[w].on /\ n = slot[s].run
      OBVIOUS
    <2>2. CallHeld(tx[w])
      BY DEF CallInv, CallWork
    <2>3. PICK f \in Fingerprints : tx[w].by = {f} /\ s \in Slots
      BY <1>1, <2>1, <2>2 DEF CallHeld, CallOps
    <2>4. slot[s].phase = "done" /\ RanAndRecorded(s, f, n)
      BY <1>4, <2>1, <2>3 DEF Replays, Fingerprint, CallInv, SlotsTrue
    <2>5. AnswerKept[s] = n /\ n # 0 /\ runs[s][n] = f
      BY <2>1, <2>3, <2>4 DEF AnswerKept, RanAndRecorded, Ran
    <2>6. PICK r : r = Request("replayed", s, {f}, tx[w].seen, n, tx[w].open)
      OBVIOUS
    <2>7. Turns(w, r)
      BY <1>4, <2>1, <2>3, <2>6, OpNumberTurns DEF DatabaseInv
    <2>8. ReplyTo(r) = [key |-> s, asks |-> f, call |-> n]
      BY <2>6, RequestFields DEF ReplyTo
    <2>9. RepliesDue' = [RepliesDue EXCEPT ![w] = [key |-> s, asks |-> f, call |-> AnswerKept[s]]]
      BY <2>5, <2>7, <2>8, RepliesTurn
    <2>10. Keys!Replay(w, s, f)
      BY <1>2, <2>5, <2>9 DEF Keys!Replay
    <2> QED BY <2>3, <2>10
  <1> QED BY <1>3, <1>4 DEF Classify

LEMMA ReplyRefines ==
    ASSUME CallInv, DatabaseInv, NEW w \in Workers, Reply(w) \/ AbandonCall(w)
    PROVE  Keys!Replied(w)
  <1>1. UNCHANGED idempotentCalls /\ Turns(w, NoRequest)
    BY EndTurns DEF Reply, AbandonCall, DatabaseInv
  <1>2. ReplyTo(NoRequest) = [key |-> 0, asks |-> 0, call |-> 0]
    BY NoRequestFields DEF ReplyTo
  <1>3. RepliesDue' = [RepliesDue EXCEPT ![w] = [key |-> 0, asks |-> 0, call |-> 0]]
    BY <1>1, <1>2, RepliesTurn
  <1> QED BY <1>1, <1>3 DEF Keys!Replied, Keys!NoReply, CallsLeft, AnswerKept, idempotentCalls

LEMMA ExpireRefines ==
    ASSUME CallInv, NEW s \in Slots, Expire(s)
    PROVE  Keys!Lose(s)
  <1>1. /\ slot' = [slot EXCEPT ![s] = Free] /\ expiries' = [expiries EXCEPT ![s] = @ + 1]
        /\ UNCHANGED <<tx, runs, recorded>>
    BY DEF Expire
  <1>2. \A t \in Slots : Len(runs[t]) \in Nat /\ expiries[t] \in Nat
    BY CallsOK DEF CallInv, CallTypes
  <1>3. CallsLeft' = [CallsLeft EXCEPT ![s] = @ + 1]
    <2>1. \A t \in Slots : expiries'[t] = IF t = s THEN expiries[t] + 1 ELSE expiries[t]
      BY <1>1 DEF CallInv, CallTypes
    <2>2. \A t \in Slots : 1 + expiries'[t] - Len(runs[t])
              = IF t = s THEN (1 + expiries[t] - Len(runs[t])) + 1
                         ELSE 1 + expiries[t] - Len(runs[t])
      BY <1>2, <2>1
    <2> QED BY <1>1, <2>2 DEF CallsLeft
  <1>4. AnswerKept' = [AnswerKept EXCEPT ![s] = 0]
    <2>1. \A t \in Slots : slot'[t] = IF t = s THEN Free ELSE slot[t]
      BY <1>1 DEF CallInv, CallTypes
    <2>2. \A t \in Slots : (IF slot'[t].phase = "done" THEN slot'[t].run ELSE 0)
              = IF t = s THEN 0 ELSE IF slot[t].phase = "done" THEN slot[t].run ELSE 0
      BY <2>1 DEF Free
    <2> QED BY <2>2 DEF AnswerKept
  <1>5. RepliesDue' = RepliesDue
    BY <1>1 DEF RepliesDue, ReplyTo
  <1> QED BY <1>1, <1>3, <1>4, <1>5 DEF Keys!Lose

LEMMA CallPartRefines ==
    ASSUME CallInv, DatabaseInv, CallPart
    PROVE  [Keys!Next]_Keys!promised
  <1>1. CASE \E s \in Slots : Expire(s)
    BY <1>1, ExpireRefines DEF Keys!Next
  <1>2. ASSUME NEW w \in Workers, CallStep(w)
        PROVE  [Keys!Next]_Keys!promised
    <2>1. CASE \E s \in Slots, f \in Fingerprints : Claim(w, s, f)
      BY <2>1, ClaimRefines
    <2>2. CASE BeginCall(w)
      BY <2>2, BeginCallRefines
    <2>3. CASE Send(w)
      BY <2>3, SendRefines DEF Keys!Next
    <2>4. CASE RecordFailure(w) \/ Record(w)
      BY <2>4, RecordRefines DEF Keys!Next
    <2>5. CASE Complete(w)
      BY <2>5, CompleteRefines DEF Keys!Next
    <2>6. CASE Classify(w)
      BY <2>6, ClassifyRefines DEF Keys!Next
    <2>7. CASE Reply(w) \/ AbandonCall(w)
      BY <2>7, ReplyRefines DEF Keys!Next
    <2> QED BY <1>2, <2>1, <2>2, <2>3, <2>4, <2>5, <2>6, <2>7 DEF CallStep
  <1> QED BY <1>1, <1>2 DEF CallPart

\* A step of another part is a stutter of the promise.
LEMMA ElsewhereRefines ==
    ASSUME UNCHANGED idempotentCalls, NEW ops, Within(ops), ops \cap CallOps = {}
    PROVE  UNCHANGED Keys!promised
  <1>1. \A v \in Workers : tx[v].op \in CallOps \/ tx'[v].op \in CallOps => tx'[v] = tx[v]
    BY WithinElsewhere DEF CallOps
  <1>2. \A v \in Workers : ReplyTo(tx[v])' = ReplyTo(tx[v])
    BY <1>1 DEF ReplyTo, CallOps
  <1>3. RepliesDue' = RepliesDue
    BY <1>2 DEF RepliesDue
  <1> QED BY <1>3 DEF Keys!promised, CallsLeft, AnswerKept, idempotentCalls

LEMMA KeysStart ==
    ASSUME DatabaseInit, IdempotentCallsInit
    PROVE  Keys!Init
  <1>1. CallsLeft = [s \in Slots |-> 1]
    <2>1. \A s \in Slots : 1 + expiries[s] - Len(runs[s]) = 1
      BY DEF IdempotentCallsInit
    <2> QED BY <2>1 DEF CallsLeft
  <1>2. AnswerKept = [s \in Slots |-> 0]
    BY DEF IdempotentCallsInit, AnswerKept, Free
  <1>3. RepliesDue = [w \in Workers |-> [key |-> 0, asks |-> 0, call |-> 0]]
    BY NoRequestFields DEF DatabaseInit, RepliesDue, ReplyTo
  <1> QED BY <1>1, <1>2, <1>3 DEF Keys!Init, Keys!NoReply, IdempotentCallsInit

-----------------------------------------------------------------------------
(* Executions.                                                             *)

StreamOps == {"streaming", "streamed"}
OutcomeOps == {"responded", "broken", "accounted", "raised", "streamed"}

\* Nothing is stored of an execution yet, and nothing was said of it.
Untold(e) == record[e] = "none" /\ reported[e] = {} /\ result[e] = "none"

\* What is stored of an execution, and was told.
ExecutionTrue(e) ==
    /\ mode[e] = "none" \/ (mode[e] = "async" /\ job[e].attempts = 0) => Untold(e)
    /\ mode[e] = "none" => told[e] = "none"
    /\ mode[e] # "async" => job[e] = NoJob /\ result[e] = "none"
    /\ Accounted(e)

ExecutionsTrue == \A e \in Executions : ExecutionTrue(e)

\* What a worker that executes holds: the number of the delivery, none outside of jobs.
\* Until it accounts for the first delivery, nobody does; what it accounted for was reported.
ExecutionHeld(q) ==
    q.op \in ExecutionOps =>
        /\ q.on \in Executions /\ mode[q.on] # "none"
        /\ q.n \in 0..job[q.on].attempts
        /\ q.n = 0 <=> mode[q.on] # "async"
        /\ q.op \in StreamOps <=> mode[q.on] = "stream"
        /\ q.op = "raised" => mode[q.on] = "async"
        /\ q.op \notin {"accounted", "raised"} /\ job[q.on].attempts <= 1 => Untold(q.on)
        /\ q.op \in OutcomeOps =>
              \E o \in Outcomes : q.seen = {o} /\ (q.op = "accounted" => o \in reported[q.on])
        /\ q.op = "broken" => q.seen = {"failed"}
        /\ q.op = "streaming" => told[q.on] = "none"
        /\ q.op = "streamed" => told[q.on] = "none" \/ q.seen = {told[q.on]}

ExecutionWork == \A w \in Workers : ExecutionHeld(tx[w])

\* A delivery of an execution has one worker, and so has an execution that is not a job's.
SoleWorker ==
    \A v, w \in Workers :
        /\ tx[v].op \in ExecutionOps /\ tx[w].op \in ExecutionOps
        /\ tx[v].on = tx[w].on /\ tx[v].n = tx[w].n
        => v = w

ExecutionInv == ExecutionsTypeOK /\ ExecutionsTrue /\ ExecutionWork /\ SoleWorker

\* A step touches one execution,
OnlyOf(e) ==
    \A d \in Executions \ {e} :
        /\ mode'[d] = mode[d] /\ record'[d] = record[d] /\ reported'[d] = reported[d]
        /\ told'[d] = told[d] /\ job'[d] = job[d] /\ result'[d] = result[d]

\* and takes back nothing of it.
Onwards(e) ==
    /\ mode'[e] = mode[e] \/ mode[e] = "none"
    /\ record'[e] = record[e] \/ record[e] = "none"
    /\ reported[e] \subseteq reported'[e] /\ job[e].attempts <= job'[e].attempts

\* Whose it is: nobody's yet, the worker's own, or a job's that is claimed.
Takes(w, r, e) ==
    \/ mode[e] = "none"
    \/ tx[w].op \in ExecutionOps /\ tx[w].on = e /\ (r.op \in ExecutionOps => r.n = tx[w].n)
    \/ mode[e] = "async" /\ job[e].attempts < r.n /\ job'[e].attempts = r.n

\* The attempts of a job are a number.
LEMMA AttemptsCount ==
    ASSUME ExecutionsTypeOK, NEW e \in Executions
    PROVE  job[e].attempts \in Nat
  BY ExecutionsOK DEF ExecutionsTypeOK

\* What is true of one execution, and of the others, which do not change, is true of all.
LEMMA TrueOfAll ==
    ASSUME ExecutionsTrue, NEW e \in Executions, OnlyOf(e), ExecutionTrue(e)'
    PROVE  ExecutionsTrue'
  <1> SUFFICES ASSUME NEW d \in Executions, d # e
               PROVE  ExecutionTrue(d)'
    BY DEF ExecutionsTrue
  <1>1. ExecutionTrue(d)
    BY DEF ExecutionsTrue
  <1>2. /\ mode'[d] = mode[d] /\ record'[d] = record[d] /\ reported'[d] = reported[d]
        /\ told'[d] = told[d] /\ job'[d] = job[d] /\ result'[d] = result[d]
    BY DEF OnlyOf
  <1> QED BY <1>1, <1>2 DEF ExecutionTrue, Accounted, Untold

\* A worker turns, and changes one execution.
LEMMA ExecutionTurn ==
    ASSUME ExecutionInv, ExecutionsTypeOK', NEW w \in Workers, NEW r, Turns(w, r),
           NEW e \in Executions, OnlyOf(e), Onwards(e), Takes(w, r, e),
           ExecutionTrue(e)', ExecutionHeld(r)', r.op \in ExecutionOps => r.on = e
    PROVE  ExecutionInv'
  <1>1. \A v \in Workers : tx'[v] = IF v = w THEN r ELSE tx[v]
    BY DEF Turns
  <1>2. \A v \in Workers : ExecutionHeld(tx[v])
    BY DEF ExecutionInv, ExecutionWork
  <1>3. job[e].attempts \in Nat /\ job'[e].attempts \in Nat
    BY AttemptsCount, ExecutionsOK DEF ExecutionInv, ExecutionsTypeOK
  <1>4. ASSUME NEW v \in Workers, v # w, tx[v].op \in ExecutionOps, tx[v].on = e
        PROVE  /\ mode[e] = "async" /\ mode'[e] = "async" /\ tx[v].n \in 1..job[e].attempts
               /\ job'[e].attempts >= 2 /\ (r.op \in ExecutionOps => r.n # tx[v].n)
    <2>1. /\ ExecutionHeld(tx[v]) /\ mode[e] # "none" /\ mode'[e] = mode[e]
          /\ tx[v].n \in 0..job[e].attempts /\ (tx[v].n = 0 <=> mode[e] # "async")
      BY <1>2, <1>4 DEF ExecutionHeld, Onwards
    <2>2. CASE tx[w].op \in ExecutionOps /\ tx[w].on = e /\ (r.op \in ExecutionOps => r.n = tx[w].n)
      <3>1. tx[w].n # tx[v].n
        BY <1>4, <2>2 DEF ExecutionInv, SoleWorker
      <3>2. tx[w].n \in 0..job[e].attempts /\ (tx[w].n = 0 <=> mode[e] # "async")
        BY <1>2, <2>2 DEF ExecutionHeld
      <3> QED BY <1>3, <2>1, <2>2, <3>1, <3>2 DEF Onwards
    <2>3. CASE mode[e] = "async" /\ job[e].attempts < r.n /\ job'[e].attempts = r.n
      BY <1>3, <2>1, <2>3
    <2> QED BY <2>1, <2>2, <2>3 DEF Takes
  <1>5. ASSUME NEW v \in Workers
        PROVE  ExecutionHeld(tx[v])'
    <2>1. CASE v = w
      <3>1. tx'[v] = r
        BY <1>1, <2>1
      <3> QED BY <3>1 DEF ExecutionHeld, Untold
    <2>2. CASE v # w /\ tx[v].op \in ExecutionOps /\ tx[v].on = e
      <3>1. tx'[v] = tx[v] /\ ExecutionHeld(tx[v])
        BY <1>1, <1>2, <2>2
      <3>2. /\ mode[e] = "async" /\ mode'[e] = "async" /\ tx[v].n \in 1..job[e].attempts
            /\ job'[e].attempts >= 2
        BY <1>4, <2>2
      <3>3. tx[v].n \in 0..job'[e].attempts /\ tx[v].n # 0 /\ ~(job'[e].attempts <= 1)
        BY <1>3, <3>2 DEF Onwards
      <3>4. tx[v].op \notin StreamOps
        BY <2>2, <3>1, <3>2 DEF ExecutionHeld
      <3>5. tx[v].op \in OutcomeOps =>
                \E o \in Outcomes : tx[v].seen = {o} /\ (tx[v].op = "accounted" => o \in reported'[e])
        BY <2>2, <3>1 DEF ExecutionHeld, Onwards
      <3>6. tx[v].op = "broken" => tx[v].seen = {"failed"}
        BY <2>2, <3>1 DEF ExecutionHeld
      <3> QED BY <2>2, <3>1, <3>2, <3>3, <3>4, <3>5, <3>6 DEF ExecutionHeld, StreamOps
    <2>3. CASE v # w /\ tx[v].op \in ExecutionOps /\ tx[v].on # e
      <3>1. tx'[v] = tx[v] /\ ExecutionHeld(tx[v])
        BY <1>1, <1>2, <2>3
      <3>2. PICK d \in Executions \ {e} : d = tx[v].on
        BY <2>3, <3>1 DEF ExecutionHeld
      <3>3. /\ mode'[d] = mode[d] /\ record'[d] = record[d] /\ reported'[d] = reported[d]
            /\ told'[d] = told[d] /\ job'[d] = job[d] /\ result'[d] = result[d]
        BY DEF OnlyOf
      <3> QED BY <3>1, <3>2, <3>3 DEF ExecutionHeld, Untold
    <2>4. CASE v # w /\ tx[v].op \notin ExecutionOps
      BY <1>1, <2>4 DEF ExecutionHeld
    <2> QED BY <2>1, <2>2, <2>3, <2>4
  <1>6. SoleWorker'
    <2> SUFFICES ASSUME NEW u \in Workers, NEW v \in Workers,
                        tx'[u].op \in ExecutionOps, tx'[v].op \in ExecutionOps,
                        tx'[u].on = tx'[v].on, tx'[u].n = tx'[v].n, u # v
                 PROVE  FALSE
      BY DEF SoleWorker
    <2>1. CASE u = w
      BY <1>1, <1>4, <2>1
    <2>2. CASE v = w
      BY <1>1, <1>4, <2>2
    <2>3. CASE u # w /\ v # w
      BY <1>1, <2>3 DEF ExecutionInv, SoleWorker
    <2> QED BY <2>1, <2>2, <2>3
  <1>7. ExecutionsTrue'
    BY TrueOfAll DEF ExecutionInv
  <1> QED BY <1>5, <1>6, <1>7 DEF ExecutionInv, ExecutionWork

\* A step that stores nothing: the worker stays with its execution, or is done with it.
LEMMA ExecutionGoesOn ==
    ASSUME ExecutionInv, UNCHANGED executions, NEW w \in Workers, NEW r, Turns(w, r),
           tx[w].op \in ExecutionOps, ExecutionHeld(r),
           r.op \in ExecutionOps => r.on = tx[w].on /\ r.n = tx[w].n
    PROVE  ExecutionInv'
  <1>1. ExecutionHeld(tx[w])
    BY DEF ExecutionInv, ExecutionWork
  <1>2. PICK e \in Executions : e = tx[w].on
    BY <1>1 DEF ExecutionHeld
  <1>3. ExecutionHeld(r)' /\ ExecutionsTypeOK'
    BY DEF ExecutionInv, ExecutionHeld, Untold, ExecutionsTypeOK, executions
  <1>4. ExecutionTrue(e)'
    <2>1. ExecutionTrue(e)
      BY DEF ExecutionInv, ExecutionsTrue
    <2> QED BY <2>1 DEF ExecutionTrue, Accounted, Untold, executions
  <1>5. OnlyOf(e) /\ Onwards(e) /\ Takes(w, r, e)
    <2>1. job[e].attempts \in Nat
      BY AttemptsCount DEF ExecutionInv
    <2> QED BY <1>2, <2>1 DEF OnlyOf, Onwards, Takes, executions
  <1> QED BY <1>2, <1>3, <1>4, <1>5, ExecutionTurn

LEMMA AcceptKeeps ==
    ASSUME ExecutionInv, DatabaseInv, db' = db, NEW w \in Workers, NEW e \in Executions,
           AcceptBuffered(w, e) \/ AcceptStream(w, e) \/ AcceptAsync(w, e)
    PROVE  ExecutionInv' /\ DatabaseInv' /\ Within(ExecutionOps)
  <1>1. PICK m \in {"buffered", "stream", "async"} : Accepted(e, m)
    BY DEF AcceptBuffered, AcceptStream, AcceptAsync
  <1>2. /\ mode[e] = "none" /\ mode' = [mode EXCEPT ![e] = m]
        /\ UNCHANGED <<record, reported, told, result>>
    BY <1>1 DEF Accepted
  <1>3. ExecutionTrue(e) /\ ExecutionsTypeOK
    BY DEF ExecutionInv, ExecutionsTrue
  <1>4. Untold(e) /\ told[e] = "none" /\ job[e] = NoJob
    BY <1>2, <1>3 DEF ExecutionTrue
  <1>5. mode'[e] = m /\ \A d \in Executions \ {e} : mode'[d] = mode[d]
    BY <1>2, <1>3 DEF ExecutionsTypeOK
  <1>6. PICK r : /\ Turns(w, r) /\ (r.op \in ExecutionOps => r.on = e /\ ExecutionHeld(r)')
                 /\ DatabaseInv' /\ Within(ExecutionOps)
                 /\ job' = job \/ (m = "async" /\ job' = [job EXCEPT ![e].state = "queued"])
    <2>1. CASE AcceptBuffered(w, e) \/ AcceptStream(w, e)
      <3>1. PICK op \in {"accepted", "streaming"} :
                /\ Look(w, op, e, {}, 0) /\ job' = job
                /\ mode'[e] = IF op = "accepted" THEN "buffered" ELSE "stream"
        <4>1. CASE AcceptBuffered(w, e)
          BY <1>3, <4>1 DEF AcceptBuffered, Accepted, ExecutionsTypeOK
        <4>2. CASE AcceptStream(w, e)
          BY <1>3, <4>2 DEF AcceptStream, Accepted, ExecutionsTypeOK
        <4> QED BY <2>1, <4>1, <4>2
      <3>2. PICK r : r = Request(op, e, {}, {}, 0, FALSE)
        OBVIOUS
      <3>3. tx[w].op = "none" /\ Turns(w, r)
        BY <3>1, <3>2, LookTurns DEF DatabaseInv
      <3>4. Untold(e)' /\ told'[e] = "none" /\ job'[e].attempts = 0
        BY <1>2, <1>4, <3>1 DEF Untold, NoJob
      <3>5. ExecutionHeld(r)' /\ r.on = e
        BY <3>1, <3>2, <3>4 DEF ExecutionHeld, Request, StreamOps, OutcomeOps
      <3>6. DatabaseInv'
        BY <3>1, <3>2, <3>3, TurnKeepsDatabase
      <3>7. Within(ExecutionOps)
        BY <3>1, <3>2, <3>3, RequestWithin DEF ExecutionOps
      <3> QED BY <3>1, <3>3, <3>5, <3>6, <3>7
    <2>2. CASE AcceptAsync(w, e)
      <3>1. tx[w].op = "none" /\ Turns(w, NoRequest)
        BY <2>2, ShortTurns DEF AcceptAsync, DatabaseInv
      <3>2. mode'[e] = "async"
        BY <1>3, <2>2 DEF AcceptAsync, Accepted, ExecutionsTypeOK
      <3>3. m = "async"
        BY <1>5, <3>2
      <3>4. NoRequest.op \notin ExecutionOps
        BY NoRequestFields DEF ExecutionOps
      <3> QED BY <2>2, <3>1, <3>3, <3>4, EndKeepsDatabase, EndWithin DEF AcceptAsync
    <2> QED BY <2>1, <2>2
  <1>7. ExecutionsTypeOK'
    BY <1>2, <1>3, <1>6 DEF ExecutionsTypeOK
  <1>8. job'[e].attempts = 0 /\ job[e].attempts = 0 /\ (m # "async" => job'[e] = NoJob)
    BY <1>3, <1>4, <1>6 DEF ExecutionsTypeOK, NoJob
  <1>9. ExecutionTrue(e)'
    BY <1>2, <1>4, <1>5, <1>8 DEF ExecutionTrue, Accounted, Untold
  <1>10. OnlyOf(e)
    BY <1>2, <1>3, <1>5, <1>6 DEF OnlyOf, ExecutionsTypeOK
  <1>11. Onwards(e) /\ Takes(w, r, e)
    BY <1>2, <1>8 DEF Onwards, Takes
  <1>12. ExecutionHeld(r)'
    BY <1>6 DEF ExecutionHeld
  <1> QED BY <1>6, <1>7, <1>9, <1>10, <1>11, <1>12, ExecutionTurn

\* The steps between: transactions begin, the upstream answers or does not, and what cannot
\* be recorded is raised or given up.
LEMMA ExecutionGoesOnKeeps ==
    ASSUME ExecutionInv, DatabaseInv, db' = db, NEW w \in Workers,
           \/ BeginUpstream(w) \/ BeginHandler(w) \/ Call(w) \/ Conflict(w)
           \/ StreamBreaks(w) \/ StreamCut(w) \/ HandlerRaises(w) \/ AbandonExecution(w)
    PROVE  ExecutionInv' /\ DatabaseInv' /\ Within(ExecutionOps)
  <1>1. ExecutionHeld(tx[w]) /\ UNCHANGED executions
    BY DEF ExecutionInv, ExecutionWork, BeginUpstream, BeginHandler, Call, Conflict,
           StreamBreaks, StreamCut, HandlerRaises, AbandonExecution
  <1>2. CASE BeginUpstream(w) \/ BeginHandler(w)
    <2>1. Open(w, "accepted", "executing", {})
      BY <1>2 DEF BeginUpstream, BeginHandler
    <2>2. PICK r : r = Request("executing", tx[w].on, tx[w].by, {}, tx[w].n, TRUE)
      OBVIOUS
    <2>3. tx[w].op = "accepted" /\ MayBegin /\ Turns(w, r)
      BY <2>1, <2>2, OpenTurns DEF DatabaseInv
    <2>4. ExecutionHeld(r) /\ r.on = tx[w].on /\ r.n = tx[w].n
      BY <1>1, <2>2, <2>3 DEF ExecutionHeld, Request, ExecutionOps, StreamOps, OutcomeOps
    <2>5. ExecutionInv'
      BY <1>1, <2>3, <2>4, ExecutionGoesOn DEF ExecutionOps
    <2>6. DatabaseInv'
      BY <2>2, <2>3, TurnKeepsDatabase
    <2>7. Within(ExecutionOps)
      BY <2>2, <2>3, RequestWithin DEF ExecutionOps
    <2> QED BY <2>5, <2>6, <2>7
  <1>3. CASE StreamBreaks(w) \/ AbandonExecution(w)
    <2>1. tx[w].op \in ExecutionOps /\ Turns(w, NoRequest)
      BY <1>3, EndTurns DEF StreamBreaks, AbandonExecution, ExecutionOps, DatabaseInv
    <2>2. ExecutionHeld(NoRequest) /\ NoRequest.op \notin ExecutionOps
      BY NoRequestFields DEF ExecutionHeld, ExecutionOps
    <2> QED BY <1>1, <2>1, <2>2, ExecutionGoesOn, EndKeepsDatabase, EndWithin
  <1>4. CASE Call(w)
    <2>1. PICK op \in {"responded", "broken", "escaped"}, o \in Outcomes :
              /\ tx[w].op = "executing" /\ tx' = [tx EXCEPT ![w].op = op, ![w].seen = {o}]
              /\ op = "broken" => o = "failed"
      BY <1>4 DEF Call, Outcomes
    <2>2. PICK r : r = Request(op, tx[w].on, tx[w].by, {o}, tx[w].n, tx[w].open)
      OBVIOUS
    <2>3. Turns(w, r)
      BY <2>1, <2>2, OpSeenTurns DEF DatabaseInv
    <2>4. ExecutionHeld(r) /\ r.on = tx[w].on /\ r.n = tx[w].n
      BY <1>1, <2>1, <2>2 DEF ExecutionHeld, Request, ExecutionOps, StreamOps, OutcomeOps
    <2>5. ExecutionInv'
      BY <1>1, <2>1, <2>3, <2>4, ExecutionGoesOn DEF ExecutionOps
    <2>6. DatabaseInv'
      <3>1. tx[w].open \in BOOLEAN
        BY DEF DatabaseInv, TxShape
      <3> QED BY <2>1, <2>2, <2>3, <3>1, TurnKeepsDatabase
    <2>7. Within(ExecutionOps)
      BY <2>1, <2>2, <2>3, RequestWithin DEF ExecutionOps
    <2> QED BY <2>5, <2>6, <2>7
  <1>5. CASE Conflict(w) \/ StreamCut(w) \/ HandlerRaises(w)
    <2>1. PICK op \in {"raised", "streamed"}, o \in Outcomes :
              /\ tx[w].op \in ExecutionOps /\ Becomes(w, op, o)
              /\ op = "raised" => mode[tx[w].on] = "async"
              /\ op = "streamed" => tx[w].op = "streaming"
      <3>1. CASE Conflict(w)
        <4>1. record[tx[w].on] # "none" /\ tx[w].op \in {"responded", "broken"}
          BY <3>1 DEF Conflict, IsNew
        <4>2. PICK e \in Executions : e = tx[w].on
          BY <1>1, <4>1 DEF ExecutionHeld, ExecutionOps
        <4>3. ~(job[e].attempts <= 1)
          BY <1>1, <4>1, <4>2 DEF ExecutionHeld, ExecutionOps, Untold
        <4>4. mode[e] = "async"
          BY <4>3 DEF ExecutionInv, ExecutionsTrue, ExecutionTrue, NoJob
        <4> QED BY <3>1, <4>1, <4>2, <4>4 DEF Conflict, Outcomes, ExecutionOps
      <3>2. CASE StreamCut(w)
        BY <3>2 DEF StreamCut, WillRecord, ExecutionOps
      <3>3. CASE HandlerRaises(w)
        BY <3>3 DEF HandlerRaises, ExecutionOps, Outcomes
      <3> QED BY <1>5, <3>1, <3>2, <3>3
    <2>2. PICK r : r = Request(op, tx[w].on, tx[w].by, {o}, tx[w].n, FALSE)
      OBVIOUS
    <2>3. Turns(w, r)
      BY <2>1, <2>2, OpSeenCloseTurns DEF Becomes, DatabaseInv
    <2>4. r.op = op /\ r.on = tx[w].on /\ r.seen = {o} /\ r.n = tx[w].n
      BY <2>2 DEF Request
    <2>5. ExecutionHeld(r)
      BY <1>1, <2>1, <2>4 DEF ExecutionHeld, ExecutionOps, StreamOps, OutcomeOps
    <2>6. ExecutionInv'
      BY <1>1, <2>1, <2>3, <2>4, <2>5, ExecutionGoesOn
    <2>7. DatabaseInv'
      BY <2>1, <2>2, <2>3, TurnKeepsDatabase
    <2>8. Within(ExecutionOps)
      BY <2>1, <2>2, <2>3, RequestWithin DEF ExecutionOps
    <2> QED BY <2>6, <2>7, <2>8
  <1> QED BY <1>2, <1>3, <1>4, <1>5

\* The outcome of an execution that has no record yet is recorded, and reported.
LEMMA RecordOutcomeKeeps ==
    ASSUME ExecutionInv, DatabaseInv, db' = db, NEW w \in Workers,
           RecordOutcome(w) \/ RecordError(w) \/ PersistStream(w)
    PROVE  ExecutionInv' /\ DatabaseInv' /\ Within(ExecutionOps)
  <1>1. ExecutionHeld(tx[w]) /\ tx[w].op \in {"responded", "broken", "streamed"}
    BY DEF ExecutionInv, ExecutionWork, RecordOutcome, RecordError, PersistStream, Short
  <1>2. PICK e \in Executions : e = tx[w].on
    BY <1>1 DEF ExecutionHeld, ExecutionOps
  <1>3. PICK o \in Outcomes : tx[w].seen = {o}
    BY <1>1 DEF ExecutionHeld, ExecutionOps, OutcomeOps
  <1>4. Outcome(w) = o /\ o # "none"
    BY <1>3 DEF Outcome, Outcomes
  <1>5. /\ record' = [record EXCEPT ![e] = o]
        /\ reported' = [reported EXCEPT ![e] = @ \cup {o}]
        /\ UNCHANGED <<mode, told, job, result>>
    BY <1>2, <1>4 DEF RecordOutcome, RecordError, PersistStream, Recorded
  <1>6. record'[e] = o /\ reported'[e] = reported[e] \cup {o}
    BY <1>5 DEF ExecutionInv, ExecutionsTypeOK
  <1>7. /\ mode[e] # "none" /\ tx[w].n \in 0..job[e].attempts /\ (tx[w].n = 0 <=> mode[e] # "async")
        /\ job[e].attempts <= 1 => Untold(e)
    BY <1>1, <1>2 DEF ExecutionHeld, ExecutionOps
  <1>8. record[e] = "none"
    <2>1. CASE PersistStream(w)
      <3>1. mode[e] = "stream"
        BY <1>1, <1>2, <2>1 DEF PersistStream, Short, ExecutionHeld, ExecutionOps, StreamOps
      <3>2. job[e].attempts = 0
        BY <3>1 DEF ExecutionInv, ExecutionsTrue, ExecutionTrue, NoJob
      <3> QED BY <1>7, <3>2 DEF Untold
    <2>2. CASE RecordOutcome(w) \/ RecordError(w)
      BY <1>2, <2>2 DEF RecordOutcome, RecordError, IsNew
    <2> QED BY <2>1, <2>2
  <1>9. PICK r : /\ Turns(w, r) /\ DatabaseInv' /\ Within(ExecutionOps)
                 /\ r.op \in ExecutionOps => r.on = e /\ r.n = tx[w].n /\ ExecutionHeld(r)'
    <2>1. CASE PersistStream(w)
      <3>1. Turns(w, NoRequest)
        BY <2>1, ShortTurns DEF PersistStream, DatabaseInv
      <3>2. NoRequest.op \notin ExecutionOps
        BY NoRequestFields DEF ExecutionOps
      <3> QED BY <1>1, <3>1, <3>2, EndKeepsDatabase, EndWithin DEF ExecutionOps
    <2>2. CASE RecordOutcome(w) \/ RecordError(w)
      <3>1. Becomes(w, "accounted", o) /\ tx[w].op \in {"responded", "broken"}
        <4>1. CASE RecordOutcome(w)
          BY <1>4, <4>1 DEF RecordOutcome
        <4>2. CASE RecordError(w)
          <5>1. Becomes(w, "accounted", "failed") /\ tx[w].op = "broken"
            BY <4>2 DEF RecordError
          <5>2. tx[w].seen = {"failed"}
            BY <1>1, <5>1 DEF ExecutionHeld, ExecutionOps
          <5> QED BY <1>3, <5>1, <5>2
        <4> QED BY <2>2, <4>1, <4>2
      <3>2. PICK r : r = Request("accounted", tx[w].on, tx[w].by, {o}, tx[w].n, FALSE)
        OBVIOUS
      <3>3. Turns(w, r)
        BY <3>1, <3>2, OpSeenCloseTurns DEF Becomes, DatabaseInv
      <3>4. r.op = "accounted" /\ r.on = e /\ r.seen = {o} /\ r.n = tx[w].n
        BY <1>2, <3>2 DEF Request
      <3>5. mode[e] # "stream"
        BY <1>1, <1>2, <3>1 DEF ExecutionHeld, ExecutionOps, StreamOps
      <3>6. ExecutionHeld(r)'
        BY <1>5, <1>6, <1>7, <3>4, <3>5 DEF ExecutionHeld, StreamOps
      <3>7. DatabaseInv'
        BY <3>2, <3>3, TurnKeepsDatabase
      <3>8. Within(ExecutionOps)
        BY <3>1, <3>2, <3>3, RequestWithin DEF ExecutionOps
      <3> QED BY <3>3, <3>4, <3>6, <3>7, <3>8
    <2> QED BY <2>1, <2>2
  <1>10. ExecutionsTypeOK'
    BY <1>5 DEF ExecutionInv, ExecutionsTypeOK
  <1>11. ExecutionTrue(e)'
    <2>1. ExecutionTrue(e) /\ Accounted(e) /\ job[e].attempts \in Nat
      BY AttemptsCount DEF ExecutionInv, ExecutionsTrue, ExecutionTrue
    <2>2. mode[e] = "buffered" => told[e] = "none"
      BY <1>8, <2>1 DEF Accounted
    <2>3. mode[e] = "stream" => told[e] \in {"none", o}
      <3> SUFFICES ASSUME mode[e] = "stream"
                   PROVE  told[e] \in {"none", o}
        OBVIOUS
      <3>1. tx[w].op = "streamed"
        BY <1>1, <1>2 DEF ExecutionHeld, ExecutionOps, StreamOps
      <3> QED BY <1>1, <1>2, <1>3, <3>1 DEF ExecutionHeld, ExecutionOps
    <2>4. "completed" \notin reported[e] \cup {result[e]}
      BY <1>8, <2>1 DEF Accounted
    <2>5. mode[e] # "async" => reported[e] = {}
      BY <1>8, <2>1 DEF Accounted
    <2>6. Accounted(e)'
      BY <1>4, <1>5, <1>6, <1>7, <2>2, <2>3, <2>4, <2>5 DEF Accounted, Untold
    <2> QED BY <1>5, <1>7, <2>1, <2>6 DEF ExecutionTrue
  <1>12. OnlyOf(e)
    BY <1>5 DEF OnlyOf, ExecutionInv, ExecutionsTypeOK
  <1>13. Onwards(e) /\ Takes(w, r, e)
    <2>1. tx[w].op \in ExecutionOps /\ job[e].attempts \in Nat
      BY <1>1, AttemptsCount DEF ExecutionOps, ExecutionInv
    <2> QED BY <1>2, <1>5, <1>6, <1>8, <1>9, <2>1 DEF Onwards, Takes
  <1>14. ExecutionHeld(r)'
    BY <1>9 DEF ExecutionHeld
  <1> QED BY <1>9, <1>10, <1>11, <1>12, <1>13, <1>14, ExecutionTurn

\* A failure that has no record is reported, of a job.
LEMMA HandlerCatchesKeeps ==
    ASSUME ExecutionInv, DatabaseInv, db' = db, NEW w \in Workers, HandlerCatches(w)
    PROVE  ExecutionInv' /\ DatabaseInv' /\ Within(ExecutionOps)
  <1>1. ExecutionHeld(tx[w]) /\ tx[w].op = "escaped"
    BY DEF ExecutionInv, ExecutionWork, HandlerCatches
  <1>2. PICK e \in Executions : e = tx[w].on
    BY <1>1 DEF ExecutionHeld, ExecutionOps
  <1>3. /\ mode[e] = "async" /\ reported' = [reported EXCEPT ![e] = @ \cup {"failed"}]
        /\ Becomes(w, "accounted", "failed") /\ UNCHANGED <<mode, record, told, job, result>>
    BY <1>2 DEF HandlerCatches
  <1>4. reported'[e] = reported[e] \cup {"failed"}
    BY <1>3 DEF ExecutionInv, ExecutionsTypeOK
  <1>5. /\ tx[w].n \in 0..job[e].attempts /\ tx[w].n # 0 /\ job[e].attempts \in Nat
        /\ job[e].attempts <= 1 => Untold(e)
    BY <1>1, <1>2, <1>3, AttemptsCount DEF ExecutionHeld, ExecutionOps, ExecutionInv
  <1>6. PICK r : r = Request("accounted", tx[w].on, tx[w].by, {"failed"}, tx[w].n, FALSE)
    OBVIOUS
  <1>7. Turns(w, r)
    BY <1>3, <1>6, OpSeenCloseTurns DEF Becomes, DatabaseInv
  <1>8. r.op = "accounted" /\ r.on = e /\ r.seen = {"failed"} /\ r.n = tx[w].n
    BY <1>2, <1>6 DEF Request
  <1>9. ExecutionHeld(r)'
    BY <1>3, <1>4, <1>5, <1>8 DEF ExecutionHeld, StreamOps, Outcomes
  <1>10. ExecutionTrue(e)'
    <2>1. ExecutionTrue(e) /\ Accounted(e)
      BY DEF ExecutionInv, ExecutionsTrue, ExecutionTrue
    <2>2. Accounted(e)'
      BY <1>3, <1>4, <1>5, <2>1 DEF Accounted, Untold
    <2> QED BY <1>3, <1>5, <2>2 DEF ExecutionTrue
  <1>11. ExecutionsTypeOK'
    BY <1>3 DEF ExecutionInv, ExecutionsTypeOK, Outcomes
  <1>12. OnlyOf(e)
    BY <1>3 DEF OnlyOf, ExecutionInv, ExecutionsTypeOK
  <1>13. Onwards(e) /\ Takes(w, r, e)
    BY <1>1, <1>2, <1>3, <1>4, <1>5, <1>8 DEF Onwards, Takes, ExecutionOps
  <1>14. DatabaseInv'
    BY <1>6, <1>7, TurnKeepsDatabase
  <1>15. Within(ExecutionOps)
    BY <1>1, <1>6, <1>7, RequestWithin DEF ExecutionOps
  <1> QED BY <1>7, <1>8, <1>9, <1>10, <1>11, <1>12, <1>13, <1>14, <1>15, ExecutionTurn

\* The caller of a buffered call, or of a streamed one, is told.
LEMMA TellKeeps ==
    ASSUME ExecutionInv, DatabaseInv, db' = db, NEW w \in Workers, Answer(w) \/ StreamEnds(w)
    PROVE  ExecutionInv' /\ DatabaseInv' /\ Within(ExecutionOps)
  <1>1. ExecutionHeld(tx[w]) /\ tx[w].op \in {"accounted", "streaming"}
    BY DEF ExecutionInv, ExecutionWork, Answer, StreamEnds
  <1>2. PICK e \in Executions : e = tx[w].on
    BY <1>1 DEF ExecutionHeld, ExecutionOps
  <1>3. ExecutionTrue(e) /\ Accounted(e) /\ job[e].attempts \in Nat
    BY AttemptsCount DEF ExecutionInv, ExecutionsTrue, ExecutionTrue
  <1>4. PICK o, r :
            /\ o \in Outcomes /\ told' = [told EXCEPT ![e] = o]
            /\ UNCHANGED <<mode, record, reported, job, result>>
            /\ \/ mode[e] = "buffered" /\ record[e] = o
               \/ mode[e] = "stream" /\ record[e] = "none"
            /\ Turns(w, r) /\ DatabaseInv' /\ Within(ExecutionOps)
            /\ r.op \in ExecutionOps => r.on = e /\ r.n = tx[w].n /\ ExecutionHeld(r)'
    <2>1. CASE Answer(w)
      <3>1. tx[w].op = "accounted" /\ mode[e] = "buffered"
        BY <1>2, <2>1 DEF Answer
      <3>2. PICK o \in Outcomes : tx[w].seen = {o} /\ o \in reported[e]
        BY <1>1, <1>2, <3>1 DEF ExecutionHeld, ExecutionOps, OutcomeOps
      <3>3. told' = [told EXCEPT ![e] = o] /\ record[e] = o
        BY <1>2, <1>3, <2>1, <3>1, <3>2 DEF Answer, Outcome, Accounted
      <3>4. Turns(w, NoRequest)
        BY <2>1, EndTurns DEF Answer, DatabaseInv
      <3>5. NoRequest.op \notin ExecutionOps
        BY NoRequestFields DEF ExecutionOps
      <3>6. UNCHANGED <<mode, record, reported, job, result>>
        BY <2>1 DEF Answer
      <3>7. DatabaseInv' /\ Within(ExecutionOps)
        BY <3>1, <3>4, EndKeepsDatabase, EndWithin DEF ExecutionOps
      <3> QED BY <3>1, <3>2, <3>3, <3>4, <3>5, <3>6, <3>7
    <2>2. CASE StreamEnds(w)
      <3>1. PICK o \in Outcomes : told' = [told EXCEPT ![e] = o] /\ Becomes(w, "streamed", o)
        BY <1>2, <2>2 DEF StreamEnds, WillRecord
      <3>2. tx[w].op = "streaming" /\ UNCHANGED <<mode, record, reported, job, result>>
        BY <2>2 DEF StreamEnds
      <3>3. mode[e] = "stream" /\ tx[w].n = 0
        BY <1>1, <1>2, <3>2 DEF ExecutionHeld, ExecutionOps, StreamOps
      <3>4. job[e].attempts = 0 /\ Untold(e)
        BY <1>1, <1>2, <1>3, <3>2, <3>3 DEF ExecutionTrue, NoJob, ExecutionHeld, ExecutionOps
      <3>5. PICK r : r = Request("streamed", e, tx[w].by, {o}, tx[w].n, FALSE)
        OBVIOUS
      <3>6. Turns(w, r)
        BY <1>2, <3>1, <3>5, OpSeenCloseTurns DEF Becomes, DatabaseInv
      <3>7. r.op = "streamed" /\ r.on = e /\ r.seen = {o} /\ r.n = 0
        BY <3>3, <3>5 DEF Request
      <3>8. told'[e] = o
        BY <3>1 DEF ExecutionInv, ExecutionsTypeOK
      <3>9. ExecutionHeld(r)'
        BY <3>2, <3>3, <3>4, <3>7, <3>8 DEF ExecutionHeld, StreamOps, Untold
      <3>10. DatabaseInv'
        BY <3>5, <3>6, TurnKeepsDatabase
      <3>11. Within(ExecutionOps)
        BY <3>2, <3>5, <3>6, RequestWithin DEF ExecutionOps
      <3> QED BY <3>1, <3>2, <3>3, <3>4, <3>6, <3>7, <3>9, <3>10, <3>11 DEF Untold
    <2> QED BY <2>1, <2>2
  <1>5. told'[e] = o
    BY <1>4 DEF ExecutionInv, ExecutionsTypeOK
  <1>6. ExecutionsTypeOK'
    BY <1>4 DEF ExecutionInv, ExecutionsTypeOK
  <1>7. ExecutionTrue(e)'
    <2>1. Accounted(e)'
      BY <1>3, <1>4, <1>5 DEF Accounted
    <2> QED BY <1>3, <1>4, <2>1 DEF ExecutionTrue
  <1>8. OnlyOf(e)
    BY <1>4 DEF OnlyOf, ExecutionInv, ExecutionsTypeOK
  <1>9. Onwards(e) /\ Takes(w, r, e)
    BY <1>1, <1>2, <1>3, <1>4 DEF Onwards, Takes, ExecutionOps
  <1>10. ExecutionHeld(r)'
    BY <1>4 DEF ExecutionHeld
  <1> QED BY <1>4, <1>6, <1>7, <1>8, <1>9, <1>10, ExecutionTurn

LEMMA JobClockKeeps ==
    ASSUME ExecutionInv, DatabaseInv, db' = db, ExecutionClock
    PROVE  ExecutionInv' /\ DatabaseInv' /\ Within(ExecutionOps)
  <1>1. PICK e \in Executions, s \in {"lapsed", "cancelled"} :
            /\ job[e].state \in {"queued", "running", "lapsed"}
            /\ job' = [job EXCEPT ![e].state = s]
            /\ UNCHANGED <<tx, mode, record, reported, told, result>>
    BY DEF ExecutionClock, Lapse, CancelJob
  <1>2. ExecutionTrue(e) /\ ExecutionsTypeOK
    BY DEF ExecutionInv, ExecutionsTrue
  <1>3. mode[e] = "async"
    BY <1>1, <1>2 DEF ExecutionTrue, NoJob
  <1>4. ExecutionsTypeOK'
    BY <1>1, <1>2 DEF ExecutionsTypeOK
  <1>5. \A d \in Executions : job'[d].attempts = job[d].attempts
    BY <1>1, <1>2 DEF ExecutionsTypeOK
  <1>6. ExecutionsTrue'
    <2>1. ExecutionTrue(e)'
      BY <1>1, <1>2, <1>3, <1>5 DEF ExecutionTrue, Accounted, Untold
    <2>2. OnlyOf(e)
      BY <1>1, <1>2 DEF OnlyOf, ExecutionsTypeOK
    <2> QED BY <2>1, <2>2, TrueOfAll DEF ExecutionInv
  <1>7. ExecutionWork' /\ SoleWorker'
    <2>1. ASSUME NEW v \in Workers
          PROVE  ExecutionHeld(tx[v])'
      <3>1. ExecutionHeld(tx[v]) /\ tx'[v] = tx[v]
        BY <1>1 DEF ExecutionInv, ExecutionWork
      <3> QED BY <1>1, <1>5, <3>1 DEF ExecutionHeld, Untold
    <2>2. SoleWorker'
      BY <1>1 DEF ExecutionInv, SoleWorker
    <2> QED BY <2>1, <2>2 DEF ExecutionWork
  <1>8. DatabaseInv' /\ Within(ExecutionOps)
    BY <1>1, StutterKeepsDatabase DEF Within
  <1> QED BY <1>4, <1>6, <1>7, <1>8 DEF ExecutionInv

\* A job is claimed: a delivery with a number no other has.
LEMMA ClaimJobKeeps ==
    ASSUME ExecutionInv, DatabaseInv, db' = db, NEW w \in Workers, NEW e \in Executions,
           ClaimJob(w, e)
    PROVE  ExecutionInv' /\ DatabaseInv' /\ Within(ExecutionOps)
  <1>1. ExecutionTrue(e) /\ ExecutionsTypeOK /\ job[e].attempts \in Nat
    BY AttemptsCount DEF ExecutionInv, ExecutionsTrue
  <1>2. PICK n : n = job[e].attempts + 1
    OBVIOUS
  <1>3. /\ job[e].state \in {"queued", "lapsed"} /\ job[e].attempts < MaxClaims
        /\ job' = [job EXCEPT ![e] = [state |-> "running", attempts |-> n]]
        /\ Look(w, "accepted", e, {}, n)
        /\ UNCHANGED <<mode, record, reported, told, result>>
    BY <1>1, <1>2 DEF ClaimJob, ExecutionsTypeOK
  <1>4. n \in 1..MaxClaims /\ job[e].attempts < n
    BY <1>1, <1>2, <1>3, ExecutionsOK
  <1>5. mode[e] = "async"
    BY <1>1, <1>3 DEF ExecutionTrue, NoJob
  <1>6. job'[e].attempts = n
    BY <1>1, <1>3 DEF ExecutionsTypeOK
  <1>7. PICK r : r = Request("accepted", e, {}, {}, n, FALSE)
    OBVIOUS
  <1>8. tx[w].op = "none" /\ Turns(w, r)
    BY <1>3, <1>7, LookTurns DEF DatabaseInv
  <1>9. r.op = "accepted" /\ r.on = e /\ r.n = n
    BY <1>7 DEF Request
  <1>10. n <= 1 => Untold(e)
    BY <1>1, <1>2, <1>5 DEF ExecutionTrue
  <1>11. ExecutionHeld(r)'
    BY <1>3, <1>4, <1>5, <1>6, <1>9, <1>10, ExecutionsOK
       DEF ExecutionHeld, StreamOps, OutcomeOps, Untold
  <1>12. ExecutionTrue(e)'
    <2>1. Accounted(e)'
      BY <1>1, <1>2, <1>3, <1>5, <1>6, <1>10 DEF ExecutionTrue, Accounted, Untold
    <2> QED BY <1>3, <1>4, <1>5, <1>6, <2>1 DEF ExecutionTrue
  <1>13. ExecutionsTypeOK'
    <2>1. n \in 0..MaxClaims
      BY <1>4, ExecutionsOK
    <2> QED BY <1>1, <1>3, <2>1 DEF ExecutionsTypeOK
  <1>14. OnlyOf(e) /\ Onwards(e) /\ Takes(w, r, e)
    BY <1>1, <1>3, <1>4, <1>5, <1>6, <1>9, ExecutionsOK DEF OnlyOf, Onwards, Takes, ExecutionsTypeOK
  <1>15. DatabaseInv'
    BY <1>7, <1>8, TurnKeepsDatabase
  <1>16. Within(ExecutionOps)
    BY <1>7, <1>8, RequestWithin DEF ExecutionOps
  <1> QED BY <1>8, <1>9, <1>11, <1>12, <1>13, <1>14, <1>15, <1>16, ExecutionTurn

\* The outcome of a job is written: its result, or that it failed.
LEMMA JobOutcomeKeeps ==
    ASSUME ExecutionInv, DatabaseInv, db' = db, NEW w \in Workers, CompleteJob(w) \/ FailJob(w)
    PROVE  ExecutionInv' /\ DatabaseInv' /\ Within(ExecutionOps)
  <1>1. ExecutionHeld(tx[w]) /\ ExecutionsTypeOK
    BY DEF ExecutionInv, ExecutionWork
  <1>2. PICK op \in {"accounted", "raised"} : Short(w, op)
    BY DEF CompleteJob, FailJob
  <1>3. tx[w].op = op /\ Turns(w, NoRequest)
    BY <1>2, ShortTurns DEF DatabaseInv
  <1>4. ExecutionHeld(NoRequest)' /\ NoRequest.op \notin ExecutionOps
    BY NoRequestFields DEF ExecutionHeld, ExecutionOps
  <1>5. DatabaseInv' /\ Within(ExecutionOps)
    BY <1>2, <1>3, EndKeepsDatabase, EndWithin DEF ExecutionOps
  <1>6. PICK e \in Executions : e = tx[w].on
    BY <1>1, <1>2, <1>3 DEF ExecutionHeld, ExecutionOps
  <1>7. UNCHANGED <<mode, record, reported, told>>
    BY DEF CompleteJob, FailJob
  <1>8. ExecutionTrue(e) /\ Accounted(e) /\ job[e].attempts \in Nat
    BY AttemptsCount DEF ExecutionInv, ExecutionsTrue, ExecutionTrue
  <1>9. mode[e] = "async" /\ job[e].attempts # 0
    <2>1. mode[e] = "async"
      BY <1>1, <1>2, <1>3, <1>6 DEF CompleteJob, FailJob, Short, ExecutionHeld, ExecutionOps
    <2> QED BY <1>1, <1>2, <1>3, <1>6, <1>8, <2>1 DEF ExecutionHeld, ExecutionOps
  <1>10. PICK s \in {"running", "completed", "cancelled", "dead_letter", "queued", "lapsed", "none"} :
             job' = [job EXCEPT ![e].state = s]
    <2>1. job[e].state \in {"running", "completed", "cancelled", "dead_letter", "queued", "lapsed", "none"}
      BY <1>1 DEF ExecutionsTypeOK
    <2>2. CASE CompleteJob(w)
      <3>1. CASE job[e].state = "cancelled"
        <4>1. job' = [job EXCEPT ![e].state = "cancelled"]
          BY <1>1, <1>6, <2>2, <3>1 DEF CompleteJob, ExecutionsTypeOK
        <4> QED BY <4>1
      <3>2. CASE job[e].state # "cancelled"
        BY <1>6, <2>2, <3>2 DEF CompleteJob
      <3> QED BY <3>1, <3>2
    <2>3. CASE FailJob(w)
      BY <1>6, <2>1, <2>3 DEF FailJob
    <2> QED BY <2>2, <2>3
  <1>11. result' = result \/ \E o \in Outcomes :
                                 o \in reported[e] /\ result' = [result EXCEPT ![e] = o]
    <2>1. CASE FailJob(w)
      BY <2>1 DEF FailJob
    <2>2. CASE CompleteJob(w)
      <3>1. tx[w].op = "accounted"
        BY <2>2 DEF CompleteJob, Short
      <3>2. PICK o \in Outcomes : tx[w].seen = {o} /\ o \in reported[e]
        BY <1>1, <1>6, <3>1 DEF ExecutionHeld, ExecutionOps, OutcomeOps
      <3>3. Outcome(w) = o
        BY <3>2 DEF Outcome
      <3> QED BY <1>6, <2>2, <3>2, <3>3 DEF CompleteJob
    <2> QED BY <2>1, <2>2
  <1>12. job'[e].attempts = job[e].attempts
    BY <1>1, <1>10 DEF ExecutionsTypeOK
  <1>13. result'[e] = result[e] \/ result'[e] \in reported[e]
    BY <1>1, <1>11 DEF ExecutionsTypeOK
  <1>14. ExecutionsTypeOK'
    BY <1>1, <1>7, <1>10, <1>11 DEF ExecutionsTypeOK
  <1>15. ExecutionTrue(e)'
    <2>1. Accounted(e)'
      BY <1>7, <1>8, <1>9, <1>12, <1>13 DEF Accounted
    <2> QED BY <1>7, <1>8, <1>9, <1>12, <2>1 DEF ExecutionTrue
  <1>16. OnlyOf(e)
    BY <1>1, <1>7, <1>10, <1>11 DEF OnlyOf, ExecutionsTypeOK
  <1>17. Onwards(e) /\ Takes(w, NoRequest, e)
    BY <1>2, <1>3, <1>4, <1>6, <1>7, <1>8, <1>12 DEF Onwards, Takes, ExecutionOps
  <1> QED BY <1>3, <1>4, <1>5, <1>14, <1>15, <1>16, <1>17, ExecutionTurn

LEMMA ExecutionPartKeeps ==
    ASSUME ExecutionInv, DatabaseInv, db' = db, ExecutionPart
    PROVE  ExecutionInv' /\ DatabaseInv' /\ Within(ExecutionOps)
  <1>1. CASE ExecutionClock
    BY <1>1, JobClockKeeps
  <1>2. ASSUME NEW w \in Workers, ExecutionStep(w)
        PROVE  ExecutionInv' /\ DatabaseInv' /\ Within(ExecutionOps)
    <2>1. CASE \E e \in Executions : AcceptBuffered(w, e) \/ AcceptStream(w, e) \/ AcceptAsync(w, e)
      BY <2>1, AcceptKeeps
    <2>2. CASE \/ BeginUpstream(w) \/ BeginHandler(w) \/ Call(w) \/ Conflict(w)
               \/ StreamBreaks(w) \/ StreamCut(w) \/ HandlerRaises(w) \/ AbandonExecution(w)
      BY <2>2, ExecutionGoesOnKeeps
    <2>3. CASE RecordOutcome(w) \/ RecordError(w) \/ PersistStream(w)
      BY <2>3, RecordOutcomeKeeps
    <2>4. CASE HandlerCatches(w)
      BY <2>4, HandlerCatchesKeeps
    <2>5. CASE Answer(w) \/ StreamEnds(w)
      BY <2>5, TellKeeps
    <2>6. CASE \E e \in Executions : ClaimJob(w, e)
      BY <2>6, ClaimJobKeeps
    <2>7. CASE CompleteJob(w) \/ FailJob(w)
      BY <2>7, JobOutcomeKeeps
    <2> QED BY <1>2, <2>1, <2>2, <2>3, <2>4, <2>5, <2>6, <2>7 DEF ExecutionStep
  <1> QED BY <1>1, <1>2 DEF ExecutionPart

LEMMA ExecutionElsewhere ==
    ASSUME ExecutionInv, UNCHANGED executions, NEW ops, Within(ops), ops \cap ExecutionOps = {}
    PROVE  ExecutionInv'
  <1>1. \A v \in Workers : tx[v].op \in ExecutionOps \/ tx'[v].op \in ExecutionOps => tx'[v] = tx[v]
    BY WithinElsewhere DEF ExecutionOps
  <1>2. ExecutionsTypeOK'
    BY DEF ExecutionInv, ExecutionsTypeOK, executions
  <1>3. ExecutionsTrue'
    BY DEF ExecutionInv, ExecutionsTrue, ExecutionTrue, Accounted, Untold, executions
  <1>4. ExecutionWork'
    <2> SUFFICES ASSUME NEW v \in Workers, tx'[v].op \in ExecutionOps
                 PROVE  ExecutionHeld(tx[v])'
      BY DEF ExecutionWork, ExecutionHeld
    <2>1. ExecutionHeld(tx[v]) /\ tx'[v] = tx[v]
      BY <1>1 DEF ExecutionInv, ExecutionWork
    <2> QED BY <2>1 DEF ExecutionHeld, Untold, executions
  <1>5. SoleWorker'
    BY <1>1 DEF ExecutionInv, SoleWorker
  <1> QED BY <1>2, <1>3, <1>4, <1>5 DEF ExecutionInv

LEMMA ExecutionStarts ==
    ASSUME DatabaseInit, ExecutionsInit
    PROVE  ExecutionInv
  <1>1. \A w \in Workers : tx[w].op = "none"
    BY NoRequestFields DEF DatabaseInit
  <1>2. ExecutionsTypeOK
    BY ExecutionsOK DEF ExecutionsInit, ExecutionsTypeOK, NoJob
  <1>3. ExecutionsTrue
    BY DEF ExecutionsInit, ExecutionsTrue, ExecutionTrue, Accounted, Untold
  <1>4. ExecutionWork /\ SoleWorker
    BY <1>1 DEF ExecutionWork, ExecutionHeld, SoleWorker, ExecutionOps
  <1> QED BY <1>2, <1>3, <1>4 DEF ExecutionInv

LEMMA ExecutionGives ==
    ASSUME ExecutionInv
    PROVE  ExecutionsTypeOK /\ ExecutionsAccounted
  BY DEF ExecutionInv, ExecutionsTrue, ExecutionTrue, ExecutionsAccounted

-----------------------------------------------------------------------------
(* The tokens of a credential: its grants.                                 *)

CredentialOps ==
    {"resolved", "asking", "rotated", "consumed", "exchanged", "scanned", "emitted"}

Refreshing(q) == q.op \in {"resolved", "asking", "rotated"}
Connecting(q) == q.op \in {"consumed", "exchanged"}
Asks(q) == q.op \in {"asking", "rotated"}

GrantTypes ==
    /\ row \in [refresh : RefreshTokens \cup {NoToken}, phase : Live \cup {"absent", "gone"},
                marks : SUBSET ExpiryKinds]
    /\ accepted \subseteq RefreshTokens /\ spoiled \subseteq RefreshTokens
    /\ exchanged \subseteq nonces /\ nonces \subseteq Nonces

\* The tokens that came from the row: the one it has, and those that refreshes read there.
HeldTokens == {row.refresh} \cup UNION {tx[w].by : w \in {v \in Workers : Refreshing(tx[v])}}

\* They are of grants whose code was exchanged, and no newer than what the provider accepts.
HeldTrue ==
    \A t \in HeldTokens : t # NoToken =>
        /\ t \in RefreshTokens /\ t[1] \in exchanged
        /\ \A a \in accepted : a[1] = t[1] => t[2] <= a[2]

\* The provider accepts one token of a grant at most.
AcceptedTrue ==
    \A a, b \in accepted : a[1] \in exchanged /\ (a[1] = b[1] => a = b)

\* A refresh presents one token.  Once the provider has answered, it accepts the token that
\* was sent back, which nobody else has, or the one presented.
RefreshHeld(q) ==
    Refreshing(q) =>
        \E p \in RefreshTokens \cup {NoToken} :
            /\ q.by = {p}
            /\ q.op # "rotated" => q.seen = {}
            /\ q.op = "rotated" =>
                  /\ p # NoToken
                  /\ \/ q.seen = {} /\ p \in accepted
                     \/ /\ q.seen = {Successor(p)}
                        /\ Successor(p) \in accepted /\ row.refresh # Successor(p)

\* A connection has a nonce of its own.  Nobody else has what its code was exchanged for.
ConnectHeld(q) ==
    Connecting(q) =>
        \E n \in nonces :
            /\ q.by = {<<n, 1>>}
            /\ q.op = "consumed" => n \notin exchanged /\ q.seen = {}
            /\ q.op = "exchanged" =>
                  /\ n \in exchanged /\ q.seen \subseteq {<<n, 1>>} /\ q.seen \subseteq accepted
                  /\ \A t \in HeldTokens : t # NoToken => t[1] # n

GrantWork == \A w \in Workers : RefreshHeld(tx[w]) /\ ConnectHeld(tx[w])

OneRefresher == \A v, w \in Workers : Asks(tx[v]) /\ Asks(tx[w]) => v = w

OwnNonces ==
    \A v, w \in Workers :
        Connecting(tx[v]) /\ Connecting(tx[w]) /\ v # w => tx[v].by \cap tx[w].by = {}

\* Where the row has no token, nobody has had one from it.
NoTokenYet ==
    row.phase # "gone" /\ row.refresh = NoToken =>
        /\ spoiled = {} /\ HeldTokens = {NoToken}
        /\ \A a \in accepted : \E v \in Workers : tx[v].op = "exchanged" /\ a \in tx[v].seen

TokenKept ==
    row.refresh # NoToken =>
        /\ row.phase \in Live
        /\ \/ row.refresh \in accepted \cup spoiled
           \/ \E w \in Workers : tx[w].op = "rotated" /\ row.refresh \in tx[w].by

GrantInv ==
    /\ GrantTypes /\ HeldTrue /\ AcceptedTrue /\ GrantWork
    /\ OneRefresher /\ OwnNonces /\ NoTokenYet /\ TokenKept

LEMMA TokenFacts ==
    /\ NoToken \notin RefreshTokens
    /\ \A t \in RefreshTokens : t = <<t[1], t[2]>> /\ t[1] \in Nonces /\ t[2] \in Nat
    /\ \A t \in RefreshTokens : /\ Successor(t)[1] = t[1] /\ Successor(t)[2] = t[2] + 1
                                /\ Successor(t) # t
    /\ \A n \in Nonces : <<n, 1>> \in RefreshTokens /\ <<n, 1>>[1] = n
    /\ Live = {"fresh", "soon", "stale", "expired"}
  <1>1. NoToken \notin RefreshTokens
    BY DEF NoToken, RefreshTokens
  <1>2. \A t \in RefreshTokens : t = <<t[1], t[2]>> /\ t[1] \in Nonces /\ t[2] \in Nat
    BY GrantsOK DEF RefreshTokens
  <1>3. \A t \in RefreshTokens : /\ Successor(t)[1] = t[1] /\ Successor(t)[2] = t[2] + 1
                                 /\ Successor(t) # t
    BY <1>2 DEF Successor
  <1>4. \A n \in Nonces : <<n, 1>> \in RefreshTokens /\ <<n, 1>>[1] = n
    BY GrantsOK DEF RefreshTokens
  <1>5. Live = {"fresh", "soon", "stale", "expired"}
    BY DEF Live, Phases
  <1> QED BY <1>1, <1>2, <1>3, <1>4, <1>5

\* A worker turns, and the row keeps its token, the provider what it accepts: whoever reads
\* the row may hold its token from now on, and a new nonce is nobody's.
LEMMA GrantTurn ==
    ASSUME GrantInv, NEW w \in Workers, NEW r, Turns(w, r), GrantTypes',
           row'.refresh = row.refresh, row.phase = "gone" => row'.phase = "gone",
           row.phase \in Live => row'.phase \in Live,
           UNCHANGED <<accepted, spoiled, exchanged>>, nonces \subseteq nonces',
           tx[w].op \notin {"rotated", "exchanged"}, r.op \notin {"rotated", "exchanged"},
           Refreshing(r) => r.seen = {} /\ \E p \in HeldTokens : r.by = {p},
           Asks(r) => \A v \in Workers \ {w} : ~Asks(tx[v]),
           r.op = "consumed" =>
               \/ tx[w].op = "consumed" /\ r.by = tx[w].by /\ r.seen = {}
               \/ \E n \in nonces' \ nonces : r.by = {<<n, 1>>} /\ r.seen = {}
    PROVE  GrantInv'
  <1>1. \A v \in Workers : tx'[v] = IF v = w THEN r ELSE tx[v]
    BY DEF Turns
  <1>2. HeldTokens' \subseteq HeldTokens
    <2> SUFFICES ASSUME NEW t \in HeldTokens', t # row.refresh
                 PROVE  t \in HeldTokens
      BY DEF HeldTokens
    <2>1. PICK v \in Workers : Refreshing(tx'[v]) /\ t \in tx'[v].by
      BY DEF HeldTokens
    <2>2. CASE v = w
      BY <1>1, <2>1, <2>2
    <2>3. CASE v # w
      BY <1>1, <2>1, <2>3 DEF HeldTokens
    <2> QED BY <2>2, <2>3
  <1>3. HeldTrue' /\ AcceptedTrue'
    BY <1>2 DEF GrantInv, HeldTrue, AcceptedTrue
  <1>4. \A v \in Workers : RefreshHeld(tx[v]) /\ ConnectHeld(tx[v])
    BY DEF GrantInv, GrantWork
  <1>5. ASSUME NEW v \in Workers
        PROVE  RefreshHeld(tx[v])' /\ ConnectHeld(tx[v])'
    <2>1. CASE v # w
      <3>1. tx'[v] = tx[v] /\ RefreshHeld(tx[v]) /\ ConnectHeld(tx[v])
        BY <1>1, <1>4, <2>1
      <3> QED BY <1>2, <3>1 DEF RefreshHeld, ConnectHeld
    <2>2. CASE v = w
      <3>1. tx'[v] = r
        BY <1>1, <2>2
      <3>2. RefreshHeld(tx[v])'
        <4>1. \A p \in HeldTokens : p \in RefreshTokens \cup {NoToken}
          BY DEF GrantInv, HeldTrue
        <4> QED BY <3>1, <4>1 DEF RefreshHeld, Refreshing
      <3>3. ConnectHeld(tx[v])'
        BY <1>4, <2>2, <3>1 DEF GrantInv, GrantTypes, ConnectHeld, Connecting
      <3> QED BY <3>2, <3>3
    <2> QED BY <2>1, <2>2
  <1>6. OneRefresher'
    BY <1>1 DEF GrantInv, OneRefresher
  <1>7. OwnNonces'
    <2>1. ASSUME NEW v \in Workers \ {w}, Connecting(tx[v]), r.op = "consumed"
          PROVE  r.by \cap tx[v].by = {}
      <3>1. CASE tx[w].op = "consumed" /\ r.by = tx[w].by
        BY <2>1, <3>1 DEF GrantInv, OwnNonces, Connecting
      <3>2. CASE \E n \in nonces' \ nonces : r.by = {<<n, 1>>}
        BY <1>4, <2>1, <3>2 DEF ConnectHeld
      <3> QED BY <2>1, <3>1, <3>2
    <2> SUFFICES ASSUME NEW u \in Workers, NEW v \in Workers, u # v,
                        Connecting(tx'[u]), Connecting(tx'[v])
                 PROVE  tx'[u].by \cap tx'[v].by = {}
      BY DEF OwnNonces
    <2>2. CASE u = w
      BY <1>1, <2>1, <2>2 DEF Connecting
    <2>3. CASE v = w
      BY <1>1, <2>1, <2>3 DEF Connecting
    <2>4. CASE u # w /\ v # w
      BY <1>1, <2>4 DEF GrantInv, OwnNonces
    <2> QED BY <2>2, <2>3, <2>4
  <1>8. NoTokenYet'
    <2> SUFFICES ASSUME row'.phase # "gone", row.refresh = NoToken
                 PROVE  /\ spoiled = {} /\ HeldTokens' = {NoToken}
                        /\ \A a \in accepted : \E v \in Workers :
                               tx'[v].op = "exchanged" /\ a \in tx'[v].seen
      BY DEF NoTokenYet
    <2>1. /\ spoiled = {} /\ HeldTokens = {NoToken}
          /\ \A a \in accepted : \E v \in Workers : tx[v].op = "exchanged" /\ a \in tx[v].seen
      BY DEF GrantInv, NoTokenYet
    <2>2. HeldTokens' = {NoToken}
      BY <1>2, <2>1 DEF HeldTokens
    <2> QED BY <1>1, <2>1, <2>2
  <1>9. TokenKept'
    <2> SUFFICES ASSUME row.refresh # NoToken
                 PROVE  /\ row'.phase \in Live
                        /\ \/ row.refresh \in accepted \cup spoiled
                           \/ \E v \in Workers : tx'[v].op = "rotated" /\ row.refresh \in tx'[v].by
      BY DEF TokenKept
    <2> QED BY <1>1 DEF GrantInv, TokenKept
  <1> QED BY <1>3, <1>5, <1>6, <1>7, <1>8, <1>9 DEF GrantInv, GrantWork

\* A sweep holds the row locked, which is there and does not have its marker.
Sweeps(q) == q.op \in {"scanned", "emitted"}
SweepHeld(q) ==
    Sweeps(q) =>
        /\ q.n \in ExpiryKinds /\ q.open /\ q.on = 0 /\ q.by = {} /\ q.seen = {}
        /\ row.phase # "gone" /\ q.n \notin row.marks

OneSweeper == \A v, w \in Workers : Sweeps(tx[v]) /\ Sweeps(tx[w]) => v = w

\* Without a marker, and with no sweep about to write it, every event announced lost its own.
EventsCounted ==
    /\ announced \in [ExpiryKinds -> Nat] /\ lapses \in [ExpiryKinds -> 0..MaxLapses]
    /\ \A k \in ExpiryKinds :
          /\ announced[k] <= 1 + lapses[k]
          /\ /\ row.phase # "gone" /\ k \notin row.marks
             /\ ~(\E w \in Workers : tx[w].op = "emitted" /\ tx[w].n = k)
             => announced[k] <= lapses[k]

SweepInv == (\A w \in Workers : SweepHeld(tx[w])) /\ OneSweeper /\ EventsCounted

\* The row ages, or is deleted.
LEMMA GrantRowKeeps ==
    ASSUME GrantInv, DatabaseInv, db' = db, Age \/ \E w \in Workers : DeleteCredential(w)
    PROVE  GrantInv' /\ DatabaseInv' /\ Within(CredentialOps)
  <1>1. tx' = tx /\ UNCHANGED <<accepted, exchanged, nonces, spoiled>>
    BY DEF Age, DeleteCredential
  <1>2. DatabaseInv' /\ Within(CredentialOps)
    BY <1>1, StutterKeepsDatabase DEF Within
  <1>3. CASE Age
    <2>1. PICK p \in Live : row.phase \in Live /\ row' = [row EXCEPT !.phase = p]
      <3>1. PICK i \in 1..3 : row.phase = Phases[i] /\ row' = [row EXCEPT !.phase = Phases[i + 1]]
        BY <1>3 DEF Age
      <3>2. Phases[i] \in Live /\ Phases[i + 1] \in Live
        BY DEF Live
      <3> QED BY <3>1, <3>2
    <2>2. /\ row'.refresh = row.refresh /\ row'.phase \in Live /\ GrantTypes'
      BY <1>1, <2>1 DEF GrantInv, GrantTypes
    <2>3. HeldTokens' = HeldTokens
      BY <1>1, <2>2 DEF HeldTokens
    <2>4. GrantWork'
      BY <1>1, <2>2, <2>3 DEF GrantInv, GrantWork, RefreshHeld, ConnectHeld
    <2>5. row.phase # "gone"
      BY <2>1, TokenFacts
    <2>6. NoTokenYet' /\ TokenKept'
      BY <1>1, <2>2, <2>3, <2>5 DEF GrantInv, NoTokenYet, TokenKept
    <2>7. HeldTrue' /\ AcceptedTrue' /\ OneRefresher' /\ OwnNonces'
      BY <1>1, <2>3 DEF GrantInv, HeldTrue, AcceptedTrue, OneRefresher, OwnNonces
    <2> QED BY <1>2, <2>2, <2>4, <2>6, <2>7 DEF GrantInv
  <1>4. CASE \E w \in Workers : DeleteCredential(w)
    <2>1. row' = Deleted
      BY <1>4 DEF DeleteCredential
    <2>2. row'.refresh = NoToken /\ row'.phase = "gone" /\ GrantTypes'
      BY <1>1, <2>1 DEF GrantInv, GrantTypes, Deleted
    <2>3. HeldTokens' \subseteq HeldTokens \cup {NoToken}
      BY <1>1, <2>2 DEF HeldTokens
    <2>4. GrantWork'
      <3> SUFFICES ASSUME NEW v \in Workers
                   PROVE  RefreshHeld(tx[v])' /\ ConnectHeld(tx[v])'
        BY DEF GrantWork
      <3>1. RefreshHeld(tx[v]) /\ ConnectHeld(tx[v])
        BY DEF GrantInv, GrantWork
      <3>2. \A p \in RefreshTokens : Successor(p) \in accepted => Successor(p) # NoToken
        BY TokenFacts DEF GrantInv, GrantTypes
      <3>3. RefreshHeld(tx[v])'
        BY <1>1, <2>2, <3>1, <3>2 DEF RefreshHeld
      <3>4. ConnectHeld(tx[v])'
        BY <1>1, <2>3, <3>1 DEF ConnectHeld
      <3> QED BY <3>3, <3>4
    <2>5. HeldTrue'
      BY <1>1, <2>3 DEF GrantInv, HeldTrue
    <2>6. NoTokenYet' /\ TokenKept'
      BY <2>2 DEF NoTokenYet, TokenKept
    <2>7. AcceptedTrue' /\ OneRefresher' /\ OwnNonces'
      BY <1>1 DEF GrantInv, AcceptedTrue, OneRefresher, OwnNonces
    <2> QED BY <1>2, <2>2, <2>4, <2>5, <2>6, <2>7 DEF GrantInv
  <1> QED BY <1>3, <1>4

\* The steps that neither ask the provider nor store what it sent.
LEMMA GrantQuietKeeps ==
    ASSUME GrantInv, SweepInv, DatabaseInv, db' = db, NEW w \in Workers,
           \/ Resolve(w) \/ Acquire(w) \/ ConsumeNonce(w)
           \/ AbandonRefresh(w) /\ tx[w].op # "rotated"
           \/ AbandonConnection(w) /\ tx[w].op # "exchanged"
           \/ BeginSweep(w) \/ Announce(w) \/ Mark(w) \/ AbandonSweep(w)
    PROVE  GrantInv' /\ DatabaseInv' /\ Within(CredentialOps)
  <1>0. GrantTypes /\ RefreshHeld(tx[w]) /\ ConnectHeld(tx[w])
    BY DEF GrantInv, GrantWork
  <1>1. CASE Resolve(w)
    <2>1. PICK p \in HeldTokens : p = row.refresh
      BY DEF HeldTokens
    <2>2. PICK r : r = Request("resolved", 0, {p}, {}, 0, FALSE)
      OBVIOUS
    <2>3. tx[w].op = "none" /\ Turns(w, r) /\ UNCHANGED credentialTokens
      BY <1>1, <2>1, <2>2, LookTurns DEF Resolve, DatabaseInv
    <2>4. r.op = "resolved" /\ r.by = {p} /\ r.seen = {}
      BY <2>2 DEF Request
    <2>5. GrantInv'
      <3>1. GrantTypes'
        BY <1>0, <2>3 DEF GrantTypes, credentialTokens
      <3> QED BY <2>3, <2>4, <3>1, GrantTurn DEF Refreshing, Asks, credentialTokens
    <2>6. DatabaseInv'
      BY <2>2, <2>3, TurnKeepsDatabase
    <2>7. Within(CredentialOps)
      BY <2>2, <2>3, RequestWithin DEF CredentialOps
    <2> QED BY <2>5, <2>6, <2>7
  <1>2. CASE Acquire(w) /\ ~Usable
    <2>1. PICK r : r = Request("asking", tx[w].on, tx[w].by, {}, tx[w].n, TRUE)
      OBVIOUS
    <2>2. tx[w].op = "resolved" /\ MayBegin /\ Turns(w, r) /\ UNCHANGED credentialTokens
      BY <1>2, <2>1, OpenTurns DEF Acquire, DatabaseInv
    <2>3. r.op = "asking" /\ r.by = tx[w].by /\ r.seen = {}
      BY <2>1 DEF Request
    <2>4. PICK p \in HeldTokens : tx[w].by = {p}
      <3>1. PICK p : tx[w].by = {p}
        BY <1>0, <2>2 DEF RefreshHeld, Refreshing
      <3>2. p \in HeldTokens
        BY <2>2, <3>1 DEF HeldTokens, Refreshing
      <3> QED BY <3>1, <3>2
    <2>5. \A v \in Workers : ~Asks(tx[v])
      BY <1>2 DEF Acquire, Asks
    <2>6. GrantInv'
      <3>1. GrantTypes'
        BY <1>0, <2>2 DEF GrantTypes, credentialTokens
      <3> QED BY <2>2, <2>3, <2>4, <2>5, <3>1, GrantTurn DEF Refreshing, credentialTokens
    <2>7. DatabaseInv'
      BY <2>1, <2>2, TurnKeepsDatabase
    <2>8. Within(CredentialOps)
      BY <2>1, <2>2, RequestWithin DEF CredentialOps
    <2> QED BY <2>6, <2>7, <2>8
  <1>3. CASE ConsumeNonce(w)
    <2>1. PICK n \in Nonces \ nonces :
              /\ nonces' = nonces \cup {n}
              /\ tx' = [tx EXCEPT ![w] = Request("consumed", 0, {<<n, 1>>}, {}, 0, FALSE)]
      BY <1>3 DEF ConsumeNonce
    <2>2. PICK r : r = Request("consumed", 0, {<<n, 1>>}, {}, 0, FALSE)
      OBVIOUS
    <2>3. tx[w].op = "none" /\ Turns(w, r)
      BY <1>3, <2>1, <2>2, ExceptTurns DEF ConsumeNonce, DatabaseInv
    <2>4. r.op = "consumed" /\ r.by = {<<n, 1>>} /\ r.seen = {}
      BY <2>2 DEF Request
    <2>5. UNCHANGED <<row, accepted, exchanged, spoiled>>
      BY <1>3 DEF ConsumeNonce
    <2>6. GrantInv'
      <3>1. GrantTypes'
        BY <1>0, <2>1, <2>5 DEF GrantTypes
      <3> QED BY <2>1, <2>3, <2>4, <2>5, <3>1, GrantTurn DEF Refreshing, Asks
    <2>7. DatabaseInv'
      BY <2>2, <2>3, TurnKeepsDatabase
    <2>8. Within(CredentialOps)
      BY <2>2, <2>3, RequestWithin DEF CredentialOps
    <2> QED BY <2>6, <2>7, <2>8
  <1>4. CASE \/ Acquire(w) /\ Usable
             \/ AbandonRefresh(w) /\ tx[w].op # "rotated"
             \/ AbandonConnection(w) /\ tx[w].op # "exchanged"
             \/ Mark(w) \/ AbandonSweep(w)
    <2>1. /\ tx[w].op \in CredentialOps \ {"rotated", "exchanged"} /\ Turns(w, NoRequest)
          /\ Refreshing(tx[w]) \/ Connecting(tx[w]) \/ tx[w].op \in {"scanned", "emitted"}
      BY <1>4, EndTurns
         DEF Acquire, Short, AbandonRefresh, AbandonConnection, Mark, AbandonSweep, CredentialOps,
             DatabaseInv, Refreshing, Connecting
    <2>2. /\ row'.refresh = row.refresh /\ row'.phase = row.phase /\ row'.marks \subseteq ExpiryKinds
          /\ row' \in [refresh : RefreshTokens \cup {NoToken}, phase : Live \cup {"absent", "gone"},
                       marks : SUBSET ExpiryKinds]
      <3>1. CASE Mark(w)
        <4>1. tx[w].n \in ExpiryKinds
          BY <3>1 DEF SweepInv, SweepHeld, Sweeps, Mark
        <4> QED BY <1>0, <3>1, <4>1 DEF Mark, GrantTypes
      <3>2. CASE ~Mark(w)
        BY <1>0, <1>4, <3>2
           DEF Acquire, AbandonRefresh, AbandonConnection, AbandonSweep, GrantTypes, credentialTokens
      <3> QED BY <3>1, <3>2
    <2>3. UNCHANGED <<accepted, exchanged, nonces, spoiled>>
      <3>1. tx[w].op \in {"resolved", "asking", "consumed"} => tx[w].seen = {}
        BY <1>0 DEF RefreshHeld, Refreshing, ConnectHeld, Connecting
      <3>2. CASE AbandonRefresh(w) \/ AbandonConnection(w)
        BY <1>4, <2>1, <3>1, <3>2 DEF AbandonRefresh, AbandonConnection
      <3>3. CASE Acquire(w) \/ Mark(w) \/ AbandonSweep(w)
        BY <3>3 DEF Acquire, Mark, AbandonSweep, credentialTokens
      <3> QED BY <1>4, <3>2, <3>3
    <2>4. GrantTypes'
      BY <1>0, <2>2, <2>3 DEF GrantTypes
    <2>5. GrantInv'
      BY <2>1, <2>2, <2>3, <2>4, NoRequestFields, GrantTurn DEF Refreshing, Asks
    <2> QED BY <2>1, <2>5, EndKeepsDatabase, EndWithin
  <1>5. CASE BeginSweep(w)
    <2>1. PICK k \in ExpiryKinds : tx' = [tx EXCEPT ![w] = Request("scanned", 0, {}, {}, k, TRUE)]
      BY <1>5 DEF BeginSweep
    <2>2. PICK r : r = Request("scanned", 0, {}, {}, k, TRUE)
      OBVIOUS
    <2>3. tx[w].op = "none" /\ MayBegin /\ Turns(w, r) /\ UNCHANGED credentialTokens
      BY <1>5, <2>1, <2>2, ExceptTurns DEF BeginSweep, DatabaseInv
    <2>4. r.op = "scanned"
      BY <2>2 DEF Request
    <2>5. GrantInv'
      <3>1. GrantTypes'
        BY <1>0, <2>3 DEF GrantTypes, credentialTokens
      <3> QED BY <2>3, <2>4, <3>1, GrantTurn DEF Refreshing, Asks, credentialTokens
    <2>6. DatabaseInv'
      BY <2>2, <2>3, TurnKeepsDatabase
    <2>7. Within(CredentialOps)
      BY <2>2, <2>3, RequestWithin DEF CredentialOps
    <2> QED BY <2>5, <2>6, <2>7
  <1>6. CASE Announce(w)
    <2>1. PICK r : r = Request("emitted", tx[w].on, tx[w].by, tx[w].seen, tx[w].n, tx[w].open)
      OBVIOUS
    <2>2. tx[w].op = "scanned" /\ Turns(w, r) /\ UNCHANGED <<row, accepted, exchanged, nonces, spoiled>>
      BY <1>6, <2>1, OpTurns DEF Announce, DatabaseInv
    <2>3. r.op = "emitted"
      BY <2>1 DEF Request
    <2>4. GrantInv'
      <3>1. GrantTypes'
        BY <1>0, <2>2 DEF GrantTypes
      <3> QED BY <2>2, <2>3, <3>1, GrantTurn DEF Refreshing, Asks
    <2>5. tx[w].open \in BOOLEAN
      BY DEF DatabaseInv, TxShape
    <2>6. DatabaseInv'
      BY <2>1, <2>2, <2>5, TurnKeepsDatabase
    <2>7. Within(CredentialOps)
      BY <2>1, <2>2, RequestWithin DEF CredentialOps
    <2> QED BY <2>4, <2>6, <2>7
  <1>7. Acquire(w) => (Acquire(w) /\ Usable) \/ (Acquire(w) /\ ~Usable)
    OBVIOUS
  <1> QED BY <1>1, <1>2, <1>3, <1>4, <1>5, <1>6, <1>7

\* What is held, where a worker turns that reads no token anew.
LEMMA HeldTurn ==
    ASSUME NEW w \in Workers, NEW r, Turns(w, r),
           Refreshing(r) => Refreshing(tx[w]) /\ r.by = tx[w].by
    PROVE  HeldTokens' \subseteq HeldTokens \cup {row'.refresh}
  <1> SUFFICES ASSUME NEW t \in HeldTokens', t # row'.refresh
               PROVE  t \in HeldTokens
    OBVIOUS
  <1>1. PICK v \in Workers : Refreshing(tx'[v]) /\ t \in tx'[v].by
    BY DEF HeldTokens
  <1>2. CASE v = w
    BY <1>1, <1>2 DEF HeldTokens, Turns
  <1>3. CASE v # w
    BY <1>1, <1>3 DEF HeldTokens, Turns
  <1> QED BY <1>2, <1>3

LEMMA HeldFacts ==
    ASSUME GrantInv
    PROVE  /\ row.refresh \in HeldTokens
           /\ \A v \in Workers : Refreshing(tx[v]) => tx[v].by \subseteq HeldTokens
           /\ \A t \in HeldTokens : t # NoToken =>
                  /\ t \in RefreshTokens /\ t[1] \in exchanged /\ t[2] \in Nat
                  /\ \A a \in accepted : a[1] = t[1] => t[2] <= a[2]
           /\ \A a \in accepted : a \in RefreshTokens /\ a[1] \in exchanged /\ a[2] \in Nat
           /\ \A v \in Workers : RefreshHeld(tx[v]) /\ ConnectHeld(tx[v])
  <1>1. row.refresh \in HeldTokens
    BY DEF HeldTokens
  <1>2. \A v \in Workers : Refreshing(tx[v]) => tx[v].by \subseteq HeldTokens
    BY DEF HeldTokens
  <1>3. \A t \in HeldTokens : t # NoToken =>
            /\ t \in RefreshTokens /\ t[1] \in exchanged /\ t[2] \in Nat
            /\ \A a \in accepted : a[1] = t[1] => t[2] <= a[2]
    BY TokenFacts DEF GrantInv, HeldTrue
  <1>4. \A a \in accepted : a \in RefreshTokens /\ a[1] \in exchanged /\ a[2] \in Nat
    BY TokenFacts DEF GrantInv, GrantTypes, AcceptedTrue
  <1> QED BY <1>1, <1>2, <1>3, <1>4 DEF GrantInv, GrantWork

\* Who is being answered presents a token; a row without one would not have given it.
LEMMA PresentedFacts ==
    ASSUME GrantInv, NEW w \in Workers, NEW p, p # NoToken, Refreshing(tx[w]), tx[w].by = {p}
    PROVE  /\ p \in HeldTokens /\ p \in RefreshTokens /\ p[1] \in exchanged /\ p[2] \in Nat
           /\ row.refresh = NoToken => row.phase = "gone"
           /\ Successor(p)[1] = p[1] /\ Successor(p)[2] = p[2] + 1 /\ Successor(p) # p
  <1>1. p \in HeldTokens
    BY HeldFacts
  <1>2. p \in RefreshTokens /\ p[1] \in exchanged /\ p[2] \in Nat
    BY <1>1, HeldFacts
  <1>3. row.refresh = NoToken => row.phase = "gone"
    BY <1>1 DEF GrantInv, NoTokenYet
  <1> QED BY <1>1, <1>2, <1>3, TokenFacts

\* The provider answers a refresh.
LEMMA RotateKeeps ==
    ASSUME GrantInv, DatabaseInv, db' = db, NEW w \in Workers, Rotate(w)
    PROVE  GrantInv' /\ DatabaseInv' /\ Within(CredentialOps)
  <1>1. /\ tx[w].op = "asking" /\ Presented(w) \in accepted
        /\ UNCHANGED <<row, exchanged, nonces, spoiled>>
    BY DEF Rotate
  <1>2. PICK p \in RefreshTokens \cup {NoToken} : tx[w].by = {p} /\ tx[w].seen = {}
    BY <1>1, HeldFacts DEF RefreshHeld, Refreshing
  <1>3. Presented(w) = p /\ p \in accepted /\ p # NoToken
    BY <1>1, <1>2, HeldFacts, TokenFacts DEF Presented
  <1>4. /\ p \in HeldTokens /\ p \in RefreshTokens /\ p[1] \in exchanged /\ p[2] \in Nat
        /\ row.refresh = NoToken => row.phase = "gone"
        /\ Successor(p)[1] = p[1] /\ Successor(p)[2] = p[2] + 1 /\ Successor(p) # p
    BY <1>1, <1>2, <1>3, PresentedFacts DEF Refreshing
  <1>5. PICK seen :
            /\ \/ /\ Successor(p) \in RefreshTokens /\ seen = {Successor(p)}
                  /\ accepted' = (accepted \ {p}) \cup {Successor(p)}
               \/ seen = {} /\ accepted' = accepted
            /\ Turns(w, Request("rotated", tx[w].on, tx[w].by, seen, tx[w].n, tx[w].open))
    <2>1. CASE /\ Successor(p) \in RefreshTokens
               /\ accepted' = (accepted \ {p}) \cup {Successor(p)}
               /\ tx' = [tx EXCEPT ![w].op = "rotated", ![w].seen = {Successor(p)}]
      <3>1. Turns(w, Request("rotated", tx[w].on, tx[w].by, {Successor(p)}, tx[w].n, tx[w].open))
        BY <2>1, OpSeenTurns DEF DatabaseInv
      <3> QED BY <2>1, <3>1
    <2>2. CASE tx' = [tx EXCEPT ![w].op = "rotated"] /\ UNCHANGED accepted
      <3>1. Turns(w, Request("rotated", tx[w].on, tx[w].by, tx[w].seen, tx[w].n, tx[w].open))
        BY <2>2, OpTurns DEF DatabaseInv
      <3> QED BY <1>2, <2>2, <3>1
    <2> QED BY <1>3, <2>1, <2>2 DEF Rotate
  <1>6. PICK r : r = Request("rotated", tx[w].on, tx[w].by, seen, tx[w].n, tx[w].open)
    OBVIOUS
  <1>7. Turns(w, r) /\ r.op = "rotated" /\ r.by = {p} /\ r.seen = seen
    BY <1>2, <1>5, <1>6 DEF Request
  <1>8. \A v \in Workers : tx'[v] = IF v = w THEN r ELSE tx[v]
    BY <1>7 DEF Turns
  <1>9. HeldTokens' \subseteq HeldTokens
    <2>1. HeldTokens' \subseteq HeldTokens \cup {row'.refresh}
      BY <1>1, <1>2, <1>7, HeldTurn DEF Refreshing
    <2> QED BY <1>1, <2>1, HeldFacts
  <1>10. \A t \in HeldTokens : t # NoToken /\ t[1] = p[1] => t[2] <= p[2] /\ t[2] \in Nat
    BY <1>3, HeldFacts
  <1>11. GrantTypes' /\ AcceptedTrue'
    BY <1>1, <1>3, <1>4, <1>5 DEF GrantInv, GrantTypes, AcceptedTrue
  <1>12. HeldTrue'
    <2> SUFFICES ASSUME NEW t \in HeldTokens, t # NoToken, NEW a \in accepted', a[1] = t[1]
                 PROVE  t[2] <= a[2]
      BY <1>1, <1>9, HeldFacts DEF HeldTrue
    <2>1. CASE a \in accepted
      BY <2>1, HeldFacts
    <2>2. CASE a = Successor(p)
      BY <1>4, <1>10, <2>2
    <2> QED BY <1>5, <2>1, <2>2
  <1>13. row.refresh # Successor(p)
    <2>1. Successor(p) # NoToken
      BY DEF Successor, NoToken
    <2>2. PICK t : t = row.refresh
      OBVIOUS
    <2>3. t \in HeldTokens
      BY <2>2, HeldFacts
    <2>4. t # NoToken /\ t[1] = p[1] => t[2] <= p[2] /\ t[2] \in Nat
      BY <1>10, <2>3
    <2>5. t # Successor(p)
      BY <1>4, <2>1, <2>4
    <2> QED BY <2>2, <2>5
  <1>14. ASSUME NEW v \in Workers
         PROVE  RefreshHeld(tx[v])' /\ ConnectHeld(tx[v])'
    <2>1. CASE v = w
      <3>1. tx'[v] = r
        BY <1>8, <2>1
      <3>2. RefreshHeld(tx[v])'
        BY <1>1, <1>3, <1>5, <1>7, <1>13, <3>1 DEF RefreshHeld
      <3> QED BY <1>7, <3>1, <3>2 DEF ConnectHeld, Connecting
    <2>2. CASE v # w
      <3>1. tx'[v] = tx[v] /\ tx[v].op # "rotated" /\ RefreshHeld(tx[v]) /\ ConnectHeld(tx[v])
        BY <1>1, <1>8, <2>2, HeldFacts DEF GrantInv, OneRefresher, Asks
      <3>2. RefreshHeld(tx[v])'
        BY <1>1, <3>1 DEF RefreshHeld
      <3>3. ASSUME Connecting(tx[v])
            PROVE  ConnectHeld(tx[v])'
        <4>1. PICK n \in nonces :
                  /\ tx[v].by = {<<n, 1>>}
                  /\ tx[v].op = "consumed" => n \notin exchanged /\ tx[v].seen = {}
                  /\ tx[v].op = "exchanged" =>
                        /\ n \in exchanged /\ tx[v].seen \subseteq {<<n, 1>>} /\ tx[v].seen \subseteq accepted
                        /\ \A t \in HeldTokens : t # NoToken => t[1] # n
          BY <3>1, <3>3 DEF ConnectHeld
        <4>2. tx[v].op = "exchanged" => p # <<n, 1>>
          BY <1>3, <1>4, <4>1
        <4>3. tx[v].op = "exchanged" => tx[v].seen \subseteq accepted'
          BY <1>5, <4>1, <4>2
        <4> QED BY <1>1, <1>9, <3>1, <4>1, <4>3 DEF ConnectHeld
      <3> QED BY <3>1, <3>2, <3>3 DEF ConnectHeld
    <2> QED BY <2>1, <2>2
  <1>15. OneRefresher' /\ OwnNonces'
    BY <1>1, <1>7, <1>8 DEF GrantInv, OneRefresher, OwnNonces, Asks, Connecting
  <1>16. NoTokenYet'
    BY <1>1, <1>4 DEF NoTokenYet
  <1>17. TokenKept'
    <2> SUFFICES ASSUME row.refresh # NoToken
                 PROVE  /\ row.phase \in Live
                        /\ \/ row.refresh \in accepted' \cup spoiled
                           \/ \E v \in Workers : tx'[v].op = "rotated" /\ row.refresh \in tx'[v].by
      BY <1>1 DEF TokenKept
    <2>1. /\ row.phase \in Live
          /\ \/ row.refresh \in accepted \cup spoiled
             \/ \E v \in Workers : tx[v].op = "rotated" /\ row.refresh \in tx[v].by
      BY DEF GrantInv, TokenKept
    <2>2. CASE row.refresh = p
      BY <1>7, <1>8, <2>1, <2>2
    <2>3. CASE row.refresh # p
      BY <1>1, <1>5, <1>8, <2>1, <2>3
    <2> QED BY <2>2, <2>3
  <1>18. GrantInv'
    BY <1>11, <1>12, <1>14, <1>15, <1>16, <1>17 DEF GrantInv, GrantWork
  <1>19. tx[w].open \in BOOLEAN
    BY DEF DatabaseInv, TxShape
  <1>20. DatabaseInv'
    BY <1>6, <1>7, <1>19, TurnKeepsDatabase
  <1>21. Within(CredentialOps)
    BY <1>1, <1>6, <1>7, RequestWithin DEF CredentialOps
  <1> QED BY <1>18, <1>20, <1>21

\* The answer of a refresh is stored, or lost: the connection goes on for the others.
LEMMA StoreRefreshKeeps ==
    ASSUME GrantInv, DatabaseInv, db' = db, NEW w \in Workers,
           StoreRefresh(w) \/ (AbandonRefresh(w) /\ tx[w].op = "rotated")
    PROVE  GrantInv' /\ DatabaseInv' /\ Within(CredentialOps)
  <1>1. tx[w].op = "rotated" /\ Turns(w, NoRequest) /\ UNCHANGED <<exchanged, nonces>>
    BY EndTurns DEF StoreRefresh, AbandonRefresh, DatabaseInv
  <1>2. PICK p \in RefreshTokens \cup {NoToken} :
            /\ tx[w].by = {p} /\ p # NoToken
            /\ \/ tx[w].seen = {} /\ p \in accepted
               \/ /\ tx[w].seen = {Successor(p)}
                  /\ Successor(p) \in accepted /\ row.refresh # Successor(p)
    BY <1>1, HeldFacts DEF RefreshHeld, Refreshing
  <1>3. PICK s : s = Successor(p)
    OBVIOUS
  <1>4. /\ p \in HeldTokens /\ p \in RefreshTokens /\ p[1] \in exchanged /\ p[2] \in Nat
        /\ row.refresh = NoToken => row.phase = "gone"
        /\ s[1] = p[1] /\ s[2] = p[2] + 1 /\ s # p
    BY <1>1, <1>2, <1>3, PresentedFacts DEF Refreshing
  <1>5. \A v \in Workers : tx'[v] = IF v = w THEN NoRequest ELSE tx[v]
    BY <1>1 DEF Turns
  <1>6. HeldTokens' \subseteq HeldTokens \cup {row'.refresh}
    BY <1>1, HeldTurn, NoRequestFields DEF Refreshing
  <1>7. \A v \in Workers \ {w} : tx[v].op # "rotated"
    BY <1>1 DEF GrantInv, OneRefresher, Asks
  \* The row, and what the provider accepts, afterwards.
  <1>8. /\ row' \in [refresh : RefreshTokens \cup {NoToken}, phase : Live \cup {"absent", "gone"},
                     marks : SUBSET ExpiryKinds]
        /\ row'.refresh = row.refresh \/ (tx[w].seen = {s} /\ row'.refresh = s /\ row'.phase \in Live)
        /\ row.phase \in Live => row'.phase \in Live
        /\ row.phase \notin Live => row' = row
        /\ \/ accepted' = accepted /\ spoiled' = spoiled /\ (row'.refresh = row.refresh /\ row.phase \in Live => tx[w].seen = {})
           \/ /\ tx[w].seen = {s} /\ row' = row /\ accepted' = accepted \ {s}
              /\ spoiled' = spoiled \cup {p}
    <2>1. row \in [refresh : RefreshTokens \cup {NoToken}, phase : Live \cup {"absent", "gone"},
                   marks : SUBSET ExpiryKinds]
      BY DEF GrantInv, GrantTypes
    <2>2. CASE StoreRefresh(w) /\ row.phase \notin Live
      BY <2>1, <2>2 DEF StoreRefresh
    <2>3. CASE StoreRefresh(w) /\ row.phase \in Live
      <3>1. PICK ph \in Live : row' = Updated(tx[w].seen, ph)
        BY <2>3 DEF StoreRefresh
      <3>2. CASE tx[w].seen = {}
        <4>1. row' = [row EXCEPT !.phase = ph]
          BY <2>1, <3>1, <3>2 DEF Updated
        <4> QED BY <2>1, <2>3, <3>2, <4>1 DEF StoreRefresh
      <3>3. CASE tx[w].seen = {s} /\ s \in accepted
        <4>1. row' = [row EXCEPT !.refresh = s, !.phase = ph]
          BY <2>1, <3>1, <3>3 DEF Updated
        <4>2. s \in RefreshTokens
          BY <3>3, HeldFacts
        <4>3. row.refresh # s
          BY <1>2, <1>3, <3>3
        <4> QED BY <2>1, <2>3, <3>3, <4>1, <4>2, <4>3 DEF StoreRefresh
      <3> QED BY <1>2, <1>3, <3>2, <3>3
    <2>4. CASE AbandonRefresh(w)
      BY <1>2, <1>3, <2>1, <2>4 DEF AbandonRefresh
    <2> QED BY <2>2, <2>3, <2>4
  <1>9. tx[w].seen = {s} => /\ s \in accepted /\ s # row.refresh /\ s \in RefreshTokens
                            /\ \A a \in accepted : a[1] = s[1] => a = s
    BY <1>2, <1>3, HeldFacts DEF GrantInv, AcceptedTrue
  <1>10. GrantTypes' /\ AcceptedTrue'
    BY <1>1, <1>4, <1>8 DEF GrantInv, GrantTypes, AcceptedTrue
  <1>11. accepted' \subseteq accepted
    BY <1>8
  <1>12. HeldTrue'
    <2> SUFFICES ASSUME NEW t \in HeldTokens \cup {row'.refresh}, t # NoToken
                 PROVE  /\ t \in RefreshTokens /\ t[1] \in exchanged
                        /\ \A a \in accepted : a[1] = t[1] => t[2] <= a[2]
      BY <1>1, <1>6, <1>11 DEF HeldTrue
    <2>1. CASE t \in HeldTokens
      BY <2>1, HeldFacts
    <2>2. CASE t = s /\ tx[w].seen = {s}
      BY <1>4, <1>9, <2>2
    <2> QED BY <1>8, <2>1, <2>2, HeldFacts
  <1>13. ASSUME NEW v \in Workers
         PROVE  RefreshHeld(tx[v])' /\ ConnectHeld(tx[v])'
    <2>1. CASE v = w
      BY <1>5, <2>1, NoRequestFields DEF RefreshHeld, ConnectHeld, Refreshing, Connecting
    <2>2. CASE v # w
      <3>1. tx'[v] = tx[v] /\ tx[v].op # "rotated" /\ RefreshHeld(tx[v]) /\ ConnectHeld(tx[v])
        BY <1>5, <1>7, <2>2, HeldFacts
      <3>2. RefreshHeld(tx[v])'
        BY <3>1 DEF RefreshHeld
      <3>3. ASSUME Connecting(tx[v])
            PROVE  ConnectHeld(tx[v])'
        <4>1. PICK n \in nonces :
                  /\ tx[v].by = {<<n, 1>>}
                  /\ tx[v].op = "consumed" => n \notin exchanged /\ tx[v].seen = {}
                  /\ tx[v].op = "exchanged" =>
                        /\ n \in exchanged /\ tx[v].seen \subseteq {<<n, 1>>} /\ tx[v].seen \subseteq accepted
                        /\ \A t \in HeldTokens : t # NoToken => t[1] # n
          BY <3>1, <3>3 DEF ConnectHeld
        <4>2. ASSUME tx[v].op = "exchanged"
              PROVE  /\ tx[v].seen \subseteq accepted'
                     /\ \A t \in HeldTokens' : t # NoToken => t[1] # n
          <5>1. s[1] # n /\ s # <<n, 1>>
            BY <1>2, <1>4, <4>1, <4>2
          <5>2. tx[v].seen \subseteq accepted'
            BY <1>8, <4>1, <4>2, <5>1
          <5>3. ASSUME NEW t \in HeldTokens', t # NoToken
                PROVE  t[1] # n
            BY <1>6, <1>8, <4>1, <4>2, <5>1, <5>3, HeldFacts
          <5> QED BY <5>2, <5>3
        <4> QED BY <1>1, <3>1, <4>1, <4>2 DEF ConnectHeld
      <3> QED BY <3>1, <3>2, <3>3 DEF ConnectHeld
    <2> QED BY <2>1, <2>2
  <1>14. OneRefresher' /\ OwnNonces'
    BY <1>5, NoRequestFields DEF GrantInv, OneRefresher, OwnNonces, Asks, Connecting
  <1>15. NoTokenYet'
    <2>1. row'.refresh = NoToken => row.refresh = NoToken
      BY <1>8, <1>9, TokenFacts
    <2>2. row.refresh = NoToken => row' = row
      BY <1>4, <1>8, TokenFacts
    <2> QED BY <1>4, <2>1, <2>2 DEF NoTokenYet
  <1>16. TokenKept'
    <2> SUFFICES ASSUME row'.refresh # NoToken
                 PROVE  row'.phase \in Live /\ row'.refresh \in accepted' \cup spoiled'
      BY DEF TokenKept
    <2>1. CASE row'.refresh = s /\ s # row.refresh
      BY <1>8, <1>9, <2>1
    <2>2. CASE row'.refresh = row.refresh
      <3>1. /\ row.phase \in Live
            /\ row.refresh \in accepted \cup spoiled \cup {p}
        BY <1>2, <1>7, <2>2 DEF GrantInv, TokenKept
      <3>2. tx[w].seen = {} => p \in accepted
        BY <1>2
      <3> QED BY <1>8, <1>9, <2>2, <3>1, <3>2
    <2> QED BY <1>8, <1>9, <2>1, <2>2
  <1>17. GrantInv'
    BY <1>10, <1>12, <1>13, <1>14, <1>15, <1>16 DEF GrantInv, GrantWork
  <1> QED BY <1>1, <1>17, EndKeepsDatabase, EndWithin DEF CredentialOps

\* Others who connect do so with another nonce, whose tokens are of another grant.
LEMMA ConnectFacts ==
    ASSUME GrantInv, NEW w \in Workers, NEW n \in nonces, Connecting(tx[w]), tx[w].by = {<<n, 1>>}
    PROVE  \A v \in Workers \ {w} : Connecting(tx[v]) =>
               \E m \in nonces \ {n} :
                   /\ tx[v].by = {<<m, 1>>}
                   /\ tx[v].op = "consumed" => m \notin exchanged /\ tx[v].seen = {}
                   /\ tx[v].op = "exchanged" =>
                         /\ m \in exchanged /\ tx[v].seen \subseteq {<<m, 1>>}
                         /\ tx[v].seen \subseteq accepted
                         /\ \A t \in HeldTokens : t # NoToken => t[1] # m
  <1> SUFFICES ASSUME NEW v \in Workers \ {w}, Connecting(tx[v])
               PROVE  \E m \in nonces \ {n} :
                          /\ tx[v].by = {<<m, 1>>}
                          /\ tx[v].op = "consumed" => m \notin exchanged /\ tx[v].seen = {}
                          /\ tx[v].op = "exchanged" =>
                                /\ m \in exchanged /\ tx[v].seen \subseteq {<<m, 1>>}
                                /\ tx[v].seen \subseteq accepted
                                /\ \A t \in HeldTokens : t # NoToken => t[1] # m
    OBVIOUS
  <1>1. ConnectHeld(tx[v]) /\ tx[v].by \cap tx[w].by = {}
    BY HeldFacts DEF GrantInv, OwnNonces
  <1>2. PICK m \in nonces :
            /\ tx[v].by = {<<m, 1>>}
            /\ tx[v].op = "consumed" => m \notin exchanged /\ tx[v].seen = {}
            /\ tx[v].op = "exchanged" =>
                  /\ m \in exchanged /\ tx[v].seen \subseteq {<<m, 1>>}
                  /\ tx[v].seen \subseteq accepted
                  /\ \A t \in HeldTokens : t # NoToken => t[1] # m
    BY <1>1 DEF ConnectHeld
  <1>3. m # n
    BY <1>1, <1>2
  <1> QED BY <1>2, <1>3

\* The provider exchanges the code of a connection.
LEMMA ExchangeKeeps ==
    ASSUME GrantInv, DatabaseInv, db' = db, NEW w \in Workers, Exchange(w)
    PROVE  GrantInv' /\ DatabaseInv' /\ Within(CredentialOps)
  <1>1. tx[w].op = "consumed" /\ UNCHANGED <<row, nonces, spoiled>>
    BY DEF Exchange
  <1>2. PICK n \in nonces : tx[w].by = {<<n, 1>>} /\ n \notin exchanged /\ tx[w].seen = {}
    BY <1>1, HeldFacts DEF ConnectHeld, Connecting
  <1>3. PICK t : t = <<n, 1>>
    OBVIOUS
  <1>4. Presented(w) = t /\ t[1] = n /\ t[2] = 1 /\ t \in RefreshTokens /\ t # NoToken
    BY <1>2, <1>3, TokenFacts DEF Presented, GrantInv, GrantTypes
  <1>5. /\ exchanged' = exchanged \cup {n}
        /\ \E sent \in {{t}, {}} :
              /\ accepted' = accepted \cup sent
              /\ tx' = [tx EXCEPT ![w].op = "exchanged", ![w].seen = sent]
    BY <1>2, <1>4 DEF Exchange
  <1>6. PICK sent \in {{t}, {}} :
            /\ accepted' = accepted \cup sent
            /\ tx' = [tx EXCEPT ![w].op = "exchanged", ![w].seen = sent]
    BY <1>5
  <1>7. PICK r : r = Request("exchanged", tx[w].on, tx[w].by, sent, tx[w].n, tx[w].open)
    OBVIOUS
  <1>8. Turns(w, r) /\ r.op = "exchanged" /\ r.by = {t} /\ r.seen = sent
    BY <1>2, <1>3, <1>6, <1>7, OpSeenTurns DEF Request, DatabaseInv
  <1>9. \A v \in Workers : tx'[v] = IF v = w THEN r ELSE tx[v]
    BY <1>8 DEF Turns
  <1>10. HeldTokens' \subseteq HeldTokens
    <2>1. HeldTokens' \subseteq HeldTokens \cup {row'.refresh}
      BY <1>8, HeldTurn DEF Refreshing
    <2> QED BY <1>1, <2>1, HeldFacts
  <1>11. \A u \in HeldTokens : u # NoToken => u[1] # n
    BY <1>2, HeldFacts
  <1>12. \A a \in accepted : a[1] # n
    BY <1>2, HeldFacts
  <1>13. GrantTypes' /\ AcceptedTrue'
    BY <1>1, <1>4, <1>5, <1>6, <1>12 DEF GrantInv, GrantTypes, AcceptedTrue
  <1>14. HeldTrue'
    <2> SUFFICES ASSUME NEW u \in HeldTokens, u # NoToken
                 PROVE  /\ u \in RefreshTokens /\ u[1] \in exchanged'
                        /\ \A a \in accepted' : a[1] = u[1] => u[2] <= a[2]
      BY <1>10 DEF HeldTrue
    <2> QED BY <1>4, <1>5, <1>6, <1>11, HeldFacts
  <1>15. ASSUME NEW v \in Workers
         PROVE  RefreshHeld(tx[v])' /\ ConnectHeld(tx[v])'
    <2>1. CASE v = w
      <3>1. tx'[v] = r
        BY <1>9, <2>1
      <3>2. ConnectHeld(tx[v])'
        <4>1. sent \subseteq {<<n, 1>>} /\ sent \subseteq accepted'
          BY <1>3, <1>6
        <4>2. n \in nonces' /\ n \in exchanged' /\ r.by = {<<n, 1>>}
          BY <1>1, <1>3, <1>5, <1>8
        <4>3. \A u \in HeldTokens' : u # NoToken => u[1] # n
          BY <1>10, <1>11
        <4> QED BY <1>8, <3>1, <4>1, <4>2, <4>3 DEF ConnectHeld
      <3> QED BY <1>8, <3>1, <3>2 DEF RefreshHeld, Refreshing
    <2>2. CASE v # w
      <3>1. tx'[v] = tx[v] /\ RefreshHeld(tx[v])
        BY <1>9, <2>2, HeldFacts
      <3>2. RefreshHeld(tx[v])'
        BY <1>1, <1>6, <3>1 DEF RefreshHeld
      <3>3. ASSUME Connecting(tx[v])
            PROVE  ConnectHeld(tx[v])'
        <4>1. PICK m \in nonces \ {n} :
                  /\ tx[v].by = {<<m, 1>>}
                  /\ tx[v].op = "consumed" => m \notin exchanged /\ tx[v].seen = {}
                  /\ tx[v].op = "exchanged" =>
                        /\ m \in exchanged /\ tx[v].seen \subseteq {<<m, 1>>}
                        /\ tx[v].seen \subseteq accepted
                        /\ \A u \in HeldTokens : u # NoToken => u[1] # m
          BY <1>1, <1>2, <2>2, <3>3, ConnectFacts DEF Connecting
        <4> QED BY <1>1, <1>5, <1>6, <1>10, <3>1, <4>1 DEF ConnectHeld
      <3> QED BY <3>1, <3>2, <3>3 DEF ConnectHeld
    <2> QED BY <2>1, <2>2
  <1>16. OneRefresher'
    BY <1>8, <1>9 DEF GrantInv, OneRefresher, Asks
  <1>17. OwnNonces'
    <2>1. \A v \in Workers : /\ Connecting(tx'[v]) => Connecting(tx[v])
                             /\ Connecting(tx'[v]) => tx'[v].by = tx[v].by
      BY <1>1, <1>2, <1>3, <1>8, <1>9 DEF Connecting
    <2> QED BY <2>1 DEF GrantInv, OwnNonces
  <1>18. NoTokenYet'
    <2> SUFFICES ASSUME row.phase # "gone", row.refresh = NoToken
                 PROVE  /\ spoiled = {} /\ HeldTokens' = {NoToken}
                        /\ \A a \in accepted' : \E v \in Workers :
                               tx'[v].op = "exchanged" /\ a \in tx'[v].seen
      BY <1>1 DEF NoTokenYet
    <2>1. /\ spoiled = {} /\ HeldTokens = {NoToken}
          /\ \A a \in accepted : \E v \in Workers : tx[v].op = "exchanged" /\ a \in tx[v].seen
      BY DEF GrantInv, NoTokenYet
    <2>2. HeldTokens' = {NoToken}
      BY <1>1, <1>10, <2>1 DEF HeldTokens
    <2>3. ASSUME NEW a \in accepted'
          PROVE  \E v \in Workers : tx'[v].op = "exchanged" /\ a \in tx'[v].seen
      <3>1. CASE a \in accepted
        BY <1>1, <1>9, <2>1, <3>1
      <3>2. CASE a \in sent
        BY <1>8, <1>9, <3>2
      <3> QED BY <1>6, <3>1, <3>2
    <2> QED BY <2>1, <2>2, <2>3
  <1>19. TokenKept'
    BY <1>1, <1>6, <1>9 DEF GrantInv, TokenKept
  <1>20. GrantInv'
    BY <1>13, <1>14, <1>15, <1>16, <1>17, <1>18, <1>19 DEF GrantInv, GrantWork
  <1>21. tx[w].open \in BOOLEAN
    BY DEF DatabaseInv, TxShape
  <1>22. DatabaseInv'
    BY <1>7, <1>8, <1>21, TurnKeepsDatabase
  <1>23. Within(CredentialOps)
    BY <1>1, <1>7, <1>8, RequestWithin DEF CredentialOps
  <1> QED BY <1>20, <1>22, <1>23

\* What the code was exchanged for is stored, or lost.
LEMMA StoreConnectionKeeps ==
    ASSUME GrantInv, DatabaseInv, db' = db, NEW w \in Workers,
           StoreConnection(w) \/ (AbandonConnection(w) /\ tx[w].op = "exchanged")
    PROVE  GrantInv' /\ DatabaseInv' /\ Within(CredentialOps)
  <1>1. tx[w].op = "exchanged" /\ Turns(w, NoRequest) /\ UNCHANGED <<exchanged, nonces, spoiled>>
    BY EndTurns DEF StoreConnection, AbandonConnection, DatabaseInv, Short
  <1>2. PICK n \in nonces :
            /\ tx[w].by = {<<n, 1>>} /\ n \in exchanged
            /\ tx[w].seen \subseteq {<<n, 1>>} /\ tx[w].seen \subseteq accepted
            /\ \A u \in HeldTokens : u # NoToken => u[1] # n
    BY <1>1, HeldFacts DEF ConnectHeld, Connecting
  <1>3. PICK t : t = <<n, 1>>
    OBVIOUS
  <1>4. t[1] = n /\ t[2] = 1 /\ t \in RefreshTokens /\ t # NoToken
    BY <1>3, TokenFacts DEF GrantInv, GrantTypes
  <1>5. \A v \in Workers : tx'[v] = IF v = w THEN NoRequest ELSE tx[v]
    BY <1>1 DEF Turns
  <1>6. HeldTokens' \subseteq HeldTokens \cup {row'.refresh}
    BY <1>1, HeldTurn, NoRequestFields DEF Refreshing
  <1>7. tx[w].seen = {} \/ tx[w].seen = {t}
    BY <1>2, <1>3
  <1>8. /\ row' \in [refresh : RefreshTokens \cup {NoToken}, phase : Live \cup {"absent", "gone"},
                     marks : SUBSET ExpiryKinds]
        /\ row.phase \in Live => row'.phase \in Live
        /\ \/ row'.refresh = row.refresh /\ tx[w].seen = {} /\ accepted' = accepted
              /\ (row.phase = "gone" => row'.phase = "gone")
           \/ row'.refresh = t /\ row'.phase \in Live /\ tx[w].seen = {t} /\ accepted' = accepted
           \/ row' = row /\ tx[w].seen = {t} /\ accepted' = accepted \ {t}
    <2>1. row \in [refresh : RefreshTokens \cup {NoToken}, phase : Live \cup {"absent", "gone"},
                   marks : SUBSET ExpiryKinds]
      BY DEF GrantInv, GrantTypes
    <2>2. CASE StoreConnection(w)
      <3>1. PICK ph \in Live : row' = Updated(tx[w].seen, ph)
        BY <2>2 DEF StoreConnection
      <3>2. accepted' = accepted /\ row.phase # "gone"
        BY <2>2 DEF StoreConnection
      <3>3. CASE tx[w].seen = {}
        <4>1. row' = [row EXCEPT !.phase = ph]
          BY <2>1, <3>1, <3>3 DEF Updated
        <4> QED BY <2>1, <3>2, <3>3, <4>1
      <3>4. CASE tx[w].seen = {t}
        <4>1. row' = [row EXCEPT !.refresh = t, !.phase = ph]
          BY <2>1, <3>1, <3>4 DEF Updated
        <4> QED BY <1>4, <2>1, <3>2, <3>4, <4>1
      <3> QED BY <1>7, <3>3, <3>4
    <2>3. CASE AbandonConnection(w)
      BY <1>7, <2>1, <2>3 DEF AbandonConnection
    <2> QED BY <2>2, <2>3
  <1>9. tx[w].seen = {t} => t \in accepted /\ \A a \in accepted : a[1] = n => a = t
    BY <1>2, <1>4 DEF GrantInv, AcceptedTrue
  <1>10. GrantTypes' /\ AcceptedTrue'
    BY <1>1, <1>8 DEF GrantInv, GrantTypes, AcceptedTrue
  <1>11. accepted' \subseteq accepted /\ \A a \in accepted : a[1] # n => a \in accepted'
    BY <1>4, <1>8
  <1>12. HeldTrue'
    <2> SUFFICES ASSUME NEW u \in HeldTokens \cup {row'.refresh}, u # NoToken
                 PROVE  /\ u \in RefreshTokens /\ u[1] \in exchanged
                        /\ \A a \in accepted : a[1] = u[1] => u[2] <= a[2]
      BY <1>1, <1>6, <1>11 DEF HeldTrue
    <2>1. CASE u \in HeldTokens
      BY <2>1, HeldFacts
    <2>2. CASE u = t /\ tx[w].seen = {t}
      BY <1>2, <1>4, <1>9, <2>2
    <2> QED BY <1>8, <2>1, <2>2, HeldFacts
  <1>13. ASSUME NEW v \in Workers
         PROVE  RefreshHeld(tx[v])' /\ ConnectHeld(tx[v])'
    <2>1. CASE v = w
      BY <1>5, <2>1, NoRequestFields DEF RefreshHeld, ConnectHeld, Refreshing, Connecting
    <2>2. CASE v # w
      <3>1. tx'[v] = tx[v] /\ RefreshHeld(tx[v])
        BY <1>5, <2>2, HeldFacts
      <3>2. ASSUME Refreshing(tx[v])
            PROVE  RefreshHeld(tx[v])'
        <4>1. PICK p \in RefreshTokens \cup {NoToken} :
                  /\ tx[v].by = {p}
                  /\ tx[v].op # "rotated" => tx[v].seen = {}
                  /\ tx[v].op = "rotated" =>
                        /\ p # NoToken
                        /\ \/ tx[v].seen = {} /\ p \in accepted
                           \/ /\ tx[v].seen = {Successor(p)}
                              /\ Successor(p) \in accepted /\ row.refresh # Successor(p)
          BY <3>1, <3>2 DEF RefreshHeld
        <4>2. ASSUME tx[v].op = "rotated"
              PROVE  /\ p[1] # n /\ Successor(p)[1] # n
                     /\ p \in accepted => p \in accepted'
                     /\ Successor(p) \in accepted => Successor(p) \in accepted'
          <5>1. p \in HeldTokens /\ Successor(p)[1] = p[1]
            BY <3>2, <4>1, <4>2, PresentedFacts
          <5>2. p[1] # n
            BY <1>2, <4>1, <4>2, <5>1
          <5> QED BY <1>11, <5>1, <5>2
        <4>3. ASSUME tx[v].op = "rotated", row.refresh # Successor(p)
              PROVE  row'.refresh # Successor(p)
          BY <1>4, <1>8, <4>2, <4>3
        <4> QED BY <3>1, <4>1, <4>2, <4>3 DEF RefreshHeld
      <3>3. ASSUME Connecting(tx[v])
            PROVE  ConnectHeld(tx[v])'
        <4>1. PICK m \in nonces \ {n} :
                  /\ tx[v].by = {<<m, 1>>}
                  /\ tx[v].op = "consumed" => m \notin exchanged /\ tx[v].seen = {}
                  /\ tx[v].op = "exchanged" =>
                        /\ m \in exchanged /\ tx[v].seen \subseteq {<<m, 1>>}
                        /\ tx[v].seen \subseteq accepted
                        /\ \A u \in HeldTokens : u # NoToken => u[1] # m
          BY <1>1, <1>2, <2>2, <3>3, ConnectFacts DEF Connecting
        <4>2. tx[v].op = "exchanged" => tx[v].seen \subseteq accepted'
          BY <1>3, <1>8, <4>1
        <4>3. ASSUME tx[v].op = "exchanged", NEW u \in HeldTokens', u # NoToken
              PROVE  u[1] # m
          BY <1>4, <1>6, <1>8, <4>1, <4>3, HeldFacts
        <4> QED BY <1>1, <3>1, <4>1, <4>2, <4>3 DEF ConnectHeld
      <3> QED BY <3>1, <3>2, <3>3 DEF RefreshHeld, ConnectHeld
    <2> QED BY <2>1, <2>2
  <1>14. OneRefresher' /\ OwnNonces'
    BY <1>5, NoRequestFields DEF GrantInv, OneRefresher, OwnNonces, Asks, Connecting
  <1>15. NoTokenYet'
    <2> SUFFICES ASSUME row'.phase # "gone", row'.refresh = NoToken
                 PROVE  /\ spoiled = {} /\ HeldTokens' = {NoToken}
                        /\ \A a \in accepted' : \E v \in Workers :
                               tx'[v].op = "exchanged" /\ a \in tx'[v].seen
      BY <1>1 DEF NoTokenYet
    <2>1. row.refresh = NoToken /\ row.phase # "gone" /\ (tx[w].seen = {t} => t \notin accepted')
      BY <1>4, <1>8
    <2>2. /\ spoiled = {} /\ HeldTokens = {NoToken}
          /\ \A a \in accepted : \E v \in Workers : tx[v].op = "exchanged" /\ a \in tx[v].seen
      BY <2>1 DEF GrantInv, NoTokenYet
    <2>3. HeldTokens' = {NoToken}
      BY <1>6, <2>2 DEF HeldTokens
    <2>4. ASSUME NEW a \in accepted'
          PROVE  \E v \in Workers : tx'[v].op = "exchanged" /\ a \in tx'[v].seen
      <3>1. PICK v \in Workers : tx[v].op = "exchanged" /\ a \in tx[v].seen
        BY <1>11, <2>2, <2>4
      <3>2. v # w
        BY <1>7, <2>1, <2>4, <3>1
      <3> QED BY <1>5, <3>1, <3>2
    <2> QED BY <2>2, <2>3, <2>4
  <1>16. TokenKept'
    <2> SUFFICES ASSUME row'.refresh # NoToken
                 PROVE  /\ row'.phase \in Live
                        /\ \/ row'.refresh \in accepted' \cup spoiled
                           \/ \E v \in Workers : tx'[v].op = "rotated" /\ row'.refresh \in tx'[v].by
      BY <1>1 DEF TokenKept
    <2>1. CASE row'.refresh = t /\ tx[w].seen = {t} /\ accepted' = accepted /\ row'.phase \in Live
      BY <1>9, <2>1
    <2>2. CASE row'.refresh = row.refresh
      <3>1. /\ row.phase \in Live
            /\ \/ row.refresh \in accepted \cup spoiled
               \/ \E v \in Workers : tx[v].op = "rotated" /\ row.refresh \in tx[v].by
        BY <2>2 DEF GrantInv, TokenKept
      <3>2. row.refresh \in HeldTokens
        BY HeldFacts
      <3>3. row.refresh[1] # n
        BY <1>2, <2>2, <3>2
      <3>4. row.refresh \in accepted => row.refresh \in accepted'
        BY <1>11, <3>3
      <3>5. (\E v \in Workers : tx[v].op = "rotated" /\ row.refresh \in tx[v].by) =>
                \E v \in Workers : tx'[v].op = "rotated" /\ row.refresh \in tx'[v].by
        BY <1>1, <1>5
      <3> QED BY <1>8, <2>2, <3>1, <3>4, <3>5
    <2> QED BY <1>8, <2>1, <2>2
  <1>17. GrantInv'
    BY <1>10, <1>12, <1>13, <1>14, <1>15, <1>16 DEF GrantInv, GrantWork
  <1> QED BY <1>1, <1>17, EndKeepsDatabase, EndWithin DEF CredentialOps

-----------------------------------------------------------------------------
(* The tokens of a credential: the announcements of its expiry.            *)

\* Steps that sweep nothing leave a row that is there in place, with its markers.
LEMMA SweepAside ==
    ASSUME SweepInv, UNCHANGED <<announced, lapses>>, row'.marks = row.marks,
           row.phase = "gone" <=> row'.phase = "gone",
           \A v \in Workers : Sweeps(tx[v]) \/ Sweeps(tx'[v]) => tx'[v] = tx[v]
    PROVE  SweepInv'
  <1>1. \A v \in Workers : SweepHeld(tx[v])'
    BY DEF SweepInv, SweepHeld
  <1>2. OneSweeper'
    BY DEF SweepInv, OneSweeper
  <1>3. EventsCounted'
    <2>1. \A k \in ExpiryKinds : \A v \in Workers :
              tx[v].op = "emitted" /\ tx[v].n = k => tx'[v].op = "emitted" /\ tx'[v].n = k
      BY DEF Sweeps
    <2> QED BY <2>1 DEF SweepInv, EventsCounted
  <1> QED BY <1>1, <1>2, <1>3 DEF SweepInv

\* A request that is not a sweep's turns to another that is not.
LEMMA SweepTurnAside ==
    ASSUME SweepInv, UNCHANGED <<announced, lapses>>, row'.marks = row.marks,
           row.phase = "gone" <=> row'.phase = "gone",
           NEW w \in Workers, NEW r, Turns(w, r), ~Sweeps(tx[w]), ~Sweeps(r)
    PROVE  SweepInv'
  <1>1. \A v \in Workers : Sweeps(tx[v]) \/ Sweeps(tx'[v]) => tx'[v] = tx[v]
    BY DEF Turns
  <1> QED BY <1>1, SweepAside

LEMMA SweepAsideKeeps ==
    ASSUME SweepInv, GrantInv, DatabaseInv, NEW w \in Workers,
           \/ Resolve(w) \/ Acquire(w) \/ Rotate(w) \/ StoreRefresh(w) \/ AbandonRefresh(w)
           \/ ConsumeNonce(w) \/ Exchange(w) \/ StoreConnection(w) \/ AbandonConnection(w)
    PROVE  SweepInv'
  <1>1. UNCHANGED <<announced, lapses>> /\ ~Sweeps(tx[w])
    BY DEF Resolve, Acquire, Rotate, StoreRefresh, AbandonRefresh, ConsumeNonce, Exchange,
           StoreConnection, AbandonConnection, credentialTokens, Look, Short, Open, Sweeps
  <1>2. row'.marks = row.marks /\ (row.phase = "gone" <=> row'.phase = "gone")
    <2>1. CASE UNCHANGED row
      BY <2>1
    <2>2. ASSUME NEW sent, NEW p \in Live, row' = Updated(sent, p), row.phase # "gone"
          PROVE  row'.marks = row.marks /\ (row.phase = "gone" <=> row'.phase = "gone")
      BY <2>2, TokenFacts DEF Updated, GrantInv, GrantTypes
    <2>3. CASE StoreRefresh(w) /\ row' # row
      BY <2>2, <2>3, TokenFacts DEF StoreRefresh
    <2>4. CASE StoreConnection(w)
      BY <2>2, <2>4 DEF StoreConnection
    <2> QED BY <2>1, <2>3, <2>4
         DEF Resolve, Acquire, Rotate, AbandonRefresh, ConsumeNonce, Exchange, AbandonConnection,
             credentialTokens
  <1>3. ~Sweeps(NoRequest)
    BY NoRequestFields DEF Sweeps
  <1>4. \E r : Turns(w, r) /\ ~Sweeps(r)
    <2>0. ASSUME NEW op, NEW on, NEW by, NEW seen, NEW n, NEW open, op \notin {"scanned", "emitted"},
                 Turns(w, Request(op, on, by, seen, n, open))
          PROVE  \E r : Turns(w, r) /\ ~Sweeps(r)
      <3>1. PICK r : r = Request(op, on, by, seen, n, open)
        OBVIOUS
      <3>2. Turns(w, r) /\ r.op = op
        BY <2>0, <3>1 DEF Request
      <3> QED BY <2>0, <3>2 DEF Sweeps
    <2>1. CASE End(w)
      BY <1>3, <2>1, EndTurns DEF DatabaseInv
    <2>2. CASE Resolve(w)
      <3>1. PICK r : r = Request("resolved", 0, {row.refresh}, {}, 0, FALSE)
        OBVIOUS
      <3>2. Turns(w, r)
        BY <2>2, <3>1, LookTurns DEF Resolve, DatabaseInv
      <3>4. r.op = "resolved"
        BY <3>1 DEF Request
      <3> QED BY <3>2, <3>4 DEF Sweeps
    <2>3. CASE Acquire(w) /\ ~End(w)
      <3>1. Open(w, "resolved", "asking", {})
        BY <2>3 DEF Acquire, Short
      <3>2. PICK r : r = Request("asking", tx[w].on, tx[w].by, {}, tx[w].n, TRUE)
        OBVIOUS
      <3>3. Turns(w, r)
        BY <3>1, <3>2, OpenTurns DEF DatabaseInv
      <3>4. r.op = "asking"
        BY <3>2 DEF Request
      <3> QED BY <3>3, <3>4 DEF Sweeps
    <2>4. CASE Rotate(w)
      <3>1. CASE tx' = [tx EXCEPT ![w].op = "rotated"]
        <4>1. Turns(w, Request("rotated", tx[w].on, tx[w].by, tx[w].seen, tx[w].n, tx[w].open))
          BY <3>1, OpTurns DEF DatabaseInv
        <4> QED BY <2>0, <4>1
      <3>2. CASE \E s : tx' = [tx EXCEPT ![w].op = "rotated", ![w].seen = s]
        <4>1. PICK s : tx' = [tx EXCEPT ![w].op = "rotated", ![w].seen = s]
          BY <3>2
        <4>2. Turns(w, Request("rotated", tx[w].on, tx[w].by, s, tx[w].n, tx[w].open))
          BY <4>1, OpSeenTurns DEF DatabaseInv
        <4> QED BY <2>0, <4>2
      <3> QED BY <2>4, <3>1, <3>2 DEF Rotate
    <2>5. CASE ConsumeNonce(w)
      <3>1. PICK n \in Nonces : tx' = [tx EXCEPT ![w] = Request("consumed", 0, {<<n, 1>>}, {}, 0, FALSE)]
        BY <2>5 DEF ConsumeNonce
      <3>2. PICK r : r = Request("consumed", 0, {<<n, 1>>}, {}, 0, FALSE)
        OBVIOUS
      <3>3. Turns(w, r)
        BY <3>1, <3>2, ExceptTurns DEF DatabaseInv
      <3>4. r.op = "consumed"
        BY <3>2 DEF Request
      <3> QED BY <3>3, <3>4 DEF Sweeps
    <2>6. CASE Exchange(w) /\ ~End(w)
      <3>1. PICK s : tx' = [tx EXCEPT ![w].op = "exchanged", ![w].seen = s]
        BY <2>6 DEF Exchange
      <3>2. Turns(w, Request("exchanged", tx[w].on, tx[w].by, s, tx[w].n, tx[w].open))
        BY <3>1, OpSeenTurns DEF DatabaseInv
      <3> QED BY <2>0, <3>2
    <2> QED BY <2>1, <2>2, <2>3, <2>4, <2>5, <2>6
         DEF StoreRefresh, AbandonRefresh, StoreConnection, AbandonConnection, Short
  <1> QED BY <1>1, <1>2, <1>4, SweepTurnAside

\* Where the row is free for a worker, no other sweeps it.
LEMMA RowFreeNoSweep ==
    ASSUME SweepInv, NEW w \in Workers, tx[w].op = "none", RowFree(w)
    PROVE  \A v \in Workers : ~Sweeps(tx[v])
  BY DEF SweepInv, SweepHeld, RowFree, LockedByOther, Sweeps

LEMMA SweepRowKeeps ==
    ASSUME SweepInv, GrantInv, Age \/ \E w \in Workers : DeleteCredential(w)
    PROVE  SweepInv'
  <1>1. CASE Age
    <2>1. PICK i \in 1..3 : row.phase = Phases[i] /\ row' = [row EXCEPT !.phase = Phases[i + 1]]
      BY <1>1 DEF Age
    <2>2. Phases[i] \in Live /\ Phases[i + 1] \in Live
      BY DEF Live
    <2>3. row'.marks = row.marks /\ row.phase # "gone" /\ row'.phase # "gone"
      BY <2>1, <2>2, TokenFacts DEF GrantInv, GrantTypes
    <2>4. UNCHANGED <<tx, announced, lapses>>
      BY <1>1 DEF Age
    <2> QED BY <2>3, <2>4, SweepAside
  <1>2. ASSUME NEW w \in Workers, DeleteCredential(w)
        PROVE  SweepInv'
    <2>1. row'.phase = "gone" /\ UNCHANGED <<tx, announced, lapses>>
      BY <1>2 DEF DeleteCredential, Deleted
    <2>2. \A v \in Workers : ~Sweeps(tx[v])
      BY <1>2, RowFreeNoSweep DEF DeleteCredential
    <2> QED BY <2>1, <2>2 DEF SweepInv, SweepHeld, OneSweeper, EventsCounted
  <1> QED BY <1>1, <1>2

\* A sweep begins, announces, marks, or gives up.
LEMMA SweepStepKeeps ==
    ASSUME SweepInv, GrantInv, DatabaseInv, NEW w \in Workers,
           BeginSweep(w) \/ Announce(w) \/ Mark(w) \/ AbandonSweep(w)
    PROVE  SweepInv'
  <1>0. \A k \in ExpiryKinds : announced[k] \in Nat /\ lapses[k] \in Nat
    BY GrantsOK DEF SweepInv, EventsCounted
  <1>1. CASE BeginSweep(w)
    <2>1. PICK k \in ExpiryKinds :
              Due(k) /\ tx' = [tx EXCEPT ![w] = Request("scanned", 0, {}, {}, k, TRUE)]
      BY <1>1 DEF BeginSweep
    <2>2. PICK r : r = Request("scanned", 0, {}, {}, k, TRUE)
      OBVIOUS
    <2>3. Turns(w, r) /\ UNCHANGED <<row, announced, lapses>>
      BY <1>1, <2>1, <2>2, ExceptTurns DEF BeginSweep, DatabaseInv, credentialTokens
    <2>4. \A v \in Workers : tx'[v] = IF v = w THEN r ELSE tx[v]
      BY <2>3 DEF Turns
    <2>5. r.op = "scanned" /\ r.n = k /\ r.open /\ r.on = 0 /\ r.by = {} /\ r.seen = {}
      BY <2>2 DEF Request
    <2>6. \A v \in Workers : ~Sweeps(tx[v])
      BY <1>1, RowFreeNoSweep DEF BeginSweep
    <2>7. row.phase # "gone" /\ k \notin row.marks
      BY <2>1 DEF Due
    <2>8. \A v \in Workers : SweepHeld(tx[v])'
      BY <2>3, <2>4, <2>5, <2>6, <2>7 DEF SweepHeld
    <2>9. OneSweeper'
      BY <2>4, <2>6 DEF OneSweeper
    <2>10. EventsCounted'
      <3>1. \A v \in Workers : tx[v].op # "emitted"
        BY <2>6 DEF Sweeps
      <3> QED BY <2>3, <3>1 DEF SweepInv, EventsCounted
    <2> QED BY <2>8, <2>9, <2>10 DEF SweepInv
  <1>2. CASE Announce(w)
    <2>1. PICK k : k = tx[w].n
      OBVIOUS
    <2>2. PICK r : r = Request("emitted", tx[w].on, tx[w].by, tx[w].seen, k, tx[w].open)
      OBVIOUS
    <2>3. /\ tx[w].op = "scanned" /\ Turns(w, r) /\ UNCHANGED <<row, lapses>>
          /\ announced' = [announced EXCEPT ![k] = @ + 1]
      BY <1>2, <2>1, <2>2, OpTurns DEF Announce, DatabaseInv
    <2>4. \A v \in Workers : tx'[v] = IF v = w THEN r ELSE tx[v]
      BY <2>3 DEF Turns
    <2>5. /\ k \in ExpiryKinds /\ tx[w].open /\ tx[w].on = 0 /\ tx[w].by = {} /\ tx[w].seen = {}
          /\ row.phase # "gone" /\ k \notin row.marks
      BY <2>1, <2>3 DEF SweepInv, SweepHeld, Sweeps
    <2>6. /\ r.op = "emitted" /\ r.n = k /\ r.open = tx[w].open /\ r.on = tx[w].on
          /\ r.by = tx[w].by /\ r.seen = tx[w].seen
      BY <2>2 DEF Request
    <2>7. \A v \in Workers \ {w} : ~Sweeps(tx[v])
      BY <2>3 DEF SweepInv, OneSweeper, Sweeps
    <2>8. \A v \in Workers : SweepHeld(tx[v])'
      <3> TAKE v \in Workers
      <3>1. CASE v = w
        BY <2>3, <2>4, <2>5, <2>6, <3>1 DEF SweepHeld
      <3>2. CASE v # w
        BY <2>4, <2>7, <3>2 DEF SweepHeld
      <3> QED BY <3>1, <3>2
    <2>9. OneSweeper'
      BY <2>4, <2>7 DEF OneSweeper
    <2>10. EventsCounted'
      <3>1. announced' \in [ExpiryKinds -> Nat] /\ announced'[k] = announced[k] + 1
        BY <1>0, <2>3, <2>5 DEF SweepInv, EventsCounted
      <3>2. announced[k] <= lapses[k]
        <4>1. \A v \in Workers : tx[v].op # "emitted"
          BY <2>3, <2>7 DEF Sweeps
        <4> QED BY <2>5, <4>1 DEF SweepInv, EventsCounted
      <3>3. tx'[w].op = "emitted" /\ tx'[w].n = k
        BY <2>4, <2>6
      <3>4. ASSUME NEW j \in ExpiryKinds, j # k
            PROVE  /\ announced'[j] <= 1 + lapses[j]
                   /\ /\ row.phase # "gone" /\ j \notin row.marks
                      /\ ~(\E v \in Workers : tx'[v].op = "emitted" /\ tx'[v].n = j)
                      => announced'[j] <= lapses[j]
        <4>1. announced'[j] = announced[j]
          BY <2>3, <3>4 DEF SweepInv, EventsCounted
        <4>2. \A v \in Workers : tx[v].op # "emitted"
          BY <2>3, <2>7 DEF Sweeps
        <4> QED BY <4>1, <4>2 DEF SweepInv, EventsCounted
      <3>5. announced'[k] <= 1 + lapses[k]
        BY <1>0, <2>5, <3>1, <3>2
      <3> QED BY <2>3, <3>1, <3>3, <3>4, <3>5 DEF SweepInv, EventsCounted
    <2> QED BY <2>8, <2>9, <2>10 DEF SweepInv
  <1>3. CASE Mark(w) \/ AbandonSweep(w)
    <2>1. PICK k : k = tx[w].n
      OBVIOUS
    <2>2. Sweeps(tx[w]) /\ Turns(w, NoRequest) /\ UNCHANGED announced
      BY <1>3, EndTurns DEF Mark, AbandonSweep, Sweeps, DatabaseInv
    <2>3. \A v \in Workers : tx'[v] = IF v = w THEN NoRequest ELSE tx[v]
      BY <2>2 DEF Turns
    <2>4. k \in ExpiryKinds /\ row.phase # "gone" /\ k \notin row.marks
      BY <2>1, <2>2 DEF SweepInv, SweepHeld
    <2>5. \A v \in Workers : ~Sweeps(tx'[v])
      BY <2>2, <2>3, NoRequestFields DEF SweepInv, OneSweeper, Sweeps
    <2>6. (\A v \in Workers : SweepHeld(tx[v])') /\ OneSweeper'
      BY <2>5 DEF SweepHeld, OneSweeper
    <2>7. \A j \in ExpiryKinds : announced[j] <= 1 + lapses[j]
      BY DEF SweepInv, EventsCounted
    \* A marker without its event there is none; the others are as they were.
    <2>8. \A j \in ExpiryKinds \ {k} : row.phase # "gone" /\ j \notin row.marks => announced[j] <= lapses[j]
      <3>1. \A j \in ExpiryKinds \ {k} : ~(\E v \in Workers : tx[v].op = "emitted" /\ tx[v].n = j)
        BY <2>1, <2>2 DEF SweepInv, OneSweeper, Sweeps
      <3> QED BY <3>1 DEF SweepInv, EventsCounted
    <2>9. CASE Mark(w)
      <3>1. row' = [row EXCEPT !.marks = @ \cup {k}] /\ UNCHANGED lapses
        BY <2>1, <2>9 DEF Mark
      <3>2. row'.marks = row.marks \cup {k} /\ row'.phase = row.phase
        BY <3>1 DEF GrantInv, GrantTypes
      <3>3. EventsCounted'
        BY <2>2, <2>7, <2>8, <3>1, <3>2 DEF SweepInv, EventsCounted
      <3> QED BY <2>6, <3>3 DEF SweepInv
    <2>10. CASE AbandonSweep(w) /\ tx[w].op = "scanned"
      <3>1. UNCHANGED <<row, lapses>>
        BY <2>10 DEF AbandonSweep
      <3>2. announced[k] <= lapses[k]
        <4>1. ~(\E v \in Workers : tx[v].op = "emitted" /\ tx[v].n = k)
          BY <2>2, <2>10 DEF SweepInv, OneSweeper, Sweeps
        <4> QED BY <2>4, <4>1 DEF SweepInv, EventsCounted
      <3>3. EventsCounted'
        BY <2>2, <2>7, <2>8, <3>1, <3>2 DEF SweepInv, EventsCounted
      <3> QED BY <2>6, <3>3 DEF SweepInv
    <2>11. CASE AbandonSweep(w) /\ tx[w].op = "emitted"
      <3>1. UNCHANGED row /\ lapses[k] < MaxLapses /\ lapses' = [lapses EXCEPT ![k] = @ + 1]
        BY <2>1, <2>11 DEF AbandonSweep
      <3>2. /\ lapses' \in [ExpiryKinds -> 0..MaxLapses] /\ lapses'[k] = lapses[k] + 1
            /\ \A j \in ExpiryKinds \ {k} : lapses'[j] = lapses[j]
        BY <1>0, <2>4, <3>1, GrantsOK DEF SweepInv, EventsCounted
      <3>3. announced[k] <= lapses'[k]
        BY <1>0, <2>4, <2>7, <3>2
      <3>4. \A j \in ExpiryKinds : announced[j] <= 1 + lapses'[j]
        BY <1>0, <2>4, <2>7, <3>2
      <3>5. \A j \in ExpiryKinds : row.phase # "gone" /\ j \notin row.marks => announced[j] <= lapses'[j]
        BY <2>8, <3>2, <3>3
      <3>6. EventsCounted'
        BY <2>2, <3>1, <3>2, <3>4, <3>5 DEF SweepInv, EventsCounted
      <3> QED BY <2>6, <3>6 DEF SweepInv
    <2> QED BY <1>3, <2>9, <2>10, <2>11 DEF AbandonSweep
  <1> QED BY <1>1, <1>2, <1>3

LEMMA CredentialPartKeeps ==
    ASSUME GrantInv, SweepInv, DatabaseInv, db' = db, CredentialPart
    PROVE  GrantInv' /\ SweepInv' /\ DatabaseInv' /\ Within(CredentialOps)
  <1>1. CASE Age \/ \E w \in Workers : DeleteCredential(w)
    BY <1>1, GrantRowKeeps, SweepRowKeeps
  <1>2. ASSUME NEW w \in Workers, CredentialStep(w), ~DeleteCredential(w)
        PROVE  GrantInv' /\ SweepInv' /\ DatabaseInv' /\ Within(CredentialOps)
    <2>1. CASE \/ Resolve(w) \/ Acquire(w) \/ ConsumeNonce(w)
               \/ AbandonRefresh(w) /\ tx[w].op # "rotated"
               \/ AbandonConnection(w) /\ tx[w].op # "exchanged"
               \/ BeginSweep(w) \/ Announce(w) \/ Mark(w) \/ AbandonSweep(w)
      BY <2>1, GrantQuietKeeps, SweepAsideKeeps, SweepStepKeeps
    <2>2. CASE Rotate(w)
      BY <2>2, RotateKeeps, SweepAsideKeeps
    <2>3. CASE StoreRefresh(w) \/ (AbandonRefresh(w) /\ tx[w].op = "rotated")
      BY <2>3, StoreRefreshKeeps, SweepAsideKeeps
    <2>4. CASE Exchange(w)
      BY <2>4, ExchangeKeeps, SweepAsideKeeps
    <2>5. CASE StoreConnection(w) \/ (AbandonConnection(w) /\ tx[w].op = "exchanged")
      BY <2>5, StoreConnectionKeeps, SweepAsideKeeps
    <2> QED BY <1>2, <2>1, <2>2, <2>3, <2>4, <2>5 DEF CredentialStep
  <1> QED BY <1>1, <1>2 DEF CredentialPart

LEMMA CredentialElsewhere ==
    ASSUME GrantInv, SweepInv, UNCHANGED credentialTokens, NEW ops, Within(ops),
           ops \cap CredentialOps = {}
    PROVE  GrantInv' /\ SweepInv'
  <1>1. \A v \in Workers : tx[v].op \in CredentialOps \/ tx'[v].op \in CredentialOps => tx'[v] = tx[v]
    BY WithinElsewhere DEF CredentialOps
  <1>2. \A v \in Workers : Refreshing(tx[v]) \/ Refreshing(tx'[v]) => tx'[v] = tx[v]
    BY <1>1 DEF Refreshing, CredentialOps
  <1>3. \A v \in Workers : Connecting(tx[v]) \/ Connecting(tx'[v]) => tx'[v] = tx[v]
    BY <1>1 DEF Connecting, CredentialOps
  <1>4. \A v \in Workers : Sweeps(tx[v]) \/ Sweeps(tx'[v]) => tx'[v] = tx[v]
    BY <1>1 DEF Sweeps, CredentialOps
  <1>5. HeldTokens' = HeldTokens
    BY <1>2 DEF HeldTokens, credentialTokens
  <1>6. UNCHANGED <<row, accepted, exchanged, nonces, spoiled>>
    BY DEF credentialTokens
  <1>7. GrantTypes' /\ HeldTrue' /\ AcceptedTrue'
    BY <1>5, <1>6 DEF GrantInv, GrantTypes, HeldTrue, AcceptedTrue
  <1>8. GrantWork'
    <2> SUFFICES ASSUME NEW v \in Workers
                 PROVE  RefreshHeld(tx[v])' /\ ConnectHeld(tx[v])'
      BY DEF GrantWork
    <2>1. RefreshHeld(tx[v]) /\ ConnectHeld(tx[v])
      BY DEF GrantInv, GrantWork
    <2> QED BY <1>2, <1>3, <1>5, <1>6, <2>1 DEF RefreshHeld, ConnectHeld
  <1>9. OneRefresher'
    <2>1. \A v \in Workers : Asks(tx'[v]) => Asks(tx[v])
      BY <1>2 DEF Asks, Refreshing
    <2> QED BY <2>1 DEF GrantInv, OneRefresher
  <1>10. OwnNonces'
    BY <1>3 DEF GrantInv, OwnNonces
  <1>11. NoTokenYet'
    <2>1. \A v \in Workers : tx[v].op = "exchanged" => tx'[v] = tx[v]
      BY <1>3 DEF Connecting
    <2> QED BY <1>5, <1>6, <2>1 DEF GrantInv, NoTokenYet
  <1>12. TokenKept'
    <2>1. \A v \in Workers : tx[v].op = "rotated" => tx'[v] = tx[v]
      BY <1>2 DEF Refreshing
    <2> QED BY <1>6, <2>1 DEF GrantInv, TokenKept
  <1>13. SweepInv'
    BY <1>4, <1>6, SweepAside DEF credentialTokens
  <1> QED BY <1>7, <1>8, <1>9, <1>10, <1>11, <1>12, <1>13 DEF GrantInv

LEMMA CredentialStarts ==
    ASSUME DatabaseInit, CredentialTokensInit
    PROVE  GrantInv /\ SweepInv
  <1>1. \A w \in Workers : tx[w].op = "none"
    BY NoRequestFields DEF DatabaseInit
  <1>2. \A w \in Workers : ~Refreshing(tx[w]) /\ ~Connecting(tx[w]) /\ ~Sweeps(tx[w]) /\ ~Asks(tx[w])
    BY <1>1 DEF Refreshing, Connecting, Sweeps, Asks
  <1>3. HeldTokens = {NoToken}
    BY <1>2 DEF HeldTokens, CredentialTokensInit, Unconnected
  <1>4. GrantTypes /\ HeldTrue /\ AcceptedTrue
    BY <1>3 DEF CredentialTokensInit, Unconnected, GrantTypes, HeldTrue, AcceptedTrue
  <1>5. GrantWork /\ OneRefresher /\ OwnNonces
    BY <1>2 DEF GrantWork, RefreshHeld, ConnectHeld, OneRefresher, OwnNonces
  <1>6. NoTokenYet /\ TokenKept
    BY <1>3 DEF NoTokenYet, TokenKept, CredentialTokensInit, Unconnected
  <1>7. SweepInv
    BY <1>1, <1>2, GrantsOK
       DEF SweepInv, SweepHeld, OneSweeper, EventsCounted, CredentialTokensInit
  <1> QED BY <1>4, <1>5, <1>6, <1>7 DEF GrantInv

LEMMA CredentialGives ==
    ASSUME GrantInv, SweepInv
    PROVE  CredentialTokensTypeOK /\ RefreshKept /\ AnnouncedOnce
  <1>1. CredentialTokensTypeOK
    BY DEF GrantInv, GrantTypes, SweepInv, EventsCounted, CredentialTokensTypeOK
  <1>2. RefreshKept
    <2>1. ASSUME row.phase \in Live, row.refresh = NoToken
          PROVE  spoiled = {} /\ accepted \subseteq UNION {tx[w].seen : w \in Workers}
      BY <2>1, TokenFacts DEF GrantInv, NoTokenYet
    <2>2. ASSUME row.phase \in Live, row.refresh # NoToken
          PROVE  row.refresh \in accepted \cup spoiled
                     \cup UNION {tx[w].by : w \in {v \in Workers : tx[v].op = "rotated"}}
      BY <2>2 DEF GrantInv, TokenKept
    <2> QED BY <2>1, <2>2 DEF RefreshKept
  <1>3. AnnouncedOnce
    BY DEF SweepInv, EventsCounted, AnnouncedOnce
  <1> QED BY <1>1, <1>2, <1>3

-----------------------------------------------------------------------------
(* The cached decisions.                                                   *)

\* A request that loads has read what it holds since it began; one served holds a value
\* that is not too old.
LookupTrue(q) ==
    /\ q \in [at : {"idle", "waiting", "served"} \cup Loading, began : 0..MaxLoad,
              read : 0..Ttl + MaxLoad]
    /\ q.at \in Loading => q.read <= q.began
    /\ q.at \in {"idle", "waiting"} => q.began = 0
    /\ q.at \in {"idle", "waiting", "begun"} => q.read = 0
    /\ q.at = "served" => q.read <= Staleness

\* What the entry holds was read after it was stamped, or at most one load before.
EntryTrue ==
    /\ entry \in [held : BOOLEAN, read : 0..Ttl + MaxLoad + 1, stamp : 0..Ttl + MaxLoad + 1]
    /\ entry.held => entry.read <= entry.stamp + (IF Coalesces THEN MaxLoad ELSE 0)

\* Coalescing requests have one loader, while there is a future, which the others await.
FlightTrue ==
    /\ flight \in {"none", "open", "cancelled"} /\ (~Coalesces => flight = "none")
    /\ \A v \in Lookups : lookup[v].at = "waiting" => flight = "open"
    /\ Coalesces =>
          /\ flight # "none" <=> \E v \in Lookups : lookup[v].at \in Loading
          /\ \A v, w \in Lookups : lookup[v].at \in Loading /\ lookup[w].at \in Loading => v = w

CacheInv ==
    /\ cache \in CacheKinds /\ EntryTrue /\ FlightTrue
    /\ lookup = [v \in Lookups |-> lookup[v]] /\ \A v \in Lookups : LookupTrue(lookup[v])

LEMMA StalenessFacts ==
    /\ Staleness \in Nat /\ MaxLoad <= Staleness /\ Staleness <= Ttl + MaxLoad
    /\ Coalesces /\ Ttl > 0 => Staleness = Ttl + MaxLoad - 1
    /\ ~Coalesces /\ Ttl > 0 => Ttl - 1 <= Staleness
  BY CachesOK DEF Staleness

\* One request moves on; the future, if it has one, is not for others.
LEMMA LookupMoves ==
    ASSUME CacheInv, NEW w \in Lookups, NEW q, lookup' = [lookup EXCEPT ![w] = q],
           LookupTrue(q), UNCHANGED <<cache, entry, flight>>,
           lookup[w].at \in Loading <=> q.at \in Loading, q.at # "waiting"
    PROVE  CacheInv'
  <1>1. \A v \in Lookups : lookup'[v] = IF v = w THEN q ELSE lookup[v]
    BY DEF CacheInv
  <1>2. lookup' = [v \in Lookups |-> lookup'[v]]
    BY <1>1 DEF CacheInv
  <1>3. \A v \in Lookups : LookupTrue(lookup[v])'
    BY <1>1 DEF CacheInv, LookupTrue, Staleness, Coalesces
  <1>4. EntryTrue'
    BY DEF CacheInv, EntryTrue, Coalesces
  <1>5. FlightTrue'
    <2>1. \A v \in Lookups : /\ lookup'[v].at \in Loading <=> lookup[v].at \in Loading
                             /\ lookup'[v].at = "waiting" => lookup[v].at = "waiting"
      BY <1>1
    <2> QED BY <2>1 DEF CacheInv, FlightTrue, Coalesces
  <1> QED BY <1>2, <1>3, <1>4, <1>5 DEF CacheInv

LEMMA HitKeeps ==
    ASSUME CacheInv, NEW w \in Lookups, Hit(w) \/ Read(w) \/ Use(w)
    PROVE  CacheInv'
  <1>1. UNCHANGED <<cache, entry, flight>> /\ LookupTrue(lookup[w])
    BY DEF Hit, Read, Use, CacheInv
  <1>2. CASE Hit(w)
    <2>1. PICK q : q = [at |-> "served", began |-> 0, read |-> entry.read]
      OBVIOUS
    <2>2. lookup[w].at = "idle" /\ Fresh /\ lookup' = [lookup EXCEPT ![w] = q]
      BY <1>2, <2>1 DEF Hit
    <2>3. entry.read \in Nat /\ entry.read <= Staleness
      BY <2>2, StalenessFacts, CachesOK DEF CacheInv, EntryTrue, Fresh
    <2>4. LookupTrue(q)
      BY <2>1, <2>3, StalenessFacts, CachesOK DEF LookupTrue, Loading
    <2> QED BY <1>1, <2>1, <2>2, <2>4, LookupMoves DEF Loading
  <1>3. CASE Read(w)
    <2>1. PICK at \in {"half", "read"} :
              lookup' = [lookup EXCEPT ![w].at = at] /\ lookup[w].at \in {"begun", "half"}
      BY <1>3 DEF Read, At
    <2>2. PICK q : q = [lookup[w] EXCEPT !.at = at]
      OBVIOUS
    <2>3. LookupTrue(q) /\ q.at = at
      BY <1>1, <2>1, <2>2 DEF LookupTrue, Loading
    <2>4. lookup' = [lookup EXCEPT ![w] = q]
      BY <2>1, <2>2
    <2> QED BY <1>1, <2>1, <2>3, <2>4, LookupMoves DEF Loading
  <1>4. CASE Use(w)
    <2>1. LookupTrue(NoLookup) /\ NoLookup.at = "idle"
      BY CachesOK DEF LookupTrue, NoLookup, Loading
    <2> QED BY <1>1, <1>4, <2>1, LookupMoves DEF Use, Loading
  <1> QED BY <1>2, <1>3, <1>4

LEMMA MissKeeps ==
    ASSUME CacheInv, NEW w \in Lookups, Miss(w)
    PROVE  CacheInv'
  <1>1. UNCHANGED <<cache, entry>> /\ lookup[w].at = "idle" /\ LookupTrue(lookup[w])
    BY DEF Miss, CacheInv
  <1>2. \/ lookup' = lookup /\ flight' = flight
        \/ /\ lookup' = [lookup EXCEPT ![w].at = "begun"]
           /\ (~Coalesces /\ flight' = flight) \/ (Coalesces /\ flight = "none" /\ flight' = "open")
        \/ /\ lookup' = [lookup EXCEPT ![w].at = "waiting"]
           /\ Coalesces /\ flight = "open" /\ flight' = flight
    BY DEF Miss, At, CacheInv, FlightTrue
  <1>3. EntryTrue'
    BY <1>1 DEF CacheInv, EntryTrue, Coalesces
  <1>4. ASSUME NEW at \in {"begun", "waiting"}, lookup' = [lookup EXCEPT ![w].at = at]
        PROVE  /\ \A v \in Lookups : LookupTrue(lookup[v])'
               /\ lookup' = [v \in Lookups |-> lookup'[v]]
               /\ lookup'[w].at = at /\ \A v \in Lookups \ {w} : lookup'[v] = lookup[v]
    <2>1. PICK q : q = [lookup[w] EXCEPT !.at = at]
      OBVIOUS
    <2>2. LookupTrue(q) /\ q.at = at
      BY <1>1, <2>1 DEF LookupTrue, Loading
    <2>3. \A v \in Lookups : lookup'[v] = IF v = w THEN q ELSE lookup[v]
      BY <1>4, <2>1 DEF CacheInv
    <2>4. \A v \in Lookups : LookupTrue(lookup[v])'
      BY <1>1, <2>2, <2>3 DEF CacheInv, LookupTrue, Staleness, Coalesces
    <2> QED BY <1>4, <2>2, <2>3, <2>4 DEF CacheInv
  <1>5. CASE lookup' = lookup /\ flight' = flight
    BY <1>1, <1>3, <1>5 DEF CacheInv, FlightTrue, LookupTrue, Staleness, Coalesces
  <1>6. CASE /\ lookup' = [lookup EXCEPT ![w].at = "begun"]
             /\ (~Coalesces /\ flight' = flight) \/ (Coalesces /\ flight = "none" /\ flight' = "open")
    <2>1. FlightTrue'
      BY <1>1, <1>4, <1>6 DEF CacheInv, FlightTrue, Coalesces, Loading
    <2> QED BY <1>1, <1>3, <1>4, <1>6, <2>1 DEF CacheInv
  <1>7. CASE /\ lookup' = [lookup EXCEPT ![w].at = "waiting"]
             /\ Coalesces /\ flight = "open" /\ flight' = flight
    <2>1. FlightTrue'
      <3>1. \A v \in Lookups : lookup'[v].at \in Loading <=> lookup[v].at \in Loading
        BY <1>1, <1>4, <1>7 DEF Loading
      <3> QED BY <1>1, <1>7, <3>1 DEF CacheInv, FlightTrue, Coalesces
    <2> QED BY <1>1, <1>3, <1>4, <1>7, <2>1 DEF CacheInv
  <1> QED BY <1>2, <1>5, <1>6, <1>7

\* The loader is done, and with it its waiters.
LEMMA StoreKeeps ==
    ASSUME CacheInv, NEW w \in Lookups, Store(w) \/ Fail(w)
    PROVE  CacheInv'
  <1>1. /\ lookup[w].at \in Loading /\ LookupTrue(lookup[w]) /\ UNCHANGED cache
        /\ flight' = IF Coalesces THEN "none" ELSE flight
    BY DEF Store, Fail, CacheInv, Loading
  <1>2. LookupTrue(NoLookup) /\ NoLookup.at = "idle"
    BY CachesOK DEF LookupTrue, NoLookup, Loading
  <1>3. PICK a \in 0..MaxLoad : a = lookup[w].read /\ a <= lookup[w].began
    BY <1>1, CachesOK DEF LookupTrue
  <1>4. PICK q : q = [at |-> "served", began |-> 0, read |-> a]
    OBVIOUS
  <1>5. LookupTrue(q) /\ q.at = "served"
    BY <1>3, <1>4, StalenessFacts, CachesOK DEF LookupTrue, Loading
  <1>6. /\ lookup' = [v \in Lookups |-> lookup'[v]]
        /\ lookup'[w] \in {NoLookup, q}
        /\ \A v \in Lookups \ {w} :
              \/ lookup'[v] \in {NoLookup, q}
              \/ lookup'[v] = lookup[v] /\ (lookup[v].at # "waiting" \/ ~Coalesces)
    BY <1>3, <1>4 DEF Store, Fail, Delivered
  <1>7. \A v \in Lookups : LookupTrue(lookup[v])'
    BY <1>1, <1>2, <1>5, <1>6 DEF CacheInv, LookupTrue, Staleness, Coalesces
  <1>8. FlightTrue'
    <2>1. CASE Coalesces
      <3>1. \A v \in Lookups \ {w} : lookup[v].at \notin Loading
        BY <1>1, <2>1 DEF CacheInv, FlightTrue
      <3>2. \A v \in Lookups : lookup'[v].at \notin Loading /\ lookup'[v].at # "waiting"
        BY <1>2, <1>5, <1>6, <2>1, <3>1 DEF Loading
      <3> QED BY <1>1, <2>1, <3>2 DEF FlightTrue, Coalesces
    <2>2. CASE ~Coalesces
      <3>1. \A v \in Lookups : lookup'[v].at # "waiting"
        BY <1>2, <1>5, <1>6, <2>2 DEF CacheInv, FlightTrue
      <3> QED BY <1>1, <2>2, <3>1 DEF CacheInv, FlightTrue, Coalesces
    <2> QED BY <2>1, <2>2
  <1>9. EntryTrue'
    <2>1. CASE Store(w)
      <3>1. PICK stamp1 \in 0..MaxLoad :
                /\ stamp1 = IF Coalesces THEN 0 ELSE lookup[w].began
                /\ entry' = [held |-> TRUE, read |-> a, stamp |-> stamp1]
        <4>1. PICK stamp1 : stamp1 = IF Coalesces THEN 0 ELSE lookup[w].began
          OBVIOUS
        <4>2. stamp1 \in 0..MaxLoad
          BY <1>1, <4>1, CachesOK DEF LookupTrue
        <4>3. entry' = [held |-> TRUE, read |-> a, stamp |-> stamp1]
          BY <1>3, <2>1, <4>1 DEF Store
        <4> QED BY <4>1, <4>2, <4>3
      <3>2. a <= stamp1 + (IF Coalesces THEN MaxLoad ELSE 0)
        BY <1>1, <1>3, <3>1, CachesOK DEF LookupTrue
      <3> QED BY <1>1, <1>3, <3>1, <3>2, CachesOK DEF EntryTrue, Coalesces
    <2>2. CASE Fail(w)
      BY <1>1, <2>2 DEF CacheInv, EntryTrue, Fail, Coalesces
    <2> QED BY <2>1, <2>2
  <1> QED BY <1>1, <1>6, <1>7, <1>8, <1>9 DEF CacheInv

LEMMA CancelKeeps ==
    ASSUME CacheInv, Evict \/ \E w \in Lookups : CancelWaiter(w)
    PROVE  CacheInv'
  <1>1. CASE Evict
    BY <1>1, CachesOK
       DEF Evict, NoEntry, CacheInv, EntryTrue, FlightTrue, LookupTrue, Staleness, Coalesces
  <1>2. ASSUME NEW w \in Lookups, CancelWaiter(w)
        PROVE  CacheInv'
    <2>1. /\ lookup[w].at = "waiting" /\ flight' = "cancelled" /\ UNCHANGED <<cache, entry>>
          /\ lookup' = [v \in Lookups |-> IF lookup[v].at = "waiting" THEN NoLookup ELSE lookup[v]]
      BY <1>2 DEF CancelWaiter
    <2>2. LookupTrue(NoLookup) /\ NoLookup.at = "idle"
      BY CachesOK DEF LookupTrue, NoLookup, Loading
    <2>3. Coalesces /\ flight = "open"
      BY <2>1 DEF CacheInv, FlightTrue
    <2>4. \A v \in Lookups : /\ lookup'[v].at # "waiting"
                             /\ lookup'[v].at \in Loading <=> lookup[v].at \in Loading
      BY <2>1, <2>2 DEF Loading
    <2>5. FlightTrue'
      BY <2>1, <2>3, <2>4 DEF CacheInv, FlightTrue, Coalesces
    <2>6. \A v \in Lookups : LookupTrue(lookup[v])'
      BY <2>1, <2>2 DEF CacheInv, LookupTrue, Staleness, Coalesces
    <2> QED BY <2>1, <2>5, <2>6 DEF CacheInv, EntryTrue, Coalesces
  <1> QED BY <1>1, <1>2

\* Time adds the same to what was read and to its stamp.
LEMMA TickKeeps ==
    ASSUME CacheInv, Tick
    PROVE  CacheInv'
  <1>1. UNCHANGED <<cache, flight>>
    BY DEF Tick
  <1>2. EntryTrue'
    <2>1. CASE entry.held
      <3>1. PICK a, b : a = entry.read /\ b = entry.stamp
        OBVIOUS
      <3>2. a \in 0..Ttl + MaxLoad + 1 /\ b \in 0..Ttl + MaxLoad + 1
        BY <3>1 DEF CacheInv, EntryTrue
      <3>3. a <= b + (IF Coalesces THEN MaxLoad ELSE 0)
        BY <2>1, <3>1 DEF CacheInv, EntryTrue
      <3>4. entry' = [entry EXCEPT !.read = Older(a), !.stamp = Older(b)]
        BY <2>1, <3>1 DEF Tick
      <3>5. PICK c, d : c = Older(a) /\ d = Older(b)
        OBVIOUS
      <3>6. /\ c \in 0..Ttl + MaxLoad + 1 /\ d \in 0..Ttl + MaxLoad + 1
            /\ c <= d + (IF Coalesces THEN MaxLoad ELSE 0)
        BY <3>2, <3>3, <3>5, CachesOK DEF Older
      <3>7. entry' = [held |-> TRUE, read |-> c, stamp |-> d]
        BY <2>1, <3>4, <3>5 DEF CacheInv, EntryTrue
      <3> QED BY <1>1, <3>6, <3>7 DEF EntryTrue, Coalesces
    <2>2. CASE ~entry.held
      BY <1>1, <2>2 DEF Tick, CacheInv, EntryTrue, Coalesces
    <2> QED BY <2>1, <2>2
  <1>3. ASSUME NEW v \in Lookups
        PROVE  lookup'[v].at = lookup[v].at /\ LookupTrue(lookup[v])'
    <2>1. PICK q : q = lookup[v]
      OBVIOUS
    <2>2. /\ LookupTrue(q) /\ q.at # "served" /\ (q.at \in Loading => q.began < MaxLoad)
      BY <2>1 DEF Tick, CacheInv
    <2>3. lookup'[v] = [at |-> q.at,
                        began |-> IF q.at \in Loading THEN q.began + 1 ELSE 0,
                        read |-> IF q.at \in {"half", "read"} THEN q.read + 1 ELSE 0]
      BY <2>1 DEF Tick
    <2>4. /\ lookup'[v].at = q.at
          /\ lookup'[v].began = IF q.at \in Loading THEN q.began + 1 ELSE 0
          /\ lookup'[v].read = IF q.at \in {"half", "read"} THEN q.read + 1 ELSE 0
      BY <2>3
    <2>5. PICK c, d : c = lookup'[v].began /\ d = lookup'[v].read
      OBVIOUS
    <2>6. /\ c \in 0..MaxLoad /\ d \in 0..Ttl + MaxLoad /\ (q.at \in Loading => d <= c)
          /\ q.at \in {"idle", "waiting"} => c = 0
          /\ q.at \in {"idle", "waiting", "begun"} => d = 0
      BY <2>2, <2>4, <2>5, CachesOK DEF LookupTrue, Loading
    <2>7. lookup'[v] = [at |-> q.at, began |-> c, read |-> d]
      BY <2>3, <2>5
    <2> QED BY <2>1, <2>2, <2>4, <2>6, <2>7, <2>5 DEF LookupTrue
  <1>4. FlightTrue'
    BY <1>1, <1>3 DEF CacheInv, FlightTrue, Coalesces
  <1>5. lookup' = [v \in Lookups |-> lookup'[v]]
    BY DEF Tick
  <1> QED BY <1>1, <1>2, <1>3, <1>4, <1>5 DEF CacheInv

LEMMA CachePartKeeps ==
    ASSUME CacheInv, CachePart
    PROVE  CacheInv'
  BY HitKeeps, MissKeeps, StoreKeeps, CancelKeeps, TickKeeps DEF CachePart, LookupNext

LEMMA CacheElsewhere ==
    ASSUME CacheInv, UNCHANGED lookupCaches
    PROVE  CacheInv'
  BY DEF CacheInv, EntryTrue, FlightTrue, LookupTrue, Staleness, Coalesces, lookupCaches

LEMMA CacheStarts ==
    ASSUME LookupCachesInit
    PROVE  CacheInv
  BY CachesOK DEF LookupCachesInit, NoEntry, NoLookup, CacheInv, EntryTrue, FlightTrue, LookupTrue, Loading

LEMMA CacheGives ==
    ASSUME CacheInv
    PROVE  LookupCachesTypeOK /\ StaleBounded
  <1>1. lookup \in [Lookups -> [at : {"idle", "waiting", "served"} \cup Loading,
                                began : 0..MaxLoad, read : 0..Ttl + MaxLoad]]
    BY DEF CacheInv, LookupTrue
  <1>2. LookupCachesTypeOK
    <2>1. Coalesces => (flight # "none") = (\E w \in Lookups : lookup[w].at \in Loading)
      <3>1. Coalesces => (flight # "none" <=> \E w \in Lookups : lookup[w].at \in Loading)
        BY DEF CacheInv, FlightTrue
      <3> QED BY <3>1
    <2> QED BY <1>1, <2>1 DEF CacheInv, EntryTrue, FlightTrue, LookupCachesTypeOK
  <1>3. StaleBounded
    BY DEF CacheInv, LookupTrue, StaleBounded
  <1> QED BY <1>2, <1>3

-----------------------------------------------------------------------------
(* The gate and the rate limit.                                            *)

AdmissionOps == {"arrived", "timed", "inside"}

\* Those an instance holds.
Holds(q, i) == q.op \in AdmissionOps /\ q.on = i
Holders(i) == {w \in Workers : Holds(tx[w], i)}

\* A request is at an instance; the time it read is not in the future.
AdmissionHeld(q) ==
    /\ q.op \in AdmissionOps => q.on \in Instances
    /\ q.op = "timed" => q.n \in Nat /\ q.n <= now

\* What a bucket admitted since a time, if anything, and what it could still admit go back
\* to its burst and to the time since: its tokens were not refilled for more.
BucketTrue(b) ==
    /\ bucket[b].at <= now
    /\ \A t \in 0..MaxTime : t >= now => admitted[b][t] = admitted[b][now]
    /\ \A s \in 0..MaxTime :
          s <= now /\ AdmittedIn(admitted[b], s, now) > 0 =>
              bucket[b].tokens + AdmittedIn(admitted[b], s, now)
                  <= Burst + (bucket[b].at - s) + lag[b]
    /\ \A s, t \in 0..MaxTime :
          s <= t /\ t <= now => AdmittedIn(admitted[b], s, t) <= Burst + (t - s) + lag[b]

GatesTrue == \A i \in Instances : gate[i] = Cardinality(Holders(i))

AdmissionInv ==
    /\ AdmissionTypeOK /\ GatesTrue
    /\ \A w \in Workers : AdmissionHeld(tx[w])
    /\ \A b \in Buckets : BucketTrue(b)

LEMMA HoldersTurn ==
    ASSUME NEW w \in Workers, NEW r, Turns(w, r), NEW i
    PROVE  /\ Cardinality(Holders(i)) \in Nat /\ Cardinality(Holders(i)') \in Nat
           /\ (Holds(r, i) <=> Holds(tx[w], i)) => Cardinality(Holders(i)') = Cardinality(Holders(i))
           /\ Holds(r, i) /\ ~Holds(tx[w], i) =>
                  Cardinality(Holders(i)') = Cardinality(Holders(i)) + 1
           /\ ~Holds(r, i) /\ Holds(tx[w], i) =>
                  /\ Cardinality(Holders(i)') = Cardinality(Holders(i)) - 1
                  /\ Cardinality(Holders(i)) > 0
  <1>1. IsFiniteSet(Holders(i)) /\ IsFiniteSet(Holders(i)')
    <2>1. Holders(i) \subseteq Workers /\ Holders(i)' \subseteq Workers
      BY DEF Holders
    <2> QED BY <2>1, FS_Subset, AdmissionOK
  <1>2. Cardinality(Holders(i)) \in Nat /\ Cardinality(Holders(i)') \in Nat
    BY <1>1, FS_CardinalityType
  <1>3. \A v \in Workers : tx'[v] = IF v = w THEN r ELSE tx[v]
    BY DEF Turns
  <1>4. ASSUME Holds(r, i) <=> Holds(tx[w], i)
        PROVE  Holders(i)' = Holders(i)
    BY <1>3, <1>4 DEF Holders, Holds
  <1>5. ASSUME Holds(r, i), ~Holds(tx[w], i)
        PROVE  Holders(i)' = Holders(i) \cup {w} /\ w \notin Holders(i)
    BY <1>3, <1>5 DEF Holders, Holds
  <1>6. ASSUME ~Holds(r, i), Holds(tx[w], i)
        PROVE  Holders(i)' = Holders(i) \ {w} /\ w \in Holders(i)
    BY <1>3, <1>6 DEF Holders, Holds
  <1>7. Holds(r, i) /\ ~Holds(tx[w], i) => Cardinality(Holders(i)') = Cardinality(Holders(i)) + 1
    BY <1>1, <1>5, FS_AddElement
  <1>8. ~Holds(r, i) /\ Holds(tx[w], i) =>
            /\ Cardinality(Holders(i)') = Cardinality(Holders(i)) - 1
            /\ Cardinality(Holders(i)') \in Nat
    BY <1>1, <1>2, <1>6, FS_RemoveElement
  <1> QED BY <1>2, <1>4, <1>7, <1>8

\* A step in which a request moves on at its instance, or leaves the gate with its slot.
LEMMA GateKeeps ==
    ASSUME AdmissionInv, NEW w \in Workers, NEW r, Turns(w, r), AdmissionHeld(r), now' = now,
           \/ gate' = gate /\ \A i \in Instances : Holds(r, i) <=> Holds(tx[w], i)
           \/ /\ tx[w].op \in AdmissionOps /\ \A i \in Instances : ~Holds(r, i)
              /\ gate' = [gate EXCEPT ![tx[w].on] = @ - 1]
    PROVE  /\ gate' \in [Instances -> 0..MaxInFlight] /\ GatesTrue'
           /\ \A v \in Workers : AdmissionHeld(tx[v])'
  <1>1. gate \in [Instances -> 0..MaxInFlight] /\ \A i \in Instances : gate[i] = Cardinality(Holders(i))
    BY DEF AdmissionInv, AdmissionTypeOK, GatesTrue
  <1>2. \A v \in Workers : tx'[v] = IF v = w THEN r ELSE tx[v]
    BY DEF Turns
  <1>3. \A v \in Workers : AdmissionHeld(tx[v])'
    BY <1>2 DEF AdmissionInv, AdmissionHeld
  <1>4. CASE gate' = gate /\ \A i \in Instances : Holds(r, i) <=> Holds(tx[w], i)
    <2>1. \A i \in Instances : Cardinality(Holders(i)') = Cardinality(Holders(i))
      BY <1>4, HoldersTurn
    <2> QED BY <1>1, <1>3, <1>4, <2>1 DEF GatesTrue
  <1>5. CASE /\ tx[w].op \in AdmissionOps /\ \A i \in Instances : ~Holds(r, i)
             /\ gate' = [gate EXCEPT ![tx[w].on] = @ - 1]
    <2>1. PICK j \in Instances : j = tx[w].on
      BY <1>5 DEF AdmissionInv, AdmissionHeld
    <2>2. gate' = [gate EXCEPT ![j] = @ - 1]
      BY <1>5, <2>1
    <2>3. Holds(tx[w], j) /\ \A i \in Instances \ {j} : ~Holds(tx[w], i)
      BY <1>5, <2>1 DEF Holds
    <2>4. Cardinality(Holders(j)') = Cardinality(Holders(j)) - 1 /\ Cardinality(Holders(j)) > 0
      BY <1>5, <2>3, HoldersTurn
    <2>5. \A i \in Instances \ {j} : Cardinality(Holders(i)') = Cardinality(Holders(i))
      BY <1>5, <2>3, HoldersTurn
    <2>6. gate[j] \in 0..MaxInFlight /\ gate[j] > 0 /\ gate'[j] = gate[j] - 1
      BY <1>1, <2>2, <2>4
    <2>7. \A i \in Instances \ {j} : gate'[i] = gate[i]
      BY <1>1, <2>2
    <2>8. gate' \in [Instances -> 0..MaxInFlight]
      BY <1>1, <2>2, <2>6, AdmissionOK
    <2>9. \A i \in Instances : gate'[i] = Cardinality(Holders(i)')
      BY <1>1, <2>4, <2>5, <2>6, <2>7
    <2> QED BY <1>3, <2>8, <2>9 DEF GatesTrue
  <1> QED BY <1>4, <1>5

LEMMA ArriveKeeps ==
    ASSUME AdmissionInv, DatabaseInv, db' = db, NEW w \in Workers, NEW i \in Instances, Arrive(w, i)
    PROVE  AdmissionInv' /\ DatabaseInv' /\ Within(AdmissionOps)
  <1>1. PICK r : r = Request("arrived", i, {}, {}, 0, FALSE)
    OBVIOUS
  <1>2. /\ tx[w].op = "none" /\ Turns(w, r) /\ gate[i] < MaxInFlight
        /\ gate' = [gate EXCEPT ![i] = @ + 1] /\ UNCHANGED <<store, bucket, now, admitted, lag>>
    BY <1>1, LookTurns DEF Arrive, DatabaseInv
  <1>3. r.op = "arrived" /\ r.on = i
    BY <1>1 DEF Request
  <1>4. gate \in [Instances -> 0..MaxInFlight] /\ \A j \in Instances : gate[j] = Cardinality(Holders(j))
    BY DEF AdmissionInv, AdmissionTypeOK, GatesTrue
  <1>5. gate' \in [Instances -> 0..MaxInFlight]
    BY <1>2, <1>4, AdmissionOK
  <1>6. \A j \in Instances : ~Holds(tx[w], j) /\ (Holds(r, j) <=> j = i)
    BY <1>2, <1>3 DEF Holds, AdmissionOps
  <1>7. Cardinality(Holders(i)') = Cardinality(Holders(i)) + 1
    BY <1>2, <1>6, HoldersTurn
  <1>8. \A j \in Instances \ {i} : Cardinality(Holders(j)') = Cardinality(Holders(j))
    BY <1>2, <1>6, HoldersTurn
  <1>9. GatesTrue'
    BY <1>2, <1>4, <1>7, <1>8 DEF GatesTrue
  <1>10. AdmissionTypeOK'
    BY <1>2, <1>5 DEF AdmissionInv, AdmissionTypeOK
  <1>11. \A v \in Workers : AdmissionHeld(tx[v])'
    BY <1>2, <1>3 DEF Turns, AdmissionInv, AdmissionHeld
  <1>12. \A b \in Buckets : BucketTrue(b)'
    BY <1>2 DEF AdmissionInv, BucketTrue
  <1>13. DatabaseInv'
    BY <1>1, <1>2, TurnKeepsDatabase
  <1>14. Within(AdmissionOps)
    BY <1>1, <1>2, RequestWithin DEF AdmissionOps
  <1> QED BY <1>9, <1>10, <1>11, <1>12, <1>13, <1>14 DEF AdmissionInv

LEMMA ReadClockKeeps ==
    ASSUME AdmissionInv, DatabaseInv, db' = db, NEW w \in Workers, ReadClock(w) \/ Leave(w)
    PROVE  AdmissionInv' /\ DatabaseInv' /\ Within(AdmissionOps)
  <1>1. UNCHANGED <<store, bucket, now, admitted, lag>>
    BY DEF ReadClock, Leave, admission
  <1>2. \A b \in Buckets : BucketTrue(b)'
    BY <1>1 DEF AdmissionInv, BucketTrue
  <1>3. CASE ReadClock(w)
    <2>1. PICK r : r = Request("timed", tx[w].on, tx[w].by, tx[w].seen, now, tx[w].open)
      OBVIOUS
    <2>2. tx[w].op = "arrived" /\ Turns(w, r) /\ gate' = gate
      BY <1>3, <2>1, OpNumberTurns DEF ReadClock, DatabaseInv, admission
    <2>3. r.op = "timed" /\ r.on = tx[w].on /\ r.n = now
      BY <2>1 DEF Request
    <2>4. AdmissionHeld(r) /\ \A i \in Instances : Holds(r, i) <=> Holds(tx[w], i)
      BY <2>2, <2>3 DEF AdmissionInv, AdmissionTypeOK, AdmissionHeld, AdmissionOps, Holds
    <2>5. /\ gate' \in [Instances -> 0..MaxInFlight] /\ GatesTrue'
          /\ \A v \in Workers : AdmissionHeld(tx[v])'
      BY <1>1, <2>2, <2>4, GateKeeps
    <2>6. AdmissionTypeOK'
      BY <1>1, <2>5 DEF AdmissionInv, AdmissionTypeOK
    <2>7. tx[w].open \in BOOLEAN
      BY DEF DatabaseInv, TxShape
    <2>8. DatabaseInv'
      BY <2>1, <2>2, <2>7, TurnKeepsDatabase
    <2>9. Within(AdmissionOps)
      BY <2>1, <2>2, RequestWithin DEF AdmissionOps
    <2> QED BY <1>2, <2>5, <2>6, <2>8, <2>9 DEF AdmissionInv
  <1>4. CASE Leave(w)
    <2>1. /\ tx[w].op \in AdmissionOps /\ Turns(w, NoRequest)
          /\ gate' = [gate EXCEPT ![tx[w].on] = @ - 1]
      BY <1>4, EndTurns DEF Leave, Held, AdmissionOps, DatabaseInv
    <2>2. AdmissionHeld(NoRequest) /\ \A i \in Instances : ~Holds(NoRequest, i)
      BY NoRequestFields DEF AdmissionHeld, AdmissionOps, Holds
    <2>3. /\ gate' \in [Instances -> 0..MaxInFlight] /\ GatesTrue'
          /\ \A v \in Workers : AdmissionHeld(tx[v])'
      BY <1>1, <2>1, <2>2, GateKeeps
    <2>4. AdmissionTypeOK'
      BY <1>1, <2>3 DEF AdmissionInv, AdmissionTypeOK
    <2> QED BY <1>2, <2>1, <2>3, <2>4, EndKeepsDatabase, EndWithin DEF AdmissionInv
  <1> QED BY <1>3, <1>4

\* A refill adds no more than the time since the last one, up to the capacity.
LEMMA RefillBounds ==
    ASSUME NEW b, b \in [tokens : 0..Burst, at : 0..MaxTime], NEW t \in Nat
    PROVE  /\ Refilled(b, t).at = t /\ Refilled(b, t).tokens \in 0..Burst
           /\ Refilled(b, t).tokens <= b.tokens + (IF t > b.at THEN t - b.at ELSE 0)
           /\ Refilled(b, t) = [tokens |-> Refilled(b, t).tokens, at |-> t]
  <1>1. PICK x : x = IF t > b.at THEN t - b.at ELSE 0
    OBVIOUS
  <1>2. b.tokens \in 0..Burst /\ b.at \in 0..MaxTime /\ x \in Nat
    BY <1>1, AdmissionOK
  <1>3. Max({0, t - b.at}) = x
    <2>1. t - b.at \in Int /\ x \in {0, t - b.at} /\ \A y \in {0, t - b.at} : x >= y
      BY <1>1, <1>2, AdmissionOK
    <2>2. \A z \in {0, t - b.at} : (\A y \in {0, t - b.at} : z >= y) => z = x
      BY <1>1, <1>2, AdmissionOK
    <2> QED BY <2>1, <2>2 DEF Max
  <1>4. PICK sum \in Nat : sum = b.tokens + x
    BY <1>2, AdmissionOK
  <1>5. PICK f : f = IF Burst < sum THEN Burst ELSE sum
    OBVIOUS
  <1>6. Min({Burst, sum}) = f
    <2>1. f \in {Burst, sum} /\ \A y \in {Burst, sum} : f <= y
      BY <1>4, <1>5, AdmissionOK
    <2>2. \A z \in {Burst, sum} : (\A y \in {Burst, sum} : z <= y) => z = f
      BY <1>4, <1>5, AdmissionOK
    <2> QED BY <2>1, <2>2 DEF Min
  <1>7. Refilled(b, t) = [tokens |-> f, at |-> t]
    BY <1>3, <1>4, <1>6 DEF Refilled
  <1>8. f \in 0..Burst /\ f <= b.tokens + x
    BY <1>2, <1>4, <1>5, AdmissionOK
  <1> QED BY <1>1, <1>7, <1>8

\* What a history says of a stretch of time is a difference of two of its values.
LEMMA AdmittedValue ==
    ASSUME NEW h \in [0..MaxTime -> Nat], NEW s \in 0..MaxTime, NEW t \in 0..MaxTime
    PROVE  /\ AdmittedIn(h, s, t) \in Int
           /\ s = 0 => AdmittedIn(h, s, t) = h[t]
           /\ s # 0 => s - 1 \in 0..MaxTime /\ AdmittedIn(h, s, t) = h[t] - h[s - 1]
  <1>1. s # 0 => s - 1 \in 0..MaxTime
    BY AdmissionOK
  <1>2. CASE s = 0
    BY <1>2 DEF AdmittedIn
  <1>3. CASE s # 0
    BY <1>1, <1>3 DEF AdmittedIn
  <1> QED BY <1>2, <1>3

\* From a time that is past, the bucket has admitted what it had, and a request admitted now.
Continues(k, h, n, took) ==
    \A i \in 0..MaxTime : k[i] = IF i < n THEN h[i] ELSE h[i] + took

\* The history k counts took more requests than h at n, and as many in any window before n.
AdmitsMore(k, h, n, took) ==
    \A s, t \in 0..MaxTime : s <= t /\ t <= n =>
        /\ AdmittedIn(h, s, t) \in Int
        /\ AdmittedIn(k, s, t) = AdmittedIn(h, s, t) + (IF t = n THEN took ELSE 0)

LEMMA AdmittedMore ==
    ASSUME NEW h \in [0..MaxTime -> Nat], NEW n \in 0..MaxTime, NEW took \in {0, 1},
           NEW k \in [0..MaxTime -> Nat], Continues(k, h, n, took)
    PROVE  AdmitsMore(k, h, n, took)
  <1> SUFFICES ASSUME NEW s \in 0..MaxTime, NEW t \in 0..MaxTime, s <= t, t <= n
               PROVE  /\ AdmittedIn(h, s, t) \in Int
                      /\ AdmittedIn(k, s, t) = AdmittedIn(h, s, t) + (IF t = n THEN took ELSE 0)
    BY DEF AdmitsMore
  <1>1. h[t] \in Nat /\ k[t] = h[t] + (IF t = n THEN took ELSE 0)
    BY AdmissionOK DEF Continues
  <1>2. CASE s = 0
    BY ZenonT(60), <1>1, <1>2, AdmittedValue
  <1>3. CASE s # 0
    <2>1. s - 1 \in 0..MaxTime /\ s - 1 < n
      BY <1>3, AdmissionOK
    <2>2. k[s - 1] = h[s - 1] /\ h[s - 1] \in Nat
      BY <2>1 DEF Continues
    <2>3. AdmittedIn(k, s, t) = k[t] - k[s - 1] /\ AdmittedIn(h, s, t) = h[t] - h[s - 1]
      BY <1>3, AdmittedValue
    <2> QED BY <1>1, <2>2, <2>3
  <1> QED BY <1>2, <1>3

\* The bucket a request spends from, or is refused by.
LEMMA SpendBucket ==
    ASSUME AdmissionInv, NEW b \in Buckets, NEW time \in Nat, time <= now, NEW took \in {0, 1},
           NEW f, f = Refilled(bucket[b], time).tokens, took <= f,
           NEW g, g = [tokens |-> f - took, at |-> time], bucket' = [bucket EXCEPT ![b] = g],
           NEW h, h = admitted[b],
           NEW k \in [0..MaxTime -> Nat],
           \A t \in 0..MaxTime : k[t] = IF t < now THEN h[t] ELSE h[t] + took,
           admitted' = [admitted EXCEPT ![b] = k],
           lag' = [lag EXCEPT ![b] = @ + now - time],
           UNCHANGED now
    PROVE  /\ bucket' \in [Buckets -> [tokens : 0..Burst, at : 0..MaxTime]]
           /\ lag' \in [Buckets -> Nat] /\ admitted' \in [Buckets -> [0..MaxTime -> Nat]]
           /\ \A c \in Buckets : BucketTrue(c)'
  <1>1. /\ now \in 0..MaxTime /\ bucket \in [Buckets -> [tokens : 0..Burst, at : 0..MaxTime]]
        /\ lag \in [Buckets -> Nat] /\ admitted \in [Buckets -> [0..MaxTime -> Nat]]
        /\ BucketTrue(b)
    BY DEF AdmissionInv, AdmissionTypeOK
  <1>2. PICK n \in 0..MaxTime : n = now
    BY <1>1
  <1>3. PICK tokens, at, l, m : tokens = bucket[b].tokens /\ at = bucket[b].at /\ l = lag[b] /\ m = l + n - time
    OBVIOUS
  <1>4. /\ n \in Nat /\ n <= MaxTime /\ time \in 0..MaxTime /\ l \in Nat /\ m \in Nat
        /\ m = l + (n - time) /\ time <= n
    BY SMTT(60), <1>1, <1>2, <1>3, AdmissionOK
  <1>5. /\ tokens \in 0..Burst /\ at \in 0..MaxTime /\ at <= n
        /\ f \in 0..Burst /\ f <= tokens + (IF time > at THEN time - at ELSE 0)
    BY <1>1, <1>2, <1>3, RefillBounds DEF BucketTrue
  <1>6. f - took \in 0..Burst /\ g \in [tokens : 0..Burst, at : 0..MaxTime]
    BY SMTT(60), <1>4, <1>5, AdmissionOK
  <1>7. bucket' \in [Buckets -> [tokens : 0..Burst, at : 0..MaxTime]] /\ bucket'[b] = g
    BY <1>1, <1>6
  <1>8. lag' = [lag EXCEPT ![b] = m]
    BY <1>2, <1>3
  <1>9. lag' \in [Buckets -> Nat] /\ lag'[b] = m
    BY <1>1, <1>4, <1>8
  <1>10. h \in [0..MaxTime -> Nat] /\ \A t \in 0..MaxTime : k[t] = IF t < n THEN h[t] ELSE h[t] + took
    BY <1>1, <1>2
  <1>11. ASSUME NEW s \in 0..MaxTime, NEW t \in 0..MaxTime, s <= t, t <= n
         PROVE  /\ AdmittedIn(h, s, t) \in Int
                /\ AdmittedIn(k, s, t) = AdmittedIn(h, s, t) + (IF t = n THEN took ELSE 0)
    <2>1. AdmitsMore(k, h, n, took)
      <3>1. h \in [0..MaxTime -> Nat] /\ n \in 0..MaxTime /\ took \in {0, 1} /\ k \in [0..MaxTime -> Nat]
        BY <1>2, <1>10
      <3>2. Continues(k, h, n, took)
        BY <1>10 DEF Continues
      <3> QED BY <3>1, <3>2, AdmittedMore
    <2> QED BY <1>11, <2>1 DEF AdmitsMore
  <1>12. admitted' \in [Buckets -> [0..MaxTime -> Nat]] /\ admitted'[b] = k
    BY <1>1
  <1>13. /\ \A t \in 0..MaxTime : t >= n => h[t] = h[n]
         /\ \A s \in 0..MaxTime : s <= n /\ AdmittedIn(h, s, n) > 0 =>
                tokens + AdmittedIn(h, s, n) <= Burst + (at - s) + l
         /\ \A s, t \in 0..MaxTime : s <= t /\ t <= n => AdmittedIn(h, s, t) <= Burst + (t - s) + l
    BY <1>1, <1>2, <1>3 DEF BucketTrue
  <1>14. ASSUME NEW t \in 0..MaxTime, t >= n
         PROVE  k[t] = k[n]
    BY <1>4, <1>10, <1>13, <1>14
  <1>15. ASSUME NEW s \in 0..MaxTime, s <= n, AdmittedIn(k, s, n) > 0
         PROVE  (f - took) + AdmittedIn(k, s, n) <= Burst + (time - s) + m
    <2>1. PICK a \in Int : a = AdmittedIn(h, s, n)
      BY <1>4, <1>11, <1>15
    <2>2. AdmittedIn(k, s, n) = a + took
      BY <1>4, <1>11, <1>15, <2>1
    <2>3. (f - took) + (a + took) = f + a
      BY <1>5, <2>1
    <2>4. CASE a > 0
      <3>1. tokens + a <= Burst + (at - s) + l
        BY <1>13, <1>15, <2>1, <2>4
      <3>2. /\ time \in Int /\ at \in Int /\ s \in Int /\ tokens \in Int /\ f \in Int
            /\ m \in Int /\ l \in Int /\ n \in Int /\ Burst \in Int
        BY <1>4, <1>5, AdmissionOK
      <3>3. f + a <= Burst + (time - s) + m
        <4>1. CASE time > at
          BY SMTT(60), <1>4, <1>5, <3>1, <3>2, <4>1
        <4>2. CASE ~(time > at)
          BY SMTT(60), <1>4, <1>5, <3>1, <3>2, <4>2
        <4> QED BY <4>1, <4>2
      <3> QED BY <2>2, <2>3, <3>3
    <2>5. CASE a <= 0
      <3>1. f + a <= Burst + (time - s) + m
        BY SMTT(60), <1>4, <1>5, <1>15, <2>1, <2>5, AdmissionOK
      <3> QED BY <2>2, <2>3, <3>1
    <2> QED BY <2>1, <2>4, <2>5
  <1>16. ASSUME NEW s \in 0..MaxTime, NEW t \in 0..MaxTime, s <= t, t <= n
         PROVE  AdmittedIn(k, s, t) <= Burst + (t - s) + m
    <2>1. PICK a \in Int : a = AdmittedIn(h, s, t)
      BY <1>11, <1>16
    <2>2. AdmittedIn(k, s, t) = a + (IF t = n THEN took ELSE 0) /\ a <= Burst + (t - s) + l
      BY <1>11, <1>13, <1>16, <2>1
    <2>3. CASE t # n
      BY <1>4, <1>16, <2>1, <2>2, <2>3, AdmissionOK
    <2>4. CASE t = n /\ a + took > 0
      <3>1. (f - took) + (a + took) <= Burst + (n - s) + m - (n - time)
        BY <1>4, <1>15, <1>16, <2>1, <2>2, <2>4, AdmissionOK
      <3> QED BY SMTT(60), <1>4, <1>6, <1>16, <2>1, <2>2, <2>4, <3>1, AdmissionOK
    <2>5. CASE t = n /\ ~(a + took > 0)
      BY <1>4, <1>16, <2>1, <2>2, <2>5, AdmissionOK
    <2> QED BY <2>3, <2>4, <2>5
  <1>17. BucketTrue(b)'
    <2>1. bucket'[b].at = time /\ bucket'[b].tokens = f - took /\ now' = n
      BY <1>2, <1>7
    <2>2. time <= n
      BY <1>2
    <2> QED BY <1>9, <1>12, <1>14, <1>15, <1>16, <2>1, <2>2 DEF BucketTrue
  <1>18. ASSUME NEW c \in Buckets, c # b
         PROVE  BucketTrue(c)'
    <2>1. bucket'[c] = bucket[c] /\ lag'[c] = lag[c] /\ admitted'[c] = admitted[c]
      BY <1>1, <1>8, <1>18
    <2> QED BY <2>1 DEF AdmissionInv, BucketTrue
  <1> QED BY <1>7, <1>9, <1>12, <1>17, <1>18

LEMMA SpendKeeps ==
    ASSUME AdmissionInv, DatabaseInv, db' = db, NEW w \in Workers, Spend(w)
    PROVE  AdmissionInv' /\ DatabaseInv' /\ Within(AdmissionOps)
  <1>1. PICK b, time : b = BucketOf(w) /\ time = Time(w)
    OBVIOUS
  <1>2. /\ store \in {"memory", "redis"} /\ now \in Nat /\ gate \in [Instances -> 0..MaxInFlight]
        /\ AdmissionHeld(tx[w])
    BY AdmissionOK DEF AdmissionInv, AdmissionTypeOK
  <1>3. tx[w].op = (IF store = "memory" THEN "arrived" ELSE "timed")
    BY DEF Spend
  <1>4. tx[w].op \in {"arrived", "timed"} /\ b \in Buckets /\ time \in Nat /\ time <= now
    BY <1>1, <1>2, <1>3 DEF AdmissionHeld, AdmissionOps, BucketOf, Buckets, Time
  <1>5. PICK full : full = Refilled(bucket[b], time)
    OBVIOUS
  <1>6. full.at = time /\ full.tokens \in 0..Burst /\ full = [tokens |-> full.tokens, at |-> time]
    <2>1. bucket[b] \in [tokens : 0..Burst, at : 0..MaxTime]
      BY <1>4 DEF AdmissionInv, AdmissionTypeOK
    <2> QED BY <1>4, <1>5, <2>1, RefillBounds
  <1>7. lag' = [lag EXCEPT ![b] = @ + now - time] /\ UNCHANGED <<store, now>>
    BY <1>1 DEF Spend
  <1>8. CASE full.tokens >= 1
    <2>1. /\ bucket' = [bucket EXCEPT ![b] = [full EXCEPT !.tokens = @ - 1]]
          /\ admitted' = [admitted EXCEPT ![b] =
                              [t \in 0..MaxTime |-> IF t < now THEN @[t] ELSE @[t] + 1]]
          /\ tx' = [tx EXCEPT ![w].op = "inside"]
          /\ UNCHANGED gate
      BY <1>1, <1>5, <1>8 DEF Spend
    <2>2. [full EXCEPT !.tokens = @ - 1] = [tokens |-> full.tokens - 1, at |-> time]
      BY <1>6
    <2>3. /\ bucket' \in [Buckets -> [tokens : 0..Burst, at : 0..MaxTime]]
          /\ lag' \in [Buckets -> Nat] /\ admitted' \in [Buckets -> [0..MaxTime -> Nat]]
          /\ \A c \in Buckets : BucketTrue(c)'
      <3>1. PICK f, g : f = full.tokens /\ g = [tokens |-> f - 1, at |-> time]
        OBVIOUS
      <3>2. PICK h : h = admitted[b]
        OBVIOUS
      <3>3. PICK k : k = [t \in 0..MaxTime |-> IF t < now THEN h[t] ELSE h[t] + 1]
        OBVIOUS
      <3>7. h \in [0..MaxTime -> Nat]
        BY <1>4, <3>2 DEF AdmissionInv, AdmissionTypeOK
      <3>8. /\ k \in [0..MaxTime -> Nat]
            /\ \A t \in 0..MaxTime : k[t] = IF t < now THEN h[t] ELSE h[t] + 1
        BY <3>3, <3>7
      <3>4. bucket' = [bucket EXCEPT ![b] = g] /\ admitted' = [admitted EXCEPT ![b] = k]
        BY <2>1, <2>2, <3>1, <3>2, <3>3
      <3>5. f = Refilled(bucket[b], time).tokens /\ 1 <= f /\ 1 \in {0, 1}
        BY <1>5, <1>6, <1>8, <3>1, AdmissionOK
      <3>6. UNCHANGED now
        BY <1>7
      <3> QED BY <1>4, <1>7, <3>1, <3>2, <3>4, <3>5, <3>6, <3>8, SpendBucket
    <2>4. PICK r : r = Request("inside", tx[w].on, tx[w].by, tx[w].seen, tx[w].n, tx[w].open)
      OBVIOUS
    <2>5. Turns(w, r)
      BY <2>1, <2>4, OpTurns DEF DatabaseInv
    <2>6. r.op = "inside" /\ r.on = tx[w].on
      BY <2>4 DEF Request
    <2>7. AdmissionHeld(r) /\ \A i \in Instances : Holds(r, i) <=> Holds(tx[w], i)
      BY <1>2, <1>4, <2>6 DEF AdmissionHeld, AdmissionOps, Holds
    <2>8. /\ gate' \in [Instances -> 0..MaxInFlight] /\ GatesTrue'
          /\ \A v \in Workers : AdmissionHeld(tx[v])'
      BY <1>7, <2>1, <2>5, <2>7, GateKeeps
    <2>9. AdmissionTypeOK'
      BY <1>7, <2>3, <2>8 DEF AdmissionInv, AdmissionTypeOK
    <2>10. tx[w].open \in BOOLEAN
      BY DEF DatabaseInv, TxShape
    <2>11. DatabaseInv'
      BY <2>4, <2>5, <2>10, TurnKeepsDatabase
    <2>12. Within(AdmissionOps)
      BY <1>4, <2>4, <2>5, RequestWithin DEF AdmissionOps
    <2> QED BY <2>3, <2>8, <2>9, <2>11, <2>12 DEF AdmissionInv
  <1>9. CASE ~(full.tokens >= 1)
    <2>1. /\ bucket' = [bucket EXCEPT ![b] = full]
          /\ gate' = [gate EXCEPT ![tx[w].on] = @ - 1]
          /\ End(w) /\ UNCHANGED admitted
      BY <1>1, <1>5, <1>9 DEF Spend
    <2>2. admitted \in [Buckets -> [0..MaxTime -> Nat]]
      BY DEF AdmissionInv, AdmissionTypeOK
    <2>3. PICK h \in [0..MaxTime -> Nat] : h = admitted[b]
      BY <1>4, <2>2
    <2>5. /\ bucket' \in [Buckets -> [tokens : 0..Burst, at : 0..MaxTime]]
          /\ lag' \in [Buckets -> Nat] /\ admitted' \in [Buckets -> [0..MaxTime -> Nat]]
          /\ \A c \in Buckets : BucketTrue(c)'
      <3>1. PICK f, g : f = full.tokens /\ g = [tokens |-> f - 0, at |-> time]
        OBVIOUS
      <3>2. f \in 0..Burst /\ f - 0 = f
        BY <1>6, <3>1, AdmissionOK
      <3>3. g = full
        BY <1>6, <3>1, <3>2
      <3>4. \A t \in 0..MaxTime : h[t] = IF t < now THEN h[t] ELSE h[t] + 0
        <4> TAKE t \in 0..MaxTime
        <4>1. h[t] \in Nat
          BY <2>3
        <4>2. h[t] + 0 = h[t]
          BY <4>1
        <4> QED BY <4>2
      <3>6. admitted' = [admitted EXCEPT ![b] = h]
        BY <1>4, <2>1, <2>2, <2>3
      <3>7. bucket' = [bucket EXCEPT ![b] = g]
        BY <2>1, <3>3
      <3>8. f = Refilled(bucket[b], time).tokens /\ 0 <= f /\ 0 \in {0, 1}
        BY <1>5, <3>1, <3>2, AdmissionOK
      <3>9. UNCHANGED now
        BY <1>7
      <3> QED BY <1>4, <1>7, <2>3, <3>1, <3>4, <3>6, <3>7, <3>8, <3>9, SpendBucket
    <2>6. Turns(w, NoRequest) /\ tx[w].op \in AdmissionOps
      BY <1>4, <2>1, EndTurns DEF DatabaseInv, AdmissionOps
    <2>7. AdmissionHeld(NoRequest) /\ \A i \in Instances : ~Holds(NoRequest, i)
      BY NoRequestFields DEF AdmissionHeld, AdmissionOps, Holds
    <2>8. /\ gate' \in [Instances -> 0..MaxInFlight] /\ GatesTrue'
          /\ \A v \in Workers : AdmissionHeld(tx[v])'
      BY <1>7, <2>1, <2>6, <2>7, GateKeeps
    <2>9. AdmissionTypeOK'
      BY <1>7, <2>5, <2>8 DEF AdmissionInv, AdmissionTypeOK
    <2> QED BY <2>5, <2>6, <2>8, <2>9, EndKeepsDatabase, EndWithin DEF AdmissionInv
  <1> QED BY <1>8, <1>9

LEMMA TimePassesKeeps ==
    ASSUME AdmissionInv, DatabaseInv, db' = db, TimePasses
    PROVE  AdmissionInv' /\ DatabaseInv' /\ Within(AdmissionOps)
  <1>1. now < MaxTime /\ now' = now + 1 /\ UNCHANGED <<tx, store, gate, bucket, admitted, lag>>
    BY DEF TimePasses
  <1>2. AdmissionTypeOK' /\ now \in Nat
    BY <1>1, AdmissionOK DEF AdmissionInv, AdmissionTypeOK
  <1>3. GatesTrue'
    BY <1>1 DEF AdmissionInv, GatesTrue, Holders
  <1>4. \A w \in Workers : AdmissionHeld(tx[w])'
    <2> TAKE w \in Workers
    <2>1. AdmissionHeld(tx[w]) /\ tx'[w] = tx[w]
      BY <1>1 DEF AdmissionInv
    <2> QED BY <1>1, <1>2, <2>1 DEF AdmissionHeld
  <1>5. ASSUME NEW b \in Buckets
        PROVE  BucketTrue(b)'
    <2>1. PICK h, n, g, l : h = admitted[b] /\ n = now /\ g = bucket[b] /\ l = lag[b]
      OBVIOUS
    <2>2. /\ h \in [0..MaxTime -> Nat] /\ l \in Nat /\ n \in Nat /\ n < MaxTime
          /\ g.at \in Nat /\ g.tokens \in Nat /\ g.at <= n
      <3>1. BucketTrue(b) /\ bucket[b] \in [tokens : 0..Burst, at : 0..MaxTime]
        BY DEF AdmissionInv, AdmissionTypeOK
      <3>2. h \in [0..MaxTime -> Nat] /\ l \in Nat
        BY <2>1 DEF AdmissionInv, AdmissionTypeOK
      <3>3. g.at \in Nat /\ g.tokens \in Nat
        BY <2>1, <3>1, AdmissionOK
      <3> QED BY <1>1, <1>2, <2>1, <3>1, <3>2, <3>3 DEF BucketTrue
    <2>3. /\ \A t \in 0..MaxTime : t >= n => h[t] = h[n]
          /\ \A s \in 0..MaxTime : s <= n /\ AdmittedIn(h, s, n) > 0 =>
                 g.tokens + AdmittedIn(h, s, n) <= Burst + (g.at - s) + l
          /\ \A s, t \in 0..MaxTime : s <= t /\ t <= n => AdmittedIn(h, s, t) <= Burst + (t - s) + l
      BY <2>1 DEF AdmissionInv, BucketTrue
    <2>4. n \in 0..MaxTime /\ n + 1 \in 0..MaxTime /\ h[n + 1] = h[n]
      BY <2>2, <2>3, AdmissionOK
    <2>5. \A t \in 0..MaxTime : t >= n + 1 => h[t] = h[n + 1]
      BY <2>2, <2>3, <2>4, AdmissionOK
    <2>6. ASSUME NEW s \in 0..MaxTime
          PROVE  AdmittedIn(h, s, n + 1) = AdmittedIn(h, s, n) /\ AdmittedIn(h, s, n) \in Int
      <3>1. CASE s = 0
        <4>1. AdmittedIn(h, s, n + 1) = h[n + 1]
          BY <2>2, <2>4, <3>1, AdmittedValue
        <4>2. AdmittedIn(h, s, n) = h[n] /\ AdmittedIn(h, s, n) \in Int
          BY <2>2, <2>4, <3>1, AdmittedValue
        <4> QED BY <2>4, <4>1, <4>2
      <3>2. CASE s # 0
        <4>1. AdmittedIn(h, s, n + 1) = h[n + 1] - h[s - 1]
          BY <2>2, <2>4, <3>2, AdmittedValue
        <4>2. AdmittedIn(h, s, n) = h[n] - h[s - 1] /\ AdmittedIn(h, s, n) \in Int
          BY <2>2, <2>4, <3>2, AdmittedValue
        <4> QED BY <2>4, <4>1, <4>2
      <3> QED BY <3>1, <3>2
    <2>7. AdmittedIn(h, n + 1, n + 1) = 0
      <3>1. n + 1 # 0 /\ (n + 1) - 1 = n /\ h[n] \in Nat
        BY <2>2, <2>4
      <3>2. AdmittedIn(h, n + 1, n + 1) = h[n + 1] - h[(n + 1) - 1]
        BY <2>2, <2>4, <3>1, AdmittedValue
      <3> QED BY <2>4, <3>1, <3>2
    <2>8. ASSUME NEW s \in 0..MaxTime, s <= n + 1, AdmittedIn(h, s, n + 1) > 0
          PROVE  g.tokens + AdmittedIn(h, s, n + 1) <= Burst + (g.at - s) + l
      <3>1. s <= n
        BY <2>2, <2>7, <2>8, AdmissionOK
      <3> QED BY <2>3, <2>6, <2>8, <3>1
    <2>9. ASSUME NEW s \in 0..MaxTime, NEW t \in 0..MaxTime, s <= t, t <= n + 1
          PROVE  AdmittedIn(h, s, t) <= Burst + (t - s) + l
      <3>1. CASE t <= n
        BY <2>3, <2>9, <3>1
      <3>2. CASE t = n + 1 /\ s = n + 1
        BY <2>2, <2>7, <3>2, AdmissionOK
      <3>3. CASE t = n + 1 /\ s <= n
        <4>1. PICK a \in Int : a = AdmittedIn(h, s, t) /\ a = AdmittedIn(h, s, n)
          BY <2>6, <3>3
        <4>2. a <= Burst + (n - s) + l
          BY <2>2, <2>3, <2>4, <3>3, <4>1
        <4> QED BY <2>2, <3>3, <4>1, <4>2, AdmissionOK
      <3> QED BY <2>2, <2>9, <3>1, <3>2, <3>3, AdmissionOK
    <2>10. /\ now' = n + 1 /\ bucket'[b] = g /\ lag'[b] = l /\ admitted'[b] = h /\ g.at <= n + 1
      BY <1>1, <2>1, <2>2
    <2> QED BY <2>5, <2>8, <2>9, <2>10 DEF BucketTrue
  <1>6. DatabaseInv' /\ Within(AdmissionOps)
    BY <1>1, StutterKeepsDatabase DEF Within
  <1> QED BY <1>2, <1>3, <1>4, <1>5, <1>6 DEF AdmissionInv

LEMMA AdmissionPartKeeps ==
    ASSUME AdmissionInv, DatabaseInv, db' = db, AdmissionPart
    PROVE  AdmissionInv' /\ DatabaseInv' /\ Within(AdmissionOps)
  BY TimePassesKeeps, ArriveKeeps, ReadClockKeeps, SpendKeeps DEF AdmissionPart, AdmissionStep

LEMMA AdmissionElsewhere ==
    ASSUME AdmissionInv, UNCHANGED admission, NEW ops, Within(ops), ops \cap AdmissionOps = {}
    PROVE  AdmissionInv'
  <1>1. \A v \in Workers : tx[v].op \in AdmissionOps \/ tx'[v].op \in AdmissionOps => tx'[v] = tx[v]
    BY WithinElsewhere DEF AdmissionOps
  <1>2. UNCHANGED <<store, gate, bucket, now, admitted, lag>>
    BY DEF admission
  <1>3. AdmissionTypeOK' /\ \A b \in Buckets : BucketTrue(b)'
    BY <1>2 DEF AdmissionInv, AdmissionTypeOK, BucketTrue
  <1>4. \A i \in Instances : Holders(i)' = Holders(i)
    BY <1>1 DEF Holders, Holds
  <1>5. GatesTrue'
    BY <1>2, <1>4 DEF AdmissionInv, GatesTrue
  <1>6. \A w \in Workers : AdmissionHeld(tx[w])'
    BY <1>1, <1>2 DEF AdmissionInv, AdmissionHeld, AdmissionOps
  <1> QED BY <1>3, <1>5, <1>6 DEF AdmissionInv

LEMMA AdmissionStarts ==
    ASSUME DatabaseInit, AdmissionInit
    PROVE  AdmissionInv
  <1>1. \A w \in Workers : tx[w].op = "none"
    BY NoRequestFields DEF DatabaseInit
  <1>2. AdmissionTypeOK
    BY AdmissionOK DEF AdmissionInit, AdmissionTypeOK
  <1>3. GatesTrue
    <2>1. \A i \in Instances : Holders(i) = {}
      BY <1>1 DEF Holders, Holds, AdmissionOps
    <2> QED BY <2>1, FS_EmptySet DEF GatesTrue, AdmissionInit
  <1>4. \A w \in Workers : AdmissionHeld(tx[w])
    BY <1>1 DEF AdmissionHeld, AdmissionOps
  <1>5. ASSUME NEW b \in Buckets
        PROVE  BucketTrue(b)
    <2>1. /\ now = 0 /\ bucket[b].at = 0 /\ lag[b] = 0
          /\ \A t \in 0..MaxTime : admitted[b][t] = 0
      BY DEF AdmissionInit
    <2>2. PICK h : h = admitted[b]
      OBVIOUS
    <2>3. h \in [0..MaxTime -> Nat]
      BY <2>2 DEF AdmissionInit
    <2>4. \A s, t \in 0..MaxTime : AdmittedIn(h, s, t) = 0
      <3> TAKE s, t \in 0..MaxTime
      <3>1. h[t] = 0
        BY <2>1, <2>2
      <3>2. CASE s = 0
        BY ZenonT(60), <2>3, <3>1, <3>2, AdmittedValue
      <3>3. CASE s # 0
        <4>1. s - 1 \in 0..MaxTime /\ AdmittedIn(h, s, t) = h[t] - h[s - 1]
          BY <2>3, <3>3, AdmittedValue
        <4>2. h[s - 1] = 0
          BY <2>1, <2>2, <4>1
        <4> QED BY <3>1, <4>1, <4>2
      <3> QED BY <3>2, <3>3
    <2> QED BY <2>1, <2>2, <2>4, AdmissionOK DEF BucketTrue
  <1> QED BY <1>2, <1>3, <1>4, <1>5 DEF AdmissionInv

LEMMA AdmissionGives ==
    ASSUME AdmissionInv
    PROVE  AdmissionTypeOK /\ AdmittedWithinLimits
  <1>1. \A i \in Instances : {w \in Workers : Held(w) /\ tx[w].on = i} = Holders(i)
    BY DEF Holders, Holds, Held, AdmissionOps
  <1>2. \A i \in Instances : gate[i] = Cardinality({w \in Workers : Held(w) /\ tx[w].on = i})
    BY <1>1 DEF AdmissionInv, GatesTrue
  <1>3. \A b \in Buckets, s, t \in 0..MaxTime :
            s <= t /\ t <= now => AdmittedIn(admitted[b], s, t) <= Burst + (t - s) + lag[b]
    BY DEF AdmissionInv, BucketTrue
  <1> QED BY <1>2, <1>3 DEF AdmissionInv, AdmittedWithinLimits

-----------------------------------------------------------------------------
(* The gateway as a whole.                                                 *)

BrokerInv == CallInv /\ ExecutionInv /\ GrantInv /\ SweepInv /\ CacheInv /\ AdmissionInv
RecordsInv == RevisionInv /\ NoteInv /\ EventInv /\ ToolkitInv

\* The inductive invariant: the transactions of the database, and what each part keeps.
GatewayInv == DatabaseInv /\ BrokerInv /\ RecordsInv

\* A step of one part, and of requests that are not another's, leaves that other's standing.
LEMMA OthersStand ==
    ASSUME GatewayInv, db' = db, NEW ops, Within(ops)
    PROVE  /\ UNCHANGED idempotentCalls /\ ops \cap CallOps = {} => CallInv'
           /\ UNCHANGED executions /\ ops \cap ExecutionOps = {} => ExecutionInv'
           /\ UNCHANGED credentialTokens /\ ops \cap CredentialOps = {} => GrantInv' /\ SweepInv'
           /\ UNCHANGED lookupCaches => CacheInv'
           /\ UNCHANGED admission /\ ops \cap AdmissionOps = {} => AdmissionInv'
           /\ UNCHANGED revisions /\ ops \cap RegistryOps = {} => RevisionInv'
           /\ UNCHANGED notes /\ ops \cap NoteOps = {} => NoteInv'
           /\ UNCHANGED eventStream /\ ops \cap {"emit"} = {} => EventInv'
           /\ UNCHANGED toolkits /\ ops \cap ToolkitOps = {} => ToolkitInv'
  <1>1. UNCHANGED idempotentCalls /\ ops \cap CallOps = {} => CallInv'
    BY CallElsewhere DEF GatewayInv, BrokerInv
  <1>2. UNCHANGED executions /\ ops \cap ExecutionOps = {} => ExecutionInv'
    BY ExecutionElsewhere DEF GatewayInv, BrokerInv
  <1>3. UNCHANGED credentialTokens /\ ops \cap CredentialOps = {} => GrantInv' /\ SweepInv'
    BY CredentialElsewhere DEF GatewayInv, BrokerInv
  <1>4. UNCHANGED lookupCaches => CacheInv'
    BY CacheElsewhere DEF GatewayInv, BrokerInv
  <1>5. UNCHANGED admission /\ ops \cap AdmissionOps = {} => AdmissionInv'
    BY AdmissionElsewhere DEF GatewayInv, BrokerInv
  <1>6. ASSUME NEW others, ops \cap others = {}, "none" \notin others
        PROVE  \A v \in Workers : tx[v].op \in others \/ tx'[v].op \in others => tx'[v] = tx[v]
    BY <1>6, WithinElsewhere
  <1>7. UNCHANGED revisions /\ ops \cap RegistryOps = {} => RevisionInv'
    <2>1. "none" \notin RegistryOps
      BY DEF RegistryOps
    <2> QED BY <1>6, <2>1, RegistryElsewhere DEF GatewayInv, RecordsInv
  <1>8. UNCHANGED notes /\ ops \cap NoteOps = {} => NoteInv'
    <2>1. "none" \notin NoteOps
      BY DEF NoteOps
    <2> QED BY <1>6, <2>1, NoteElsewhere DEF GatewayInv, RecordsInv
  <1>9. UNCHANGED eventStream /\ ops \cap {"emit"} = {} => EventInv'
    <2>1. ASSUME UNCHANGED eventStream, ops \cap {"emit"} = {}
          PROVE  EventInv'
      <3>1. "none" \notin {"emit"}
        OBVIOUS
      <3>2. \A v \in Workers : tx[v].op \in {"emit"} \/ tx'[v].op \in {"emit"} => tx'[v] = tx[v]
        BY <1>6, <2>1, <3>1
      <3> QED BY <2>1, <3>2, EventElsewhere DEF GatewayInv, RecordsInv
    <2> QED BY <2>1
  <1>10. UNCHANGED toolkits /\ ops \cap ToolkitOps = {} => ToolkitInv'
    <2>1. "none" \notin ToolkitOps
      BY DEF ToolkitOps
    <2> QED BY <1>6, <2>1, ToolkitElsewhere DEF GatewayInv, RecordsInv
  <1> QED BY <1>1, <1>2, <1>3, <1>4, <1>5, <1>7, <1>8, <1>9, <1>10

\* The parts serve different requests.
LEMMA PartsApart ==
    /\ \A X \in {ExecutionOps, CredentialOps, AdmissionOps, RegistryOps, NoteOps, {"emit"}, ToolkitOps} :
          CallOps \cap X = {}
    /\ \A X \in {CredentialOps, AdmissionOps, RegistryOps, NoteOps, {"emit"}, ToolkitOps} :
          ExecutionOps \cap X = {}
    /\ \A X \in {AdmissionOps, RegistryOps, NoteOps, {"emit"}, ToolkitOps} : CredentialOps \cap X = {}
    /\ \A X \in {RegistryOps, NoteOps, {"emit"}, ToolkitOps} : AdmissionOps \cap X = {}
    /\ \A X \in {NoteOps, {"emit"}, ToolkitOps} : RegistryOps \cap X = {}
    /\ \A X \in {{"emit"}, ToolkitOps} : NoteOps \cap X = {}
    /\ {"emit"} \cap ToolkitOps = {}
  BY DEF CallOps, ExecutionOps, CredentialOps, AdmissionOps, RegistryOps, NoteOps, ToolkitOps

LEMMA Apart ==
    ASSUME NEW X, NEW Y, X \cap Y = {}
    PROVE  Y \cap X = {}
  OBVIOUS

\* One step of the broker ...
LEMMA BrokerKeeps ==
    ASSUME GatewayInv, db' = db, BrokerPart
    PROVE  GatewayInv'
  <1>1. UNCHANGED <<revisions, toolkits, notes, eventStream>>
    BY DEF BrokerPart, records
  <1>2. CASE AdmissionPart
    <2>1. AdmissionInv' /\ DatabaseInv' /\ Within(AdmissionOps)
      BY <1>2, AdmissionPartKeeps DEF GatewayInv, BrokerInv
    <2>2. UNCHANGED <<lookupCaches, credentialTokens, idempotentCalls, executions>>
      BY <1>2 DEF AdmissionPart
    <2>3. CallInv' /\ ExecutionInv' /\ GrantInv' /\ SweepInv' /\ CacheInv' /\ RecordsInv'
      BY <1>1, <2>1, <2>2, OthersStand, PartsApart, Apart DEF RecordsInv
    <2> QED BY <2>1, <2>3 DEF GatewayInv, BrokerInv
  <1>3. CASE CachePart
    <2>1. CacheInv' /\ tx' = tx
      BY <1>3, CachePartKeeps DEF GatewayInv, BrokerInv, CachePart
    <2>2. UNCHANGED <<admission, credentialTokens, idempotentCalls, executions>>
      BY <1>3 DEF CachePart
    <2>3. DatabaseInv' /\ Within({})
      BY <2>1, StutterKeepsDatabase DEF GatewayInv, Within
    <2>4. \A X : {} \cap X = {}
      OBVIOUS
    <2>5. /\ CallInv' /\ ExecutionInv' /\ GrantInv' /\ SweepInv' /\ AdmissionInv' /\ RecordsInv'
      BY <1>1, <2>2, <2>3, <2>4, OthersStand DEF RecordsInv
    <2> QED BY <2>1, <2>3, <2>5 DEF GatewayInv, BrokerInv
  <1>4. CASE CredentialPart
    <2>1. GrantInv' /\ SweepInv' /\ DatabaseInv' /\ Within(CredentialOps)
      BY <1>4, CredentialPartKeeps DEF GatewayInv, BrokerInv
    <2>2. UNCHANGED <<admission, lookupCaches, idempotentCalls, executions>>
      BY <1>4 DEF CredentialPart
    <2>3. CallInv' /\ ExecutionInv' /\ CacheInv' /\ AdmissionInv' /\ RecordsInv'
      BY <1>1, <2>1, <2>2, OthersStand, PartsApart, Apart DEF RecordsInv
    <2> QED BY <2>1, <2>3 DEF GatewayInv, BrokerInv
  <1>5. CASE CallPart
    <2>1. CallInv' /\ DatabaseInv' /\ Within(CallOps)
      BY <1>5, CallPartKeeps DEF GatewayInv, BrokerInv
    <2>2. UNCHANGED <<admission, lookupCaches, credentialTokens, executions>>
      BY <1>5 DEF CallPart
    <2>3. ExecutionInv' /\ GrantInv' /\ SweepInv' /\ CacheInv' /\ AdmissionInv' /\ RecordsInv'
      BY <1>1, <2>1, <2>2, OthersStand, PartsApart, Apart DEF RecordsInv
    <2> QED BY <2>1, <2>3 DEF GatewayInv, BrokerInv
  <1>6. CASE ExecutionPart
    <2>1. ExecutionInv' /\ DatabaseInv' /\ Within(ExecutionOps)
      BY <1>6, ExecutionPartKeeps DEF GatewayInv, BrokerInv
    <2>2. UNCHANGED <<admission, lookupCaches, credentialTokens, idempotentCalls>>
      BY <1>6 DEF ExecutionPart
    <2>3. CallInv' /\ GrantInv' /\ SweepInv' /\ CacheInv' /\ AdmissionInv' /\ RecordsInv'
      BY <1>1, <2>1, <2>2, OthersStand, PartsApart, Apart DEF RecordsInv
    <2> QED BY <2>1, <2>3 DEF GatewayInv, BrokerInv
  <1> QED BY <1>2, <1>3, <1>4, <1>5, <1>6 DEF BrokerPart

\* ... and one step of the records.
LEMMA RecordsKeep ==
    ASSUME GatewayInv, db' = db, RecordPart
    PROVE  GatewayInv'
  <1>1. UNCHANGED <<admission, lookupCaches, credentialTokens, idempotentCalls, executions>>
    BY DEF RecordPart, broker
  <1>2. CASE RegistryPart
    <2>1. RevisionInv' /\ DatabaseInv' /\ Within(RegistryOps)
      BY <1>2, RegistryPartKeeps DEF GatewayInv, RecordsInv
    <2>2. UNCHANGED <<toolkits, notes, eventStream>>
      BY <1>2 DEF RegistryPart
    <2>3. BrokerInv' /\ ToolkitInv' /\ NoteInv' /\ EventInv'
      BY <1>1, <2>1, <2>2, OthersStand, PartsApart, Apart DEF BrokerInv
    <2> QED BY <2>1, <2>3 DEF GatewayInv, RecordsInv
  <1>3. CASE ToolkitPart
    <2>1. ToolkitInv' /\ DatabaseInv' /\ Within(ToolkitOps)
      BY <1>3, ToolkitPartKeeps DEF GatewayInv, RecordsInv
    <2>2. UNCHANGED <<revisions, notes, eventStream>>
      BY <1>3 DEF ToolkitPart
    <2>3. BrokerInv' /\ RevisionInv' /\ NoteInv' /\ EventInv'
      BY <1>1, <2>1, <2>2, OthersStand, PartsApart, Apart DEF BrokerInv
    <2> QED BY <2>1, <2>3 DEF GatewayInv, RecordsInv
  <1>4. CASE NotePart
    <2>1. NoteInv' /\ DatabaseInv' /\ Within(NoteOps)
      BY <1>4, NotePartKeeps DEF GatewayInv, RecordsInv
    <2>2. UNCHANGED <<revisions, toolkits, eventStream>>
      BY <1>4 DEF NotePart
    <2>3. BrokerInv' /\ RevisionInv' /\ ToolkitInv' /\ EventInv'
      BY <1>1, <2>1, <2>2, OthersStand, PartsApart, Apart DEF BrokerInv
    <2> QED BY <2>1, <2>3 DEF GatewayInv, RecordsInv
  <1>5. CASE EventPart
    <2>1. EventInv' /\ DatabaseInv' /\ Within({"emit"})
      BY <1>5, EventPartKeeps DEF GatewayInv, RecordsInv
    <2>2. UNCHANGED <<revisions, toolkits, notes>>
      BY <1>5 DEF EventPart
    <2>3. BrokerInv' /\ RevisionInv' /\ ToolkitInv' /\ NoteInv'
      BY <1>1, <2>1, <2>2, OthersStand, PartsApart, Apart DEF BrokerInv
    <2> QED BY <2>1, <2>3 DEF GatewayInv, RecordsInv
  <1> QED BY <1>2, <1>3, <1>4, <1>5 DEF RecordPart

LEMMA GatewayStarts == Init => GatewayInv
  <1> SUFFICES ASSUME Init PROVE GatewayInv
    OBVIOUS
  <1>1. DatabaseInit /\ RecordsInit
        /\ AdmissionInit /\ LookupCachesInit /\ CredentialTokensInit /\ IdempotentCallsInit
        /\ ExecutionsInit
    BY DEF Init
  <1>2. BrokerInv
    BY <1>1, CallStarts, ExecutionStarts, CredentialStarts, CacheStarts, AdmissionStarts DEF BrokerInv
  <1>3. RecordsInv
    BY <1>1, RegistryStarts, NoteStarts, EventStarts, ToolkitStarts DEF RecordsInit, RecordsInv
  <1> QED BY <1>1, <1>2, <1>3, DatabaseStarts DEF GatewayInv

LEMMA GatewayStep == GatewayInv /\ [Next]_vars => GatewayInv'
  <1> SUFFICES ASSUME GatewayInv, [Next]_vars PROVE GatewayInv'
    OBVIOUS
  <1>1. CASE Next
    BY <1>1, BrokerKeeps, RecordsKeep DEF Next
  <1>2. CASE UNCHANGED vars
    <2>1. /\ db' = db /\ tx' = tx
          /\ UNCHANGED <<admission, lookupCaches, credentialTokens, idempotentCalls, executions>>
          /\ UNCHANGED <<revisions, toolkits, notes, eventStream>>
      BY <1>2 DEF vars, broker, records
    <2>2. DatabaseInv' /\ Within({})
      BY <2>1, StutterKeepsDatabase DEF GatewayInv, Within
    <2>3. \A X : {} \cap X = {}
      OBVIOUS
    <2>4. BrokerInv' /\ RecordsInv'
      BY <2>1, <2>2, <2>3, OthersStand DEF BrokerInv, RecordsInv
    <2> QED BY <2>2, <2>4 DEF GatewayInv
  <1> QED BY <1>1, <1>2

\* Every part keeps its invariant whatever the others do: the strengthening from which the
\* theorems below follow.
THEOREM GatewayInvariant == Spec => []GatewayInv
  <1>1. Init => GatewayInv
    BY GatewayStarts
  <1>2. GatewayInv /\ [Next]_vars => GatewayInv'
    BY GatewayStep
  <1> QED BY <1>1, <1>2, PTL DEF Spec

\* What the parts promise follows from their invariants.
LEMMA GatewayGives ==
    ASSUME GatewayInv
    PROVE  /\ TypeOK /\ CallsIdempotent /\ ExecutionsAccounted /\ RefreshKept /\ AnnouncedOnce
           /\ StaleBounded /\ AdmittedWithinLimits
           /\ CurrentIsLive /\ NoEditLost /\ FollowersSeeAll /\ DecisionAsListed
  <1>1. /\ IdempotentCallsTypeOK /\ CallsIdempotent /\ ExecutionsTypeOK /\ ExecutionsAccounted
        /\ CredentialTokensTypeOK /\ RefreshKept /\ AnnouncedOnce
    BY CallGives, ExecutionGives, CredentialGives DEF GatewayInv, BrokerInv
  <1>2. LookupCachesTypeOK /\ StaleBounded /\ AdmissionTypeOK /\ AdmittedWithinLimits
    BY CacheGives, AdmissionGives DEF GatewayInv, BrokerInv
  <1>3. /\ RevisionsTypeOK /\ CurrentIsLive /\ EventStreamTypeOK /\ FollowersSeeAll
        /\ ToolkitsTypeOK /\ DecisionAsListed
    BY RegistryGives, EventGives, ToolkitGives DEF GatewayInv, RecordsInv
  <1>4. NotesTypeOK /\ NoEditLost
    BY DEF GatewayInv, RecordsInv, NoteInv
  <1>5. Serial => \A v, w \in Workers : tx[v].open /\ tx[w].open => v = w
    BY DEF GatewayInv, DatabaseInv, OneWriter
  <1> QED BY <1>1, <1>2, <1>3, <1>4, <1>5 DEF TypeOK, RecordsTypeOK

\* Every variable of the gateway keeps its type, and SQLite has one open transaction.
THEOREM GatewayTyped == Spec => []TypeOK
  <1>1. GatewayInv => TypeOK
    BY GatewayGives
  <1> QED BY <1>1, GatewayInvariant, PTL

\* Under one key the upstream is called once, and once more for every time the key expired;
\* what is replayed is the recorded answer to that very request (SharedStateIdempotencyStore).
THEOREM CallsExecutedOnce == Spec => []CallsIdempotent
  <1>1. GatewayInv => CallsIdempotent
    BY GatewayGives
  <1> QED BY <1>1, GatewayInvariant, PTL

\* However often a job is delivered and wherever a process stops, no caller, event or result
\* of a job says of an execution a success that is not on record, what is on record was
\* reported, and only jobs report failures besides it (run_execution, ExecutionHandler.execute).
THEOREM ExecutionsRecorded == Spec => []ExecutionsAccounted
  <1>1. GatewayInv => ExecutionsAccounted
    BY GatewayGives
  <1> QED BY <1>1, GatewayInvariant, PTL

\* The stored refresh token is one the provider accepts, or one whose replacement is about
\* to be written or could not be (TokenRefresher, ConnectService.complete).
THEOREM RefreshTokensKept == Spec => []RefreshKept
  <1>1. GatewayInv => RefreshKept
    BY GatewayGives
  <1> QED BY <1>1, GatewayInvariant, PTL

\* An expiry is announced once for every time its marker was lost, and once more, however
\* many scanners sweep (CredentialExpiryScanner.sweep).
THEOREM ExpiriesAnnouncedOnce == Spec => []AnnouncedOnce
  <1>1. GatewayInv => AnnouncedOnce
    BY GatewayGives
  <1> QED BY <1>1, GatewayInvariant, PTL

\* No request is served a cached decision older than its time to live and the load that
\* made it (CachedTokenValidator, CachingToolkitDeriver, RuleEvaluator).
THEOREM StalenessBounded == Spec => []StaleBounded
  <1>1. GatewayInv => StaleBounded
    BY GatewayGives
  <1> QED BY <1>1, GatewayInvariant, PTL

\* An instance counts the requests it holds, and in any stretch of time a bucket admits its
\* burst and the refill, however many workers spend from it (_AdmissionGate, token_bucket).
THEOREM AdmissionLimited == Spec => []AdmittedWithinLimits
  <1>1. GatewayInv => AdmittedWithinLimits
    BY GatewayGives
  <1> QED BY <1>1, GatewayInvariant, PTL

\* Where transactions are serial, an API points to its one active revision, if it has one,
\* and counts the revisions it has (RevisionService, FinalizeStage, ApiService.delete).
THEOREM CurrentServes == Spec => []CurrentIsLive
  <1>1. GatewayInv => CurrentIsLive
    BY GatewayGives
  <1> QED BY <1>1, GatewayInvariant, PTL

\* Where transactions are serial, an archived revision and a deprecated overlay change no
\* more until they are deleted (promote accepts drafts, confirm pending overlays).
THEOREM EndStatesStand == Spec => EndStatesFinal
  <1> DEFINE A == Serial =>
                    /\ \A d \in Digests : revision[d].state = "archived" =>
                                              revision'[d].state \in {"archived", "absent"}
                    /\ overlay = "deprecated" => overlay' \in {"deprecated", "absent"}
  <1>1. ASSUME GatewayInv, [Next]_vars
        PROVE  [A]_revisions
    <2>1. CASE RegistryPart
      BY <1>1, <2>1, EndStatesStep DEF GatewayInv, RecordsInv
    <2>2. CASE ~RegistryPart
      BY <1>1, <2>2 DEF Next, vars, records, BrokerPart, RecordPart, ToolkitPart, NotePart, EventPart
    <2> QED BY <2>1, <2>2
  <1>2. GatewayInv /\ [Next]_vars => [A]_revisions
    BY <1>1
  <1> QED BY <1>2, GatewayInvariant, PTL DEF Spec, EndStatesFinal

\* Where transactions are serial, no request with If-Match overwrites or deletes an edit its
\* author had not read (NoteService.update, NoteService.delete).
THEOREM EditsKept == Spec => []NoEditLost
  <1>1. GatewayInv => NoEditLost
    BY GatewayGives
  <1> QED BY <1>1, GatewayInvariant, PTL

\* Where transactions are serial, a follower received every event between the connection that
\* first brought him one and the last he received, once and in order (EventStreamService.stream).
THEOREM FollowersServed == Spec => []FollowersSeeAll
  <1>1. GatewayInv => FollowersSeeAll
    BY GatewayGives
  <1> QED BY <1>1, GatewayInvariant, PTL

\* Where transactions are serial, the broker decides by the rules of a toolkit as their
\* editors list them, after any patches (ToolkitPermissionRepository, evaluate_rules).
THEOREM ToolkitsDecide == Spec => []DecisionAsListed
  <1>1. GatewayInv => DecisionAsListed
    BY GatewayGives
  <1> QED BY <1>1, GatewayInvariant, PTL

\* A step of the broker, or of the records, is a step of the abstract key, or a stutter of it.
LEMMA GatewayRefines ==
    ASSUME GatewayInv, [Next]_vars
    PROVE  [Keys!Next]_Keys!promised
  <1>1. CASE UNCHANGED vars
    <2>1. UNCHANGED idempotentCalls /\ tx' = tx
      BY <1>1 DEF vars, broker
    <2>2. Within({}) /\ {} \cap CallOps = {}
      BY <2>1 DEF Within
    <2> QED BY <2>1, <2>2, ElsewhereRefines
  <1>2. ASSUME db' = db, CallPart
        PROVE  [Keys!Next]_Keys!promised
    BY <1>2, CallPartRefines DEF GatewayInv, BrokerInv
  <1>3. ASSUME db' = db, UNCHANGED idempotentCalls,
               NEW ops \in {{}, AdmissionOps, CredentialOps, ExecutionOps, RegistryOps, ToolkitOps,
                            NoteOps, {"emit"}},
               Within(ops)
        PROVE  [Keys!Next]_Keys!promised
    <2>1. ops \cap CallOps = {}
      BY PartsApart, Apart
    <2> QED BY <1>3, <2>1, ElsewhereRefines
  <1>4. ASSUME db' = db, BrokerPart, ~CallPart
        PROVE  [Keys!Next]_Keys!promised
    <2>1. CASE AdmissionPart
      <3>1. Within(AdmissionOps) /\ UNCHANGED idempotentCalls
        BY <1>4, <2>1, AdmissionPartKeeps DEF GatewayInv, BrokerInv, AdmissionPart
      <3> QED BY <1>3, <1>4, <3>1
    <2>2. CASE CachePart
      <3>1. Within({}) /\ UNCHANGED idempotentCalls
        BY <2>2 DEF CachePart, Within
      <3> QED BY <1>3, <1>4, <3>1
    <2>3. CASE CredentialPart
      <3>1. Within(CredentialOps) /\ UNCHANGED idempotentCalls
        BY <1>4, <2>3, CredentialPartKeeps DEF GatewayInv, BrokerInv, CredentialPart
      <3> QED BY <1>3, <1>4, <3>1
    <2>4. CASE ExecutionPart
      <3>1. Within(ExecutionOps) /\ UNCHANGED idempotentCalls
        BY <1>4, <2>4, ExecutionPartKeeps DEF GatewayInv, BrokerInv, ExecutionPart
      <3> QED BY <1>3, <1>4, <3>1
    <2> QED BY <1>4, <2>1, <2>2, <2>3, <2>4 DEF BrokerPart
  <1>5. ASSUME db' = db, RecordPart
        PROVE  [Keys!Next]_Keys!promised
    <2>1. UNCHANGED idempotentCalls
      BY <1>5 DEF RecordPart, broker
    <2>2. CASE RegistryPart
      <3>1. Within(RegistryOps)
        BY <1>5, <2>2, RegistryPartKeeps DEF GatewayInv, RecordsInv
      <3> QED BY <1>3, <1>5, <2>1, <3>1
    <2>3. CASE ToolkitPart
      <3>1. Within(ToolkitOps)
        BY <1>5, <2>3, ToolkitPartKeeps DEF GatewayInv, RecordsInv
      <3> QED BY <1>3, <1>5, <2>1, <3>1
    <2>4. CASE NotePart
      <3>1. Within(NoteOps)
        BY <1>5, <2>4, NotePartKeeps DEF GatewayInv, RecordsInv
      <3> QED BY <1>3, <1>5, <2>1, <3>1
    <2>5. CASE EventPart
      <3>1. Within({"emit"})
        BY <1>5, <2>5, EventPartKeeps DEF GatewayInv, RecordsInv
      <3> QED BY <1>3, <1>5, <2>1, <3>1
    <2> QED BY <1>5, <2>2, <2>3, <2>4, <2>5 DEF RecordPart
  <1> QED BY <1>1, <1>2, <1>4, <1>5 DEF Next

\* The gateway implements the abstract key: every claim, call, record, answer and replay is
\* what the key allows at that moment, whatever is abandoned, expires or runs in between
\* (SharedStateIdempotencyStore, execute.py).
THEOREM KeysKeepTheirPromise == Spec => KeysPromise
  <1>1. Init => Keys!Init
    BY KeysStart DEF Init
  <1>2. GatewayInv /\ [Next]_vars => [Keys!Next]_Keys!promised
    BY GatewayRefines
  <1> QED BY <1>1, <1>2, GatewayInvariant, PTL DEF Spec, KeysPromise, Keys!Spec
=============================================================================
