---------------------------- MODULE StorageProofs ----------------------------
(***************************************************************************)
(* Proofs about Storage: what a client of the catalogue is shown, what a   *)
(* client that pages through a list has seen, and what a service's call    *)
(* has written.                                                            *)
(***************************************************************************)
EXTENDS Storage, DatabaseProofs, FiniteSetTheorems, SequenceTheorems

-----------------------------------------------------------------------------
(* The cached catalogue.                                                   *)

ClientRecord ==
    [ask : Asks \cup {"none"}, step : Steps, since : Nat, read : Nat, again : BOOLEAN,
     covered : BOOLEAN, excused : BOOLEAN]

\* The snapshot is fresh enough for who asked then.
FreshSince(s) == snapshot # 0 /\ s <= snapshot + MaxAge

\* What a client knows at each step, unless he is excused.
ClientTrue(c) ==
    /\ c.since <= hour
    /\ MaxAge > 0 /\ ~c.excused =>
        /\ c.step = "read" => FreshSince(c.since)
        /\ c.step = "load" /\ c.again => FreshSince(c.since)
        /\ c.step = "fresh" => c.read = snapshot /\ (c.again => FreshSince(c.since))
        /\ c.step = "answer" => c.read # 0 /\ c.since <= c.read + MaxAge

\* A transaction of a refresh is of a client at that step.
ClientHeld(q, c) == q.op \in CatalogueOps => c.step = q.op

CatalogueTypes ==
    /\ hour \in Nat \ {0} /\ snapshot \in Nat /\ snapshot <= hour
    /\ client \in [Workers -> ClientRecord] /\ covered \in BOOLEAN

CatalogueInv ==
    /\ CatalogueTypes
    /\ \A w \in Workers : ClientTrue(client[w]) /\ ClientHeld(tx[w], client[w])

\* One client goes on, and with him the worker that serves him.
LEMMA ClientTurns ==
    ASSUME CatalogueInv, NEW w \in Workers, NEW c \in ClientRecord,
           client' = [client EXCEPT ![w] = c],
           hour' = hour, snapshot' = snapshot, covered' \in BOOLEAN, ClientTrue(c),
           ClientHeld(tx'[w], c), \A v \in Workers \ {w} : tx'[v] = tx[v]
    PROVE  CatalogueInv'
  <1>1. CatalogueTypes'
    BY DEF CatalogueInv, CatalogueTypes
  <1>2. ASSUME NEW v \in Workers
        PROVE  ClientTrue(client[v])' /\ ClientHeld(tx[v], client[v])'
    <2>1. CASE v = w
      <3>1. client'[v] = c
        BY <2>1 DEF CatalogueInv, CatalogueTypes
      <3> QED BY <2>1, <3>1 DEF ClientTrue, FreshSince, ClientHeld
    <2>2. CASE v # w
      <3>1. client'[v] = client[v] /\ tx'[v] = tx[v]
        BY <2>2 DEF CatalogueInv, CatalogueTypes
      <3>2. ClientTrue(client[v]) /\ ClientHeld(tx[v], client[v])
        BY DEF CatalogueInv
      <3> QED BY <3>1, <3>2 DEF ClientTrue, FreshSince, ClientHeld
    <2> QED BY <2>1, <2>2
  <1> QED BY <1>1, <1>2 DEF CatalogueInv

\* Nobody asks.
LEMMA NoClientTrue ==
    ASSUME CatalogueInv
    PROVE  NoClient \in ClientRecord /\ ClientTrue(NoClient) /\ NoClient.step = "none"
  BY DEF NoClient, ClientRecord, ClientTrue, Steps, CatalogueInv, CatalogueTypes

LEMMA ClientFacts ==
    ASSUME CatalogueInv, NEW w \in Workers
    PROVE  /\ client[w] \in ClientRecord /\ ClientTrue(client[w]) /\ ClientHeld(tx[w], client[w])
           /\ hour \in Nat \ {0} /\ snapshot \in Nat /\ snapshot <= hour /\ covered \in BOOLEAN
           /\ MaxAge \in Nat
  BY CatalogueOK DEF CatalogueInv, CatalogueTypes

\* The steps of a client outside of transactions.
QuietStep(w) ==
    \/ \E ask \in Asks : Ask(w, ask)
    \/ CheckFreshness(w) \/ LoadEntries(w) \/ LoadFreshness(w) \/ ReadEntry(w)
    \/ SkipRefresh(w) \/ Fetch(w) \/ FetchFails(w) \/ Answer(w) \/ QueueImport(w)

LEMMA QuietKeeps ==
    ASSUME CatalogueInv, NEW w \in Workers, QuietStep(w)
    PROVE  CatalogueInv' /\ tx' = tx
  <1>1. /\ tx' = tx /\ hour' = hour /\ snapshot' = snapshot /\ covered' = covered
    BY DEF QuietStep, Ask, CheckFreshness, LoadEntries, LoadFreshness, ReadEntry, SkipRefresh,
           Fetch, FetchFails, Answer, QueueImport, Goes
  <1> SUFFICES CatalogueInv'
    BY <1>1
  <1>2. PICK c0 \in ClientRecord : c0 = client[w] /\ ClientTrue(c0) /\ ClientHeld(tx[w], c0)
    BY ClientFacts
  <1>3. hour \in Nat /\ snapshot \in Nat /\ snapshot <= hour /\ covered \in BOOLEAN /\ MaxAge \in Nat
    BY ClientFacts
  <1> DEFINE Good(c) == c \in ClientRecord /\ ClientTrue(c) /\ ClientHeld(tx[w], c)
  <1>4. ASSUME NEW c, client' = [client EXCEPT ![w] = c], Good(c)
        PROVE  CatalogueInv'
    BY <1>1, <1>3, <1>4, ClientTurns
  <1>5. ASSUME c0.step \notin {"lock", "replace"}
        PROVE  tx[w].op \notin CatalogueOps
    BY <1>2, <1>5 DEF ClientHeld, CatalogueOps
  <1>6. CASE \E ask \in Asks : Ask(w, ask)
    <2>1. PICK ask \in Asks : Ask(w, ask)
      BY <1>6
    <2>2. PICK step \in {"load", "fetch", "check"} :
              client' = [client EXCEPT ![w] = [NoClient EXCEPT !.ask = ask, !.since = hour, !.step = step]]
      BY <2>1 DEF Ask
    <2>3. PICK c : c = [NoClient EXCEPT !.ask = ask, !.since = hour, !.step = step]
      OBVIOUS
    <2>4. c = [ask |-> ask, step |-> step, since |-> hour, read |-> 0, again |-> FALSE,
               covered |-> FALSE, excused |-> FALSE]
      BY <2>3 DEF NoClient
    <2>5. Good(c)
      BY <1>3, <2>1, <2>4 DEF Ask, ClientRecord, ClientTrue, ClientHeld, Steps, CatalogueOps
    <2> QED BY <1>4, <2>2, <2>3, <2>5
  <1>7. CASE CheckFreshness(w)
    <2>1. PICK step \in {"lock", "read"} : step = IF Stale THEN "lock" ELSE "read"
      OBVIOUS
    <2>2. PICK c : c = [c0 EXCEPT !.step = step]
      OBVIOUS
    <2>3. client' = [client EXCEPT ![w] = c] /\ c0.step = "check"
      BY <1>2, <1>7, <2>1, <2>2 DEF CheckFreshness, Goes
    <2>4. c \in ClientRecord /\ c.step = step /\ c.since = c0.since /\ c.excused = c0.excused
      BY <2>1, <2>2 DEF ClientRecord, Steps
    <2>5. ClientTrue(c)
      BY <1>2, <1>3, <2>1, <2>4 DEF ClientTrue, FreshSince, Stale, ClientRecord
    <2>6. ClientHeld(tx[w], c)
      BY <1>5, <2>3 DEF ClientHeld
    <2> QED BY <1>4, <2>3, <2>4, <2>5, <2>6
  <1>8. CASE LoadEntries(w)
    <2>1. PICK c : c = [c0 EXCEPT !.step = "fresh", !.read = snapshot]
      OBVIOUS
    <2>2. client' = [client EXCEPT ![w] = c] /\ c0.step = "load"
      BY <1>2, <1>8, <2>1 DEF LoadEntries
    <2>3. c \in ClientRecord /\ c.step = "fresh" /\ c.since = c0.since /\ c.excused = c0.excused
          /\ c.read = snapshot /\ c.again = c0.again
      BY <1>3, <2>1 DEF ClientRecord, Steps
    <2>4. ClientTrue(c)
      BY <1>2, <1>3, <2>2, <2>3 DEF ClientTrue, FreshSince, ClientRecord
    <2>5. ClientHeld(tx[w], c)
      BY <1>5, <2>2 DEF ClientHeld
    <2> QED BY <1>4, <2>2, <2>3, <2>4, <2>5
  <1>9. CASE LoadFreshness(w)
    <2>1. PICK c : c = IF Stale /\ ~c0.again THEN [c0 EXCEPT !.step = "lock", !.read = 0]
                       ELSE [c0 EXCEPT !.step = "answer"]
      OBVIOUS
    <2>2. client' = [client EXCEPT ![w] = c] /\ c0.step = "fresh"
      BY <1>2, <1>9, <2>1 DEF LoadFreshness
    <2>3. c \in ClientRecord /\ c.since = c0.since /\ c.excused = c0.excused
          /\ \/ Stale /\ ~c0.again /\ c.step = "lock"
             \/ ~(Stale /\ ~c0.again) /\ c.step = "answer" /\ c.read = c0.read
      BY <2>1 DEF ClientRecord, Steps
    <2>4. ClientTrue(c)
      BY <1>2, <1>3, <2>2, <2>3 DEF ClientTrue, FreshSince, Stale, ClientRecord
    <2>5. ClientHeld(tx[w], c)
      BY <1>5, <2>2 DEF ClientHeld
    <2> QED BY <1>4, <2>2, <2>3, <2>4, <2>5
  <1>10. CASE ReadEntry(w)
    <2>1. PICK b : b = (covered /\ client[w].ask = "ensure")
      OBVIOUS
    <2>2. b \in BOOLEAN
      BY <1>3, <2>1
    <2>3. PICK c : c = [c0 EXCEPT !.step = "answer", !.read = snapshot, !.covered = b]
      OBVIOUS
    <2>4. client' = [client EXCEPT ![w] = c] /\ c0.step = "read"
      BY <1>2, <1>10, <2>1, <2>3 DEF ReadEntry
    <2>5. c \in ClientRecord /\ c.step = "answer" /\ c.since = c0.since /\ c.excused = c0.excused
          /\ c.read = snapshot
      BY <1>3, <2>2, <2>3 DEF ClientRecord, Steps
    <2>6. ClientTrue(c)
      BY <1>2, <1>3, <2>4, <2>5 DEF ClientTrue, FreshSince, ClientRecord
    <2>7. ClientHeld(tx[w], c)
      BY <1>5, <2>4 DEF ClientHeld
    <2> QED BY <1>4, <2>4, <2>5, <2>6, <2>7
  <1>11. CASE SkipRefresh(w)
    <2>1. PICK step \in {"load", "read"} : step = Resumed(w)
      BY DEF Resumed
    <2>2. PICK c : c = [c0 EXCEPT !.step = step, !.again = TRUE, !.excused = TRUE]
      OBVIOUS
    <2>3. client' = [client EXCEPT ![w] = c] /\ tx[w].op = "none"
      BY <1>2, <1>11, <2>1, <2>2 DEF SkipRefresh
    <2>4. c \in ClientRecord /\ c.since = c0.since /\ c.excused = TRUE
      BY <2>1, <2>2 DEF ClientRecord, Steps
    <2>5. ClientTrue(c)
      BY <1>2, <2>4 DEF ClientTrue
    <2>6. ClientHeld(tx[w], c)
      BY <2>3 DEF ClientHeld, CatalogueOps
    <2> QED BY <1>4, <2>3, <2>4, <2>5, <2>6
  <1>12. CASE Fetch(w)
    <2>1. PICK c : c = [c0 EXCEPT !.step = "replace"]
      OBVIOUS
    <2>2. client' = [client EXCEPT ![w] = c] /\ c0.step = "fetch"
      BY <1>2, <1>12, <2>1 DEF Fetch, Goes
    <2>3. c \in ClientRecord /\ c.step = "replace" /\ c.since = c0.since
      BY <2>1 DEF ClientRecord, Steps
    <2>4. ClientTrue(c)
      BY <1>2, <2>3 DEF ClientTrue
    <2>5. ClientHeld(tx[w], c)
      BY <1>5, <2>2 DEF ClientHeld
    <2> QED BY <1>4, <2>2, <2>3, <2>4, <2>5
  <1>13. CASE FetchFails(w)
    <2>1. PICK step \in {"load", "read"} : step = Resumed(w)
      BY DEF Resumed
    <2>2. PICK c : c = IF c0.ask = "refresh" THEN NoClient
                       ELSE [c0 EXCEPT !.step = step, !.excused = TRUE]
      OBVIOUS
    <2>3. client' = [client EXCEPT ![w] = c] /\ c0.step = "fetch"
      BY <1>2, <1>13, <2>1, <2>2 DEF FetchFails
    <2>4. ClientHeld(tx[w], c)
      BY <1>5, <2>3 DEF ClientHeld
    <2>5. CASE c0.ask = "refresh"
      BY <1>4, <2>2, <2>3, <2>4, <2>5, NoClientTrue
    <2>6. CASE c0.ask # "refresh"
      <3>1. c \in ClientRecord /\ c.since = c0.since /\ c.excused = TRUE
        BY <2>1, <2>2, <2>6 DEF ClientRecord, Steps
      <3>2. ClientTrue(c)
        BY <1>2, <3>1 DEF ClientTrue
      <3> QED BY <1>4, <2>3, <2>4, <3>1, <3>2
    <2> QED BY <2>5, <2>6
  <1>14. CASE Answer(w) \/ QueueImport(w)
    <2>1. client' = [client EXCEPT ![w] = NoClient] /\ c0.step = "answer"
      BY <1>2, <1>14 DEF Answer, QueueImport
    <2>2. ClientHeld(tx[w], NoClient)
      BY <1>5, <2>1 DEF ClientHeld
    <2> QED BY <1>4, <2>1, <2>2, NoClientTrue
  <1> QED BY SMTT(60), <1>1, <1>6, <1>7, <1>8, <1>9, <1>10, <1>11, <1>12, <1>13, <1>14 DEF QuietStep

-----------------------------------------------------------------------------
(* The transactions of a refresh.                                          *)

LEMMA TryLockKeeps ==
    ASSUME CatalogueInv, DatabaseInv, db' = db, NEW w \in Workers, TryLock(w) \/ BeginReplace(w)
    PROVE  CatalogueInv' /\ DatabaseInv' /\ Within(CatalogueOps)
  <1>1. PICK op \in CatalogueOps, seen \in {{}, {snapshot # 0}} :
            Begin(w, op, 0, {}, seen) /\ client[w].step = op /\ catalogue' = catalogue
    BY DEF TryLock, BeginReplace, CatalogueOps
  <1>2. tx[w].op = "none" /\ MayBegin /\ Turns(w, Request(op, 0, {}, seen, 0, TRUE))
    BY <1>1, BeginTurns DEF DatabaseInv
  <1>3. op # "none"
    BY DEF CatalogueOps
  <1>4. DatabaseInv' /\ Within(CatalogueOps)
    <2>1. DatabaseInv'
      BY <1>2, <1>3, TurnKeepsDatabase
    <2>2. Within(CatalogueOps)
      BY <1>2, RequestWithin
    <2> QED BY <2>1, <2>2
  <1>5. tx'[w].op = op /\ \A v \in Workers \ {w} : tx'[v] = tx[v]
    <2>1. PICK r : r = Request(op, 0, {}, seen, 0, TRUE)
      OBVIOUS
    <2>2. r.op = op
      BY <2>1 DEF Request
    <2> QED BY <1>2, <2>1, <2>2 DEF Turns
  <1>6. /\ hour' = hour /\ snapshot' = snapshot /\ covered' = covered /\ client' = client
    BY <1>1 DEF catalogue
  <1>7. client' = [client EXCEPT ![w] = client[w]]
    BY <1>6 DEF CatalogueInv, CatalogueTypes
  <1>8. ClientHeld(tx'[w], client[w])
    BY <1>1, <1>5 DEF ClientHeld
  <1> QED BY <1>4, <1>5, <1>6, <1>7, <1>8, ClientFacts, ClientTurns

\* The transaction is over, and its client goes on.
LEMMA ClientEnds ==
    ASSUME CatalogueInv, DatabaseInv, db' = db, NEW w \in Workers, End(w),
           tx[w].op \in CatalogueOps \cup {"none"}, NEW c \in ClientRecord, ClientTrue(c),
           client' = [client EXCEPT ![w] = c], hour' = hour, snapshot' = snapshot,
           covered' = covered
    PROVE  CatalogueInv' /\ DatabaseInv' /\ Within(CatalogueOps)
  <1>1. Turns(w, NoRequest)
    BY EndTurns DEF DatabaseInv
  <1>2. DatabaseInv' /\ Within(CatalogueOps)
    BY <1>1, EndKeepsDatabase, EndWithin
  <1>3. tx'[w].op = "none" /\ \A v \in Workers \ {w} : tx'[v] = tx[v]
    BY <1>1, NoRequestFields DEF Turns
  <1>4. ClientHeld(tx'[w], c)
    BY <1>3 DEF ClientHeld, CatalogueOps
  <1>5. covered' \in BOOLEAN
    BY ClientFacts
  <1> QED BY <1>2, <1>3, <1>4, <1>5, ClientTurns

LEMMA CheckAgainKeeps ==
    ASSUME CatalogueInv, DatabaseInv, db' = db, NEW w \in Workers, CheckAgain(w)
    PROVE  CatalogueInv' /\ DatabaseInv' /\ Within(CatalogueOps)
  <1>1. PICK c0 \in ClientRecord : c0 = client[w] /\ ClientTrue(c0)
    BY ClientFacts
  <1>2. hour \in Nat /\ snapshot \in Nat /\ MaxAge \in Nat
    BY ClientFacts
  <1>3. PICK step \in {"fetch", "load", "read"} : step = IF Stale THEN "fetch" ELSE Resumed(w)
    BY DEF Resumed
  <1>4. PICK c : c = [c0 EXCEPT !.step = step, !.again = TRUE]
    OBVIOUS
  <1>5. client' = [client EXCEPT ![w] = c]
    BY <1>1, <1>3, <1>4 DEF CheckAgain
  <1>6. /\ c \in ClientRecord /\ c.step = step /\ c.since = c0.since
        /\ c.excused = c0.excused /\ c0.since \in Nat
    BY <1>3, <1>4 DEF ClientRecord, Steps
  <1>7. ClientTrue(c)
    BY <1>1, <1>2, <1>3, <1>6 DEF ClientTrue, FreshSince, Stale, Resumed
  <1> QED BY <1>5, <1>6, <1>7, ClientEnds DEF CheckAgain, CatalogueOps

LEMMA CollideKeeps ==
    ASSUME CatalogueInv, DatabaseInv, db' = db, NEW w \in Workers, Collide(w) \/ DropRequest(w)
    PROVE  CatalogueInv' /\ DatabaseInv' /\ Within(CatalogueOps)
  BY NoClientTrue, ClientEnds DEF Collide, DropRequest, CatalogueOps

\* The new snapshot is as fresh as can be: who reads it later is served, and who is between
\* its two queries is excused.
LEMMA CommitReplaceKeeps ==
    ASSUME CatalogueInv, DatabaseInv, db' = db, NEW w \in Workers, CommitReplace(w)
    PROVE  CatalogueInv' /\ DatabaseInv' /\ Within(CatalogueOps)
  <1>1. Turns(w, NoRequest)
    BY EndTurns DEF DatabaseInv, CommitReplace
  <1>2. DatabaseInv' /\ Within(CatalogueOps)
    BY <1>1, EndKeepsDatabase, EndWithin DEF CommitReplace, CatalogueOps
  <1>3. tx'[w].op = "none" /\ \A v \in Workers \ {w} : tx'[v] = tx[v]
    BY <1>1, NoRequestFields DEF Turns
  <1>4. /\ hour \in Nat \ {0} /\ snapshot \in Nat /\ snapshot <= hour /\ MaxAge \in Nat
        /\ covered \in BOOLEAN
    BY ClientFacts
  <1>5. hour' = hour /\ snapshot' = hour /\ covered' = covered
    BY DEF CommitReplace
  <1>6. /\ client' = [v \in Workers |-> client'[v]]
        /\ \A v \in Workers : /\ client'[v] \in ClientRecord
                             /\ ClientTrue(client[v])' /\ ClientHeld(tx[v], client[v])'
    <2>1. client' = [v \in Workers |-> client'[v]]
      BY DEF CommitReplace
    <2>2. ASSUME NEW v \in Workers
          PROVE  client'[v] \in ClientRecord /\ ClientTrue(client[v])' /\ ClientHeld(tx[v], client[v])'
      <3>1. PICK c0 \in ClientRecord : c0 = client[v] /\ ClientTrue(c0) /\ ClientHeld(tx[v], c0)
        BY ClientFacts
      <3>2. CASE v = w
        <4>1. PICK step \in {"load", "read"} : step = Resumed(w)
          BY DEF Resumed
        <4>2. PICK c : c = [c0 EXCEPT !.step = step]
          OBVIOUS
        <4>3. client'[v] = NoClient \/ client'[v] = c
          BY <3>1, <3>2, <4>1, <4>2 DEF CommitReplace
        <4>4. ClientHeld(tx[v], client[v])'
          BY <1>3, <3>2 DEF ClientHeld, CatalogueOps
        <4>5. CASE client'[v] = NoClient
          BY <1>4, <1>5, <4>4, <4>5, NoClientTrue DEF ClientTrue, NoClient
        <4>6. CASE client'[v] = c
          <5>1. c \in ClientRecord /\ c.since = c0.since /\ c.step = step /\ c.since \in Nat
            BY <4>1, <4>2 DEF ClientRecord, Steps
          <5>2. ClientTrue(client[v])'
            BY <1>4, <1>5, <3>1, <4>1, <4>6, <5>1 DEF ClientTrue, FreshSince
          <5> QED BY <4>4, <4>6, <5>1, <5>2
        <4> QED BY <4>3, <4>5, <4>6
      <3>3. CASE v # w /\ c0.step = "fresh"
        <4>1. PICK c : c = [c0 EXCEPT !.excused = TRUE]
          OBVIOUS
        <4>2. client'[v] = c
          BY <3>1, <3>3, <4>1 DEF CommitReplace
        <4>3. c \in ClientRecord /\ c.since = c0.since /\ c.step = c0.step /\ c.excused = TRUE
          BY <4>1 DEF ClientRecord
        <4>4. ClientTrue(client[v])'
          <5>1. client'[v].since <= hour' /\ client'[v].excused = TRUE
            BY <1>5, <3>1, <4>2, <4>3 DEF ClientTrue
          <5>2. ~(~client'[v].excused)
            BY <5>1
          <5> QED BY <5>1, <5>2 DEF ClientTrue
        <4>5. ClientHeld(tx[v], client[v])'
          BY <1>3, <3>1, <3>3, <4>2, <4>3 DEF ClientHeld
        <4> QED BY <4>2, <4>3, <4>4, <4>5
      <3>4. CASE v # w /\ c0.step # "fresh"
        <4>1. client'[v] = c0 /\ tx'[v] = tx[v]
          BY <1>3, <3>1, <3>4 DEF CommitReplace
        <4>2. c0.since \in Nat /\ c0.excused \in BOOLEAN
          BY DEF ClientRecord
        <4>3. ClientTrue(client[v])'
          BY <1>4, <1>5, <3>1, <3>4, <4>1, <4>2 DEF ClientTrue, FreshSince
        <4> QED BY <3>1, <4>1, <4>3 DEF ClientHeld
      <3> QED BY <3>2, <3>3, <3>4
    <2> QED BY <2>1, <2>2
  <1>7. CatalogueTypes'
    BY <1>4, <1>5, <1>6 DEF CatalogueTypes
  <1> QED BY <1>2, <1>6, <1>7 DEF CatalogueInv

\* What happens to the catalogue without its clients.
LEMMA QueueKeeps ==
    ASSUME CatalogueInv, RunImport \/ ArchiveImported \/ HourPasses
    PROVE  CatalogueInv' /\ tx' = tx
  <1>1. /\ tx' = tx /\ client' = client /\ snapshot' = snapshot /\ covered' \in BOOLEAN
        /\ hour' = hour \/ hour' = hour + 1
    BY DEF RunImport, ArchiveImported, HourPasses, CatalogueInv, CatalogueTypes
  <1>2. CatalogueTypes'
    BY <1>1 DEF CatalogueInv, CatalogueTypes
  <1>3. ASSUME NEW v \in Workers
        PROVE  ClientTrue(client[v])' /\ ClientHeld(tx[v], client[v])'
    <2>1. client[v].since \in Nat /\ ClientTrue(client[v]) /\ ClientHeld(tx[v], client[v])
      BY ClientFacts DEF ClientRecord
    <2>2. hour \in Nat /\ hour' \in Nat /\ hour <= hour'
      BY <1>1, ClientFacts
    <2> QED BY <1>1, <2>1, <2>2 DEF ClientTrue, FreshSince, ClientHeld
  <1> QED BY <1>1, <1>2, <1>3 DEF CatalogueInv

LEMMA CatalogueKeeps ==
    ASSUME CatalogueInv, DatabaseInv, db' = db, CatalogueNext
    PROVE  CatalogueInv' /\ DatabaseInv' /\ Within(CatalogueOps)
  <1>1. CASE tx' = tx /\ CatalogueInv'
    BY <1>1, StutterKeepsDatabase DEF Within
  <1>2. CASE RunImport \/ ArchiveImported \/ HourPasses
    BY <1>1, <1>2, QueueKeeps
  <1>3. ASSUME NEW w \in Workers, ClientStep(w)
        PROVE  CatalogueInv' /\ DatabaseInv' /\ Within(CatalogueOps)
    <2>1. CASE QuietStep(w)
      BY <1>1, <2>1, QuietKeeps
    <2>2. CASE TryLock(w) \/ BeginReplace(w)
      BY <2>2, TryLockKeeps
    <2>3. CASE CheckAgain(w)
      BY <2>3, CheckAgainKeeps
    <2>4. CASE CommitReplace(w)
      BY <2>4, CommitReplaceKeeps
    <2>5. CASE Collide(w) \/ DropRequest(w)
      BY <2>5, CollideKeeps
    <2> QED BY <1>3, <2>1, <2>2, <2>3, <2>4, <2>5 DEF ClientStep, QuietStep
  <1> QED BY <1>2, <1>3 DEF CatalogueNext

LEMMA CatalogueElsewhere ==
    ASSUME CatalogueInv, UNCHANGED catalogue, NEW ops, Within(ops), ops \cap CatalogueOps = {}
    PROVE  CatalogueInv'
  <1>1. \A v \in Workers : tx'[v].op \in CatalogueOps => tx'[v] = tx[v]
    BY WithinElsewhere DEF CatalogueOps
  <1>2. hour' = hour /\ snapshot' = snapshot /\ client' = client /\ covered' = covered
    BY DEF catalogue
  <1> QED BY <1>1, <1>2 DEF CatalogueInv, CatalogueTypes, ClientTrue, FreshSince, ClientHeld

LEMMA CatalogueStarts ==
    ASSUME CatalogueInit, DatabaseInit
    PROVE  CatalogueInv
  <1>1. /\ hour = 1 /\ snapshot = 0 /\ covered = FALSE
        /\ client = [w \in Workers |-> NoClient]
    BY DEF CatalogueInit
  <1>2. NoClient \in ClientRecord
    BY DEF NoClient, ClientRecord, Steps
  <1>3. ClientTrue(NoClient)
    BY <1>1 DEF NoClient, ClientTrue
  <1>4. \A w \in Workers : ClientHeld(tx[w], NoClient)
    BY NoRequestFields DEF DatabaseInit, ClientHeld, CatalogueOps
  <1>5. CatalogueTypes
    <2>1. client \in [Workers -> ClientRecord]
      BY <1>1, <1>2
    <2>2. hour \in Nat \ {0} /\ snapshot \in Nat /\ snapshot <= hour
      BY <1>1
    <2>3. covered \in BOOLEAN
      BY <1>1
    <2> QED BY <2>1, <2>2, <2>3 DEF CatalogueTypes
  <1>6. \A w \in Workers : client[w] = NoClient
    BY <1>1
  <1> QED BY <1>3, <1>4, <1>5, <1>6 DEF CatalogueInv

LEMMA CatalogueGives ==
    ASSUME CatalogueInv
    PROVE  CatalogueFresh
  BY DEF CatalogueInv, ClientTrue, CatalogueFresh

-----------------------------------------------------------------------------
(* The order of a list.                                                    *)

IsOrder(o) == o.keys \in {{"at"}, {"id"}, {"at", "id"}} /\ o.up \in BOOLEAN

\* Rows move only in an order that the ids make total.
IsList(l) == IsOrder(l.order) /\ (l.order.moves => "id" \in l.order.keys)

Positions == [at : Nat, id : Nat]

LEMMA NothingPrecedesItself ==
    ASSUME NEW o, IsOrder(o), NEW p \in Positions
    PROVE  ~Precedes(o, p, p)
  BY DEF Precedes, Less, Positions

LEMMA PrecedesTransitive ==
    ASSUME NEW o, IsOrder(o), NEW p \in Positions, NEW q \in Positions, NEW r \in Positions,
           Precedes(o, p, q), Precedes(o, q, r)
    PROVE  Precedes(o, p, r)
  BY DEF Precedes, Less, Positions, IsOrder

LEMMA PrecedesTotal ==
    ASSUME NEW o, IsOrder(o), NEW p \in Positions, NEW q \in Positions,
           ~Precedes(o, p, q), ~Precedes(o, q, p)
    PROVE  IF "id" \in o.keys THEN p.id = q.id ELSE p.at = q.at
  BY DEF Precedes, Less, Positions, IsOrder

\* What is asked for is a list, in any of the orders.
LEMMA OrdersOfLists ==
    /\ \A keys \in {{"at"}, {"id"}, {"at", "id"}}, up \in BOOLEAN :
          IsOrder(By(keys, up)) /\ ~By(keys, up).moves
    /\ IsOrder(RankedInSqlite) /\ "id" \in RankedInSqlite.keys
  <1>1. \A keys \in {{"at"}, {"id"}, {"at", "id"}}, up \in BOOLEAN :
            IsOrder(By(keys, up)) /\ ~By(keys, up).moves
    BY DEF IsOrder, By
  <1>2. RankedInSqlite.keys = {"at", "id"} /\ RankedInSqlite.up = TRUE
    <2>1. PICK o : o = [keys |-> {"at", "id"}, up |-> TRUE, moves |-> FALSE]
      OBVIOUS
    <2>2. PICK q : q = [o EXCEPT !.moves = TRUE]
      OBVIOUS
    <2>3. q.keys = o.keys /\ q.up = o.up
      BY <2>1, <2>2
    <2>4. RankedInSqlite = q
      BY <2>1, <2>2 DEF RankedInSqlite, Oldest, By
    <2> QED BY <2>1, <2>3, <2>4
  <1> QED BY <1>1, <1>2 DEF IsOrder

-----------------------------------------------------------------------------
(* The sequences of a query's rows.                                        *)

LEMMA SetToSeqsTrue ==
    ASSUME NEW S, IsFiniteSet(S), NEW s \in SetToSeqs(S)
    PROVE  /\ s \in Seq(S)
           /\ \A i, j \in 1..Len(s) : s[i] = s[j] => i = j
           /\ \A x \in S : \E i \in 1..Len(s) : s[i] = x
  <1> DEFINE n == Cardinality(S)
  <1>1. n \in Nat
    BY FS_CardinalityType
  <1>2. s \in [1..n -> S] /\ \A i, j \in 1..n : i # j => s[i] # s[j]
    BY DEF SetToSeqs
  <1>3. s \in Seq(S) /\ Len(s) = n
    BY <1>1, <1>2
  <1>4. s \in Injection(1..n, S)
    BY <1>2 DEF Injection, IsInjective
  <1>5. Cardinality(1..n) = n /\ IsFiniteSet(1..n)
    BY <1>1, FS_Interval
  <1>6. s \in Surjection(1..n, S)
    BY <1>4, <1>5, FS_Injection
  <1>7. \A x \in S : \E i \in 1..n : s[i] = x
    BY <1>6 DEF Surjection
  <1> QED BY <1>2, <1>3, <1>7

-----------------------------------------------------------------------------
(* The walk of a client through a list.                                    *)

EntryRecord == [state : {"none", "listed", "hidden", "deleted"}, at : Nat, of : Owners]

Walk(list, scope, cursor, got, whole, moved, done) ==
    [list |-> list, scope |-> scope, cursor |-> cursor, got |-> got, whole |-> whole,
     moved |-> moved, done |-> done]

RowTypes == entries \in [Rows -> EntryRecord] /\ instant \in Nat

WalkTypes ==
    /\ walk = Walk(walk.list, walk.scope, walk.cursor, walk.got, walk.whole, walk.moved, walk.done)
    /\ walk.cursor \in Positions /\ walk.got \in Seq(Rows)
    /\ walk.whole \subseteq Rows /\ walk.done \in BOOLEAN

\* A page whose cursor is c is past row r.
Passed(o, c, r) == ~Precedes(o, c, Position(r))

\* Where the cursor holds only the time, the row shares its time with another.
Tied(o, r) ==
    "id" \notin o.keys /\ \E s \in Rows : s # r /\ entries[s].at = entries[r].at /\ entries[s].state # "none"

\* Of the live revision's operations, the revision that is live now.
ScopeNow(l, scope) == IF l.holds = "live" THEN {promoted} ELSE scope

\* The client follows list l.
Follows(l) ==
    /\ IsList(l)
    /\ walk.whole \subseteq Shown(ScopeNow(l, walk.scope))
    /\ ~walk.done =>
          walk.cursor # Start /\ \A r \in Range(walk.got) \ walk.moved : Passed(l.order, walk.cursor, r)
    /\ \A r \in walk.whole :
          r \in Range(walk.got) \/ Tied(l.order, r) \/ (~walk.done /\ ~Passed(l.order, walk.cursor, r))

GotOnce ==
    \A i, j \in 1..Len(walk.got) : walk.got[i] = walk.got[j] => i = j \/ walk.got[i] \in walk.moved

WalkInv ==
    /\ WalkTypes /\ GotOnce
    /\ \A r \in Range(walk.got) \cup walk.whole : entries[r].state # "none"
    /\ walk.list = {} => walk.got = <<>> /\ walk.whole = {} /\ walk.cursor = Start
    /\ \A l \in walk.list : walk.list = {l} /\ Follows(l)

\* A row in an open transaction is not there yet, and no other transaction inserts it.
InsertHeld(w) ==
    tx[w].op = "insert" =>
        /\ tx[w].open /\ tx[w].on \in Rows /\ tx[w].by \subseteq Owners /\ tx[w].seen \subseteq Nat
        /\ entries[tx[w].on].state = "none"
        /\ \A v \in Workers : tx[v].op = "insert" /\ tx[v].on = tx[w].on => v = w

ListingsInv == RowTypes /\ WalkInv /\ \A w \in Workers : InsertHeld(w)

LEMMA PositionTrue ==
    ASSUME RowTypes, NEW r \in Rows
    PROVE  Position(r) \in Positions /\ Position(r) # Start /\ Position(r).at = entries[r].at /\ Position(r).id = r
  BY ListingsOK DEF RowTypes, EntryRecord, Position, Positions, Start

\* The answer of a query: its rows in order, none twice and none missing; the first m of
\* them make the page, and the cursor is where its last row is.
Answers(l, scope, whole, n, found, m) ==
    /\ m = (IF Len(found) > n THEN n ELSE Len(found))
    /\ \A i, j \in 1..Len(found) : found[i] = found[j] => i = j
    /\ \A i, j \in 1..Len(found) : i < j => ~Precedes(l.order, Position(found[j]), Position(found[i]))
    /\ \A i \in 1..Len(found) :
          /\ found[i] \in Shown(scope)
          /\ walk.cursor = Start \/ ~Passed(l.order, walk.cursor, found[i])
    /\ \A r \in Shown(scope) :
          walk.cursor = Start \/ ~Passed(l.order, walk.cursor, r) => \E i \in 1..Len(found) : found[i] = r
    /\ walk' = Walk({l}, scope, IF Len(found) > n THEN Position(found[n]) ELSE walk.cursor,
                    walk.got \o SubSeq(found, 1, m), whole, walk.moved, ~(Len(found) > n))

LEMMA PageTrue ==
    ASSUME ListingsInv, NEW l, NEW scope, NEW whole, NEW n \in Nat \ {0},
           ReadPage(l, scope, whole, n)
    PROVE  \E found \in Seq(Rows), m \in Nat : Answers(l, scope, whole, n, found, m)
  <1>1. PICK pool : pool = {r \in Shown(scope) : walk.cursor = Start \/ Precedes(l.order, walk.cursor, Position(r))}
    OBVIOUS
  <1>2. pool \subseteq Rows /\ IsFiniteSet(pool)
    BY <1>1, ListingsOK, FS_Subset DEF Shown
  <1>3. PICK found \in Ordered(l.order, pool) :
            walk' = [walk EXCEPT !.list = {l}, !.scope = scope, !.whole = whole,
                                 !.done = ~(Len(found) > n),
                                 !.got = @ \o SubSeq(found, 1, Min({n, Len(found)})),
                                 !.cursor = IF Len(found) > n THEN CursorOf(found, n) ELSE @]
    BY <1>1 DEF ReadPage
  <1>4. /\ found \in SetToSeqs(pool)
        /\ \A i, j \in DOMAIN found : i < j => ~Precedes(l.order, Position(found[j]), Position(found[i]))
    BY <1>3 DEF Ordered
  <1>5. /\ found \in Seq(pool)
        /\ \A i, j \in 1..Len(found) : found[i] = found[j] => i = j
        /\ \A x \in pool : \E i \in 1..Len(found) : found[i] = x
    BY <1>2, <1>4, SetToSeqsTrue
  <1>6. /\ Len(found) \in Nat /\ DOMAIN found = 1..Len(found) /\ found \in Seq(Rows)
        /\ \A i \in 1..Len(found) : found[i] \in pool
    BY SMTT(60), <1>2, <1>5
  <1>7. PICK m \in Nat : m = IF Len(found) > n THEN n ELSE Len(found)
    BY <1>6
  <1>8. Min({n, Len(found)}) = m
    <2>1. PICK k \in Nat : k = Len(found)
      BY <1>6
    <2>0. PICK S : S = {n, k}
      OBVIOUS
    <2>2. m = n \/ m = k
      BY <1>7, <2>1
    <2>3. m <= n /\ m <= k
      BY <1>7, <2>1
    <2>4. m \in S /\ \A y \in S : m <= y
      BY <2>0, <2>2, <2>3
    <2>5. ASSUME NEW x \in S, \A y \in S : x <= y
          PROVE  x = m
      BY <2>0, <2>4, <2>5
    <2>6. Min(S) = m
      BY <2>4, <2>5 DEF Min
    <2> QED BY SMTT(60), <2>0, <2>1, <2>6
  <1>9. PICK cursor, got, done :
            /\ cursor = IF Len(found) > n THEN Position(found[n]) ELSE walk.cursor
            /\ got = walk.got \o SubSeq(found, 1, m)
            /\ done = ~(Len(found) > n)
    OBVIOUS
  <1>10. walk' = [walk EXCEPT !.list = {l}, !.scope = scope, !.whole = whole, !.done = done,
                              !.got = got, !.cursor = cursor]
    BY <1>3, <1>8, <1>9 DEF CursorOf
  <1>11. walk' = Walk({l}, scope, cursor, got, whole, walk.moved, done)
    <2>1. walk = Walk(walk.list, walk.scope, walk.cursor, walk.got, walk.whole, walk.moved, walk.done)
      BY DEF ListingsInv, WalkInv, WalkTypes
    <2>2. PICK s : s = {l}
      OBVIOUS
    <2>3. PICK w1 : w1 = [walk EXCEPT !.list = s]
      OBVIOUS
    <2>4. PICK w2 : w2 = [w1 EXCEPT !.scope = scope]
      OBVIOUS
    <2>5. PICK w3 : w3 = [w2 EXCEPT !.whole = whole]
      OBVIOUS
    <2>6. PICK w4 : w4 = [w3 EXCEPT !.done = done]
      OBVIOUS
    <2>7. PICK w5 : w5 = [w4 EXCEPT !.got = got]
      OBVIOUS
    <2>8. PICK w6 : w6 = [w5 EXCEPT !.cursor = cursor]
      OBVIOUS
    <2>9. w3 = Walk(s, scope, walk.cursor, walk.got, whole, walk.moved, walk.done)
      BY <2>1, <2>3, <2>4, <2>5 DEF Walk
    <2>10. w6 = Walk(s, scope, cursor, got, whole, walk.moved, done)
      BY <2>6, <2>7, <2>8, <2>9 DEF Walk
    <2>11. walk' = w6
      BY <1>10, <2>2, <2>3, <2>4, <2>5, <2>6, <2>7, <2>8
    <2> QED BY <2>2, <2>10, <2>11
  <1>12. /\ \A i \in 1..Len(found) :
               /\ found[i] \in Shown(scope)
               /\ walk.cursor = Start \/ ~Passed(l.order, walk.cursor, found[i])
         /\ \A r \in Shown(scope) :
               walk.cursor = Start \/ ~Passed(l.order, walk.cursor, r) =>
                   \E i \in 1..Len(found) : found[i] = r
    BY <1>1, <1>5, <1>6 DEF Passed
  <1>13. walk' = Walk({l}, scope, IF Len(found) > n THEN Position(found[n]) ELSE walk.cursor,
                      walk.got \o SubSeq(found, 1, m), whole, walk.moved, ~(Len(found) > n))
    BY <1>9, <1>11
  <1>14. \A i, j \in 1..Len(found) : i < j =>
             ~Precedes(l.order, Position(found[j]), Position(found[i]))
    BY <1>4, <1>6
  <1>15. Answers(l, scope, whole, n, found, m)
    BY <1>5, <1>7, <1>12, <1>13, <1>14 DEF Answers
  <1> QED BY <1>6, <1>15

\* A page of list l continues the walk; from the first page on, what is in the list and
\* was not returned comes after the cursor.
LEMMA PageFollows ==
    ASSUME ListingsInv, NEW l, IsList(l), NEW scope, NEW whole \in SUBSET Rows,
           NEW n \in Nat \ {0}, ReadPage(l, scope, whole, n),
           UNCHANGED <<instant, entries, promoted>>,
           whole \subseteq Shown(scope), ScopeNow(l, scope) = scope,
           \A r \in Range(walk.got) \ walk.moved :
               walk.cursor # Start /\ Passed(l.order, walk.cursor, r),
           \A r \in whole : \/ r \in Range(walk.got) \/ Tied(l.order, r)
                            \/ walk.cursor = Start \/ ~Passed(l.order, walk.cursor, r)
    PROVE  WalkInv'
  <1> DEFINE o == l.order
  <1>1. PICK found \in Seq(Rows), m \in Nat : Answers(l, scope, whole, n, found, m)
    BY PageTrue
  <1>2. PICK k \in Nat : k = Len(found)
    OBVIOUS
  <1>3. /\ m = (IF k > n THEN n ELSE k)
        /\ \A i, j \in 1..k : found[i] = found[j] => i = j
        /\ \A i, j \in 1..k : i < j => ~Precedes(o, Position(found[j]), Position(found[i]))
        /\ \A i \in 1..k :
              found[i] \in Shown(scope) /\ (walk.cursor = Start \/ ~Passed(o, walk.cursor, found[i]))
        /\ \A r \in Shown(scope) :
              walk.cursor = Start \/ ~Passed(o, walk.cursor, r) => \E i \in 1..k : found[i] = r
        /\ walk' = Walk({l}, scope, IF k > n THEN Position(found[n]) ELSE walk.cursor,
                        walk.got \o SubSeq(found, 1, m), whole, walk.moved, ~(k > n))
    BY <1>1, <1>2 DEF Answers
  <1> DEFINE more == k > n
  <1>4. PICK page, cursor, got :
            /\ page = SubSeq(found, 1, m)
            /\ cursor = (IF more THEN Position(found[n]) ELSE walk.cursor)
            /\ got = walk.got \o page
    OBVIOUS
  <1>5. walk' = Walk({l}, scope, cursor, got, whole, walk.moved, ~more)
    BY <1>2, <1>3, <1>4
  <1>6. /\ walk'.list = {l} /\ walk'.scope = scope /\ walk'.cursor = cursor /\ walk'.got = got
        /\ walk'.whole = whole /\ walk'.moved = walk.moved /\ walk'.done = ~more
    BY <1>5 DEF Walk
  <1>7. m <= k /\ (more => m = n /\ n \in 1..k /\ n \in 1..m) /\ (~more => m = k)
    <2>1. CASE k > n
      <3>1. m = n /\ more
        BY <1>3, <2>1
      <3>2. n <= k /\ n \in 1..k /\ n \in 1..n
        BY <2>1
      <3> QED BY <3>1, <3>2
    <2>2. CASE ~(k > n)
      <3>1. m = k /\ ~more
        BY <1>3, <2>2
      <3> QED BY <3>1
    <2> QED BY <2>1, <2>2
  <1>8. /\ page \in Seq(Rows) /\ Len(page) = m
        /\ \A i \in 1..m : page[i] = found[i] /\ found[i] \in Rows /\ i \in 1..k
    <2>1. \A i \in 1..m : i \in 1..k /\ found[i] \in Rows
      BY <1>2, <1>7
    <2>2. /\ page \in Seq(Rows) /\ Len(page) = (IF 1 <= m THEN m - 1 + 1 ELSE 0)
          /\ \A i \in 1..(m - 1 + 1) : page[i] = found[1 + i - 1]
      BY <1>4, <2>1, SubSeqProperties
    <2>3. Len(page) = m /\ \A i \in 1..m : page[i] = found[i]
      BY <2>2
    <2> QED BY <2>1, <2>2, <2>3
  <1>9. PICK g \in Nat : g = Len(walk.got) /\ walk.got \in Seq(Rows)
    BY DEF ListingsInv, WalkInv, WalkTypes
  <1>10. /\ got \in Seq(Rows) /\ Len(got) = g + m
         /\ \A i \in 1..g : got[i] = walk.got[i] /\ walk.got[i] \in Range(walk.got)
         /\ \A i \in 1..m : got[g + i] = found[i]
         /\ Range(got) = Range(walk.got) \cup Range(page)
    <2>1. PICK s \in Seq(Rows) : s = walk.got /\ Len(s) = g
      BY <1>9
    <2>2. /\ s \o page \in Seq(Rows) /\ Len(s \o page) = Len(s) + Len(page)
          /\ \A i \in 1..(Len(s) + Len(page)) :
                (s \o page)[i] = IF i <= Len(s) THEN s[i] ELSE page[i - Len(s)]
      BY <1>8, ConcatProperties
    <2>3. Range(s \o page) = Range(s) \cup Range(page)
      BY <1>8, RangeConcatenation
    <2>4. /\ got \in Seq(Rows) /\ Len(got) = g + m
          /\ \A i \in 1..(g + m) : got[i] = IF i <= g THEN walk.got[i] ELSE page[i - g]
          /\ Range(got) = Range(walk.got) \cup Range(page)
      BY <1>4, <1>8, <2>1, <2>2, <2>3
    <2>5. \A i \in 1..g : got[i] = walk.got[i]
      BY SMTT(60), <2>4
    <2>6. \A i \in 1..g : walk.got[i] \in Range(walk.got)
      BY <1>9, RangeEquality
    <2>7. ASSUME NEW i \in 1..m
          PROVE  got[g + i] = found[i]
      <3>1. g + i \in 1..(g + m) /\ ~(g + i <= g) /\ (g + i) - g = i
        OBVIOUS
      <3> QED BY <1>8, <2>4, <3>1
    <2> QED BY <2>4, <2>5, <2>6, <2>7
  <1>11. /\ \A r \in Range(page) : \E i \in 1..m : r = found[i]
         /\ \A i \in 1..m : found[i] \in Range(page)
    BY <1>8, RangeEquality
  <1>12. \A i \in 1..m : found[i] \notin Range(walk.got) \/ found[i] \in walk.moved
    BY <1>3, <1>2, <1>8
  <1>13. GotOnce'
    <2> SUFFICES ASSUME NEW i \in 1..(g + m), NEW j \in 1..(g + m), got[i] = got[j], got[i] \notin walk.moved
                 PROVE  i = j
      BY <1>6, <1>10 DEF GotOnce
    <2>1. \A h \in 1..(g + m) : h \in 1..g \/ (h - g \in 1..m /\ got[h] = found[h - g])
      <3> SUFFICES ASSUME NEW h \in 1..(g + m), h \notin 1..g
                   PROVE  h - g \in 1..m /\ got[h] = found[h - g]
        OBVIOUS
      <3>1. h - g \in 1..m /\ g + (h - g) = h
        OBVIOUS
      <3> QED BY <1>10, <3>1
    <2>2. CASE i \in 1..g /\ j \in 1..g
      BY <1>9, <1>10, <2>2 DEF ListingsInv, WalkInv, GotOnce
    <2>3. CASE i \notin 1..g /\ j \notin 1..g
      <3>1. i - g \in 1..m /\ j - g \in 1..m /\ found[i - g] = found[j - g]
        BY <2>1, <2>3
      <3>2. i - g = j - g
        BY <1>3, <1>2, <1>8, <3>1
      <3> QED BY <3>2
    <2>4. CASE i \in 1..g /\ j \notin 1..g
      BY <1>10, <1>12, <2>1, <2>4
    <2>5. CASE i \notin 1..g /\ j \in 1..g
      BY <1>10, <1>12, <2>1, <2>5
    <2> QED BY <2>2, <2>3, <2>4, <2>5
  <1>14. \A r \in Range(walk.got) : r \in Rows
    BY <1>9, RangeOfSeq
  <1>15. \A r \in Rows : Position(r) \in Positions /\ Position(r) # Start
    BY PositionTrue DEF ListingsInv
  <1>16. cursor \in Positions /\ (more => cursor = Position(found[n]) /\ cursor # Start /\ found[n] \in Rows)
    <2>1. walk.cursor \in Positions
      BY DEF ListingsInv, WalkInv, WalkTypes
    <2> QED BY <1>4, <1>7, <1>8, <1>15, <2>1
  <1>17. IsOrder(o)
    BY DEF IsList
  <1>18. ASSUME more, NEW r \in Range(got) \ walk.moved
         PROVE  Passed(o, cursor, r)
    <2>1. n \in 1..m /\ n \in 1..k
      BY <1>7, <1>18
    <2>2. CASE r \in Range(walk.got)
      <3>1. walk.cursor # Start /\ ~Precedes(o, walk.cursor, Position(r))
        BY <1>18, <2>2 DEF Passed
      <3>2. Precedes(o, walk.cursor, cursor)
        BY <1>3, <1>2, <1>16, <1>18, <2>1, <3>1 DEF Passed
      <3>3. walk.cursor \in Positions /\ Position(r) \in Positions
        BY <1>14, <1>15, <2>2 DEF ListingsInv, WalkInv, WalkTypes
      <3> QED BY <1>16, <1>17, <3>1, <3>2, <3>3, PrecedesTransitive DEF Passed
    <2>3. CASE r \in Range(page)
      <3>1. PICK i \in 1..m : r = found[i]
        BY <1>11, <2>3
      <3>2. CASE i = n
        BY <1>15, <1>16, <1>17, <1>18, <3>1, <3>2, NothingPrecedesItself DEF Passed
      <3>3. CASE i < n
        BY <1>3, <1>2, <1>8, <1>16, <1>18, <2>1, <3>1, <3>3 DEF Passed
      <3>4. i <= n
        BY <1>7, <1>18
      <3> QED BY <3>2, <3>3, <3>4
    <2> QED BY <1>10, <1>18, <2>2, <2>3
  <1>19. ASSUME NEW r \in whole
         PROVE  r \in Range(got) \/ Tied(o, r) \/ (more /\ ~Passed(o, cursor, r))
    <2> SUFFICES ASSUME r \notin Range(got), ~Tied(o, r)
                 PROVE  more /\ ~Passed(o, cursor, r)
      OBVIOUS
    <2>1. PICK i \in 1..k : found[i] = r
      BY <1>3, <1>2, <1>10, <1>19
    <2>2. i \notin 1..m
      BY <1>10, <1>11, <2>1
    <2>3. more /\ m = n /\ n < i /\ n \in 1..k
      BY <1>7, <2>2
    <2>4. found[n] # r /\ found[n] \in Shown(scope)
      BY <1>3, <1>2, <2>1, <2>3
    <2>5. ~Precedes(o, Position(r), cursor)
      BY <1>3, <1>2, <1>16, <2>1, <2>3
    <2>6. SUFFICES ASSUME ~Precedes(o, cursor, Position(r))
                   PROVE  FALSE
      BY <2>3 DEF Passed
    <2>7. IF "id" \in o.keys THEN cursor.id = Position(r).id ELSE cursor.at = Position(r).at
      BY <1>15, <1>16, <1>17, <2>3, <2>5, <2>6, PrecedesTotal
    <2>8. cursor.at = entries[found[n]].at /\ cursor.id = found[n]
      BY <1>16, <2>3 DEF Position
    <2>9. Position(r).at = entries[r].at /\ Position(r).id = r
      BY DEF Position
    <2>10. "id" \notin o.keys /\ entries[found[n]].at = entries[r].at
      BY <2>4, <2>7, <2>8, <2>9
    <2>11. found[n] \in Rows /\ entries[found[n]].state # "none"
      BY <2>4 DEF Shown
    <2> QED BY <2>4, <2>10, <2>11 DEF Tied
  <1>20. \A r \in Range(got) \cup whole : entries[r].state # "none"
    <2>1. \A r \in Range(walk.got) : entries[r].state # "none"
      BY DEF ListingsInv, WalkInv
    <2>2. \A r \in Range(page) : entries[r].state # "none"
      BY <1>3, <1>2, <1>8, <1>11 DEF Shown
    <2>3. \A r \in whole : entries[r].state # "none"
      BY DEF Shown
    <2> QED BY <1>10, <2>1, <2>2, <2>3
  <1>21. WalkTypes'
    BY <1>5, <1>6, <1>10, <1>16 DEF WalkTypes
  <1>22. Follows(l)'
    <2>1. (whole \subseteq Shown(ScopeNow(l, scope)))'
      BY DEF Shown, ScopeNow
    <2>2. \A r : Passed(o, cursor, r)' <=> Passed(o, cursor, r)
      BY DEF Passed, Position
    <2>3. \A r : Tied(o, r)' <=> Tied(o, r)
      BY DEF Tied
    <2> QED BY <1>6, <1>16, <1>18, <1>19, <2>1, <2>2, <2>3 DEF Follows
  <1>23. \A r \in Range(walk.got)' \cup walk'.whole : entries'[r].state # "none"
    BY <1>6, <1>20
  <1> QED BY <1>6, <1>13, <1>21, <1>22, <1>23 DEF WalkInv

-----------------------------------------------------------------------------
(* The lists that are asked for.                                           *)

Orders == {By(keys, up) : keys \in {{"at"}, {"id"}, {"at", "id"}}, up \in BOOLEAN} \cup {RankedInSqlite}

LEMMA ListTrue ==
    ASSUME NEW o \in Orders, NEW holds
    PROVE  IsList(List(o, holds))
  <1>1. IsOrder(o) /\ (o.moves => "id" \in o.keys)
    BY OrdersOfLists DEF Orders
  <1>2. List(o, holds).order = o
    BY DEF List
  <1> QED BY <1>1, <1>2 DEF IsList

LEMMA OrdersTrue ==
    /\ NewestByTime \in Orders /\ Newest \in Orders /\ Oldest \in Orders
    /\ NamedEntries \in Orders /\ RankedInSqlite \in Orders
  <1>1. ASSUME NEW keys \in {{"at"}, {"id"}, {"at", "id"}}, NEW up \in BOOLEAN
        PROVE  By(keys, up) \in Orders
    BY DEF Orders
  <1>2. RankedInSqlite \in Orders
    BY DEF Orders
  <1> QED BY <1>1, <1>2 DEF NewestByTime, Newest, Oldest, NamedEntries

LEMMA AdminLists ==
    \A l \in UserList \cup ActorList \cup AuditList \cup EventList \cup ExecutionList
             \cup JobList \cup AgentList \cup ServiceAccountList : IsList(l)
  <1>1. \A o \in {Users, Actors, AuditEntries, AuditEntriesOfTarget, AuditEntriesOfActor, Events,
                  ExecutionRecords, Jobs, Agents, AgentsOfOwner, ServiceAccounts,
                  ServiceAccountsOfOwner} : o \in Orders
    BY OrdersTrue DEF Users, Actors, AuditEntries, AuditEntriesOfTarget, AuditEntriesOfActor,
           Events, ExecutionRecords, Jobs, Agents, AgentsOfOwner, ServiceAccounts,
           ServiceAccountsOfOwner
  <1> QED BY <1>1, ListTrue DEF UserList, ActorList, AuditList, EventList, ExecutionList,
             JobList, AgentList, ServiceAccountList

LEMMA ControlLists ==
    \A l \in AccessRequestList \cup CredentialList \cup ToolkitList \cup BoundAgentList
             \cup KeyList \cup BindingList : IsList(l)
  <1>1. \A o \in {AccessRequests, StoredCredentials, StoredToolkits, AgentsOfToolkit,
                  ToolkitKeys, ToolkitBindings} : o \in Orders
    BY OrdersTrue DEF AccessRequests, StoredCredentials, StoredToolkits, AgentsOfToolkit,
           ToolkitKeys, ToolkitBindings
  <1> QED BY <1>1, ListTrue DEF AccessRequestList, CredentialList, ToolkitList,
             BoundAgentList, KeyList, BindingList

LEMMA RegistryLists ==
    \A l \in ApiList \cup RevisionList \cup OverlayList \cup NoteList \cup RevisionOperations
             \cup LiveOperations \cup CatalogueList \cup SearchResults : IsList(l)
  <1>1. \A o \in {Apis, ApiRevisions, Overlays, StoredNotes, Operations, NamedEntries,
                  RankedEntries, RankedInSqlite, RankedInPostgres} : o \in Orders
    BY OrdersTrue DEF Apis, ApiRevisions, Overlays, StoredNotes, Operations, RankedEntries,
           RankedInPostgres
  <1> QED BY <1>1, ListTrue DEF ApiList, RevisionList, OverlayList, NoteList,
             RevisionOperations, LiveOperations, CatalogueList, SearchResults

LEMMA GetKeeps ==
    ASSUME ListingsInv, NEW lists, \A l \in lists : IsList(l), Get(lists)
    PROVE  ListingsInv' /\ tx' = tx
  <1>1. /\ tx' = tx /\ instant' = instant /\ entries' = entries /\ promoted' = promoted
    BY DEF Get
  <1>2. RowTypes' /\ \A w \in Workers : InsertHeld(w)'
    BY <1>1 DEF ListingsInv, RowTypes, InsertHeld
  <1>3. PICK l \in lists, n \in 1..PageLimit :
            \/ /\ walk.list = {}
               /\ \E scope \in ScopesOf(l) : ReadPage(l, scope, Shown(scope), n)
            \/ /\ walk.list = {l} /\ ~walk.done
               /\ ReadPage(l, IF l.holds = "live" THEN {promoted} ELSE walk.scope, walk.whole, n)
    BY DEF Get
  <1>4. IsList(l) /\ n \in Nat \ {0}
    BY ListingsOK
  <1>5. CASE walk.list = {} /\ \E scope \in ScopesOf(l) : ReadPage(l, scope, Shown(scope), n)
    <2>1. PICK scope \in ScopesOf(l) : ReadPage(l, scope, Shown(scope), n)
      BY <1>5
    <2>2. PICK whole \in SUBSET Rows : whole = Shown(scope)
      BY DEF Shown
    <2>3. ScopeNow(l, scope) = scope
      BY <2>1 DEF ScopeNow, ScopesOf
    <2>4. walk.got = <<>> /\ walk.cursor = Start
      BY <1>5 DEF ListingsInv, WalkInv
    <2>5. Range(walk.got) = {}
      BY <2>4 DEF Range
    <2>6. WalkInv'
      BY <1>1, <1>4, <2>1, <2>2, <2>3, <2>4, <2>5, PageFollows
    <2> QED BY <1>1, <1>2, <2>6 DEF ListingsInv
  <1>6. CASE /\ walk.list = {l} /\ ~walk.done
             /\ ReadPage(l, IF l.holds = "live" THEN {promoted} ELSE walk.scope, walk.whole, n)
    <2>1. PICK scope : scope = ScopeNow(l, walk.scope)
      OBVIOUS
    <2>2. ReadPage(l, scope, walk.whole, n) /\ ScopeNow(l, scope) = scope
      BY <1>6, <2>1 DEF ScopeNow
    <2>3. Follows(l) /\ walk.whole \in SUBSET Rows
      BY <1>6 DEF ListingsInv, WalkInv, WalkTypes
    <2>4. /\ walk.whole \subseteq Shown(scope)
          /\ \A r \in Range(walk.got) \ walk.moved :
                walk.cursor # Start /\ Passed(l.order, walk.cursor, r)
          /\ \A r \in walk.whole : \/ r \in Range(walk.got) \/ Tied(l.order, r)
                                   \/ walk.cursor = Start \/ ~Passed(l.order, walk.cursor, r)
      BY <1>6, <2>1, <2>3 DEF Follows
    <2>5. WalkInv'
      BY <1>1, <1>4, <2>2, <2>3, <2>4, PageFollows
    <2> QED BY <1>1, <1>2, <2>5 DEF ListingsInv
  <1> QED BY <1>3, <1>5, <1>6

LEMMA PagesKeep ==
    ASSUME ListingsInv, AdminPage \/ ControlPage \/ RegistryPage
    PROVE  ListingsInv' /\ tx' = tx
  <1>1. CASE AdminPage
    <2>1. PICK lists : Get(lists) /\ \A l \in lists : IsList(l)
      BY <1>1, AdminLists DEF AdminPage, GetUsers, GetActors, GetAudit, GetEvents,
             GetExecutions, GetJobs, GetAgents, GetServiceAccounts
    <2> QED BY <2>1, GetKeeps
  <1>2. CASE ControlPage
    <2>1. PICK lists : Get(lists) /\ \A l \in lists : IsList(l)
      BY <1>2, ControlLists DEF ControlPage, GetAccessRequests, GetCredentials, GetToolkits,
             GetBoundAgents, GetKeys, GetBindings
    <2> QED BY <2>1, GetKeeps
  <1>3. CASE RegistryPage
    <2>1. PICK lists : Get(lists) /\ \A l \in lists : IsList(l)
      BY <1>3, RegistryLists DEF RegistryPage, GetApis, GetRevisions, GetOverlays, GetNotes,
             GetRevisionOperations, GetLiveOperations, GetCatalogue, GetSearchResults
    <2> QED BY <2>1, GetKeeps
  <1> QED BY <1>1, <1>2, <1>3

\* The rows that a transaction or a search changes keep their place, but for S, which the
\* client may miss from now on.
RowsStay(S) ==
    /\ entries' \in [Rows -> EntryRecord]
    /\ \A r \in Rows : entries[r].state # "none" =>
          entries'[r].state # "none" /\ entries'[r].at = entries[r].at
    /\ \A r \in walk.whole \ S : entries'[r] = entries[r]
    /\ promoted' = promoted \/ ((\E l \in walk.list : l.holds = "live") => walk.whole \subseteq S)
    /\ walk' = [walk EXCEPT !.whole = @ \ S]

LEMMA StayKeeps ==
    ASSUME ListingsInv, NEW S, RowsStay(S)
    PROVE  WalkInv'
  <1>1. WalkTypes /\ WalkInv /\ RowTypes
    BY DEF ListingsInv, WalkInv
  <1>2. PICK whole : whole = walk.whole \ S
    OBVIOUS
  <1>3. walk' = Walk(walk.list, walk.scope, walk.cursor, walk.got, whole, walk.moved, walk.done)
    <2>1. PICK w1 : w1 = [walk EXCEPT !.whole = whole]
      OBVIOUS
    <2>2. w1 = Walk(walk.list, walk.scope, walk.cursor, walk.got, whole, walk.moved, walk.done)
      BY <1>1, <2>1 DEF WalkTypes, Walk
    <2> QED BY <1>2, <2>1, <2>2 DEF RowsStay
  <1>4. /\ walk'.list = walk.list /\ walk'.scope = walk.scope /\ walk'.cursor = walk.cursor
        /\ walk'.got = walk.got /\ walk'.whole = whole /\ walk'.moved = walk.moved
        /\ walk'.done = walk.done
    BY <1>3 DEF Walk
  <1>5. whole \subseteq walk.whole /\ whole \subseteq Rows /\ Range(walk.got) \subseteq Rows
    BY <1>1, <1>2, RangeOfSeq DEF WalkTypes
  <1>6. \A r \in Range(walk.got) \cup walk.whole : r \in Rows /\ entries[r].state # "none"
    BY <1>1, <1>5 DEF WalkInv, WalkTypes
  <1>7. ASSUME NEW r \in Range(walk.got) \cup walk.whole
        PROVE  Position(r)' = Position(r) /\ entries'[r].state # "none" /\ entries'[r].at = entries[r].at
    BY <1>6 DEF RowsStay, Position
  <1>8. WalkTypes' /\ GotOnce'
    BY <1>1, <1>3, <1>4, <1>5 DEF WalkTypes, WalkInv, GotOnce
  <1>9. ASSUME NEW l \in walk.list
        PROVE  walk.list = {l} /\ Follows(l)'
    <2>1. walk.list = {l} /\ Follows(l)
      BY <1>1 DEF WalkInv
    <2>2. (walk.whole \subseteq Shown(ScopeNow(l, walk.scope)))'
      <3> SUFFICES ASSUME NEW r \in whole
                   PROVE  r \in Shown(ScopeNow(l, walk.scope))'
        BY <1>4
      <3>1. r \in walk.whole \ S /\ r \in Rows
        BY <1>2, <1>5
      <3>2. entries'[r] = entries[r]
        BY <3>1 DEF RowsStay
      <3>3. r \in Shown(ScopeNow(l, walk.scope))
        BY <2>1, <3>1 DEF Follows
      <3>4. ScopeNow(l, walk.scope)' = ScopeNow(l, walk.scope)
        BY <1>4, <3>1 DEF ScopeNow, RowsStay
      <3> QED BY <3>1, <3>2, <3>3, <3>4 DEF Shown
    <2>3. ASSUME ~walk.done
          PROVE  /\ walk.cursor # Start
                 /\ \A r \in Range(walk.got) \ walk.moved : Passed(l.order, walk.cursor, r)'
      BY <1>4, <1>7, <2>1, <2>3 DEF Follows, Passed
    <2>4. ASSUME NEW r \in whole
          PROVE  \/ r \in Range(walk.got) \/ Tied(l.order, r)'
                 \/ ~walk.done /\ ~Passed(l.order, walk.cursor, r)'
      <3>1. \/ r \in Range(walk.got) \/ Tied(l.order, r)
            \/ ~walk.done /\ ~Passed(l.order, walk.cursor, r)
        BY <1>5, <2>1 DEF Follows
      <3>2. CASE Tied(l.order, r)
        <4>1. PICK s \in Rows : s # r /\ entries[s].at = entries[r].at /\ entries[s].state # "none"
          BY <3>2 DEF Tied
        <4>2. entries'[s].at = entries[s].at /\ entries'[s].state # "none"
          BY <4>1 DEF RowsStay
        <4>3. entries'[r].at = entries[r].at
          BY <1>5, <1>7
        <4> QED BY <3>2, <4>1, <4>2, <4>3 DEF Tied
      <3>3. CASE ~walk.done /\ ~Passed(l.order, walk.cursor, r)
        BY <1>4, <1>5, <1>7, <3>3 DEF Passed
      <3> QED BY <3>1, <3>2, <3>3
    <2> QED BY <1>4, <2>1, <2>2, <2>3, <2>4 DEF Follows
  <1>10. \A r \in Range(walk.got)' \cup walk'.whole : entries'[r].state # "none"
    BY <1>4, <1>5, <1>7
  <1>11. walk'.list = {} => walk'.got = <<>> /\ walk'.whole = {} /\ walk'.cursor = Start
    BY <1>1, <1>4, <1>5 DEF WalkInv
  <1> QED BY <1>4, <1>8, <1>9, <1>10, <1>11 DEF WalkInv

\* No transaction begins, and where one inserts a row, there is none yet.
LEMMA InsertsStay ==
    ASSUME ListingsInv,
           \A v \in Workers : tx'[v].op = "insert" => tx'[v] = tx[v],
           \A r \in Rows : entries[r].state = "none" =>
              entries'[r].state = "none" \/ \A v \in Workers : tx'[v].op = "insert" => tx'[v].on # r
    PROVE  \A w \in Workers : InsertHeld(w)'
  BY DEF ListingsInv, InsertHeld

-----------------------------------------------------------------------------
(* The steps of the rows.                                                  *)

ListingOps == {"insert"}

LEMMA InsertKeeps ==
    ASSUME ListingsInv, DatabaseInv, db' = db, NEW w \in Workers, NEW r \in Rows, NEW o \in Owners,
           Insert(w, r, o)
    PROVE  ListingsInv' /\ DatabaseInv' /\ Within(ListingOps)
  <1>1. /\ entries[r].state = "none" /\ ~LockedByOther(w, {"insert"}, r)
        /\ Begin(w, "insert", r, {o}, {instant})
        /\ entries' = entries /\ walk' = walk /\ promoted' = promoted /\ instant' = instant
    BY DEF Insert, listings
  <1>2. PICK q : q = Request("insert", r, {o}, {instant}, 0, TRUE)
    OBVIOUS
  <1>3. tx[w].op = "none" /\ MayBegin /\ Turns(w, q)
    BY <1>1, <1>2, BeginTurns DEF DatabaseInv
  <1>4. q.op = "insert" /\ q.on = r /\ q.by = {o} /\ q.seen = {instant} /\ q.open = TRUE
    BY <1>2 DEF Request
  <1>5. DatabaseInv' /\ Within(ListingOps)
    <2>1. DatabaseInv'
      BY <1>2, <1>3, TurnKeepsDatabase
    <2>2. Within(ListingOps)
      BY <1>2, <1>3, RequestWithin DEF ListingOps
    <2> QED BY <2>1, <2>2
  <1>6. tx'[w] = q /\ \A v \in Workers \ {w} : tx'[v] = tx[v]
    BY <1>3 DEF Turns
  <1>7. ASSUME NEW v \in Workers
        PROVE  InsertHeld(v)'
    <2>1. ASSUME NEW u \in Workers \ {w}, tx[u].op = "insert"
          PROVE  tx[u].on # r
      BY <1>1, <2>1 DEF ListingsInv, InsertHeld, LockedByOther
    <2>2. CASE v = w
      BY <1>1, <1>4, <1>6, <2>1, <2>2 DEF ListingsInv, RowTypes, InsertHeld
    <2>3. CASE v # w
      BY <1>1, <1>4, <1>6, <2>1, <2>3 DEF ListingsInv, InsertHeld
    <2> QED BY <2>2, <2>3
  <1>8. WalkInv' /\ RowTypes'
    BY <1>1 DEF ListingsInv, WalkInv, WalkTypes, GotOnce, RowTypes, Follows, Shown, ScopeNow,
           Tied, Passed, Position
  <1> QED BY <1>5, <1>7, <1>8 DEF ListingsInv

\* A worker ends its transaction, or one of a single step.
LEMMA RowStepEnds ==
    ASSUME ListingsInv, DatabaseInv, db' = db, NEW w \in Workers,
           tx[w].op \in ListingOps \cup {"none"}, End(w),
           NEW S, RowsStay(S), instant' = instant,
           \A r \in Rows : entries[r].state = "none" =>
              entries'[r].state = "none" \/ (tx[w].op = "insert" /\ tx[w].on = r)
    PROVE  ListingsInv' /\ DatabaseInv' /\ Within(ListingOps)
  <1>1. Turns(w, NoRequest)
    BY EndTurns DEF DatabaseInv
  <1>2. DatabaseInv' /\ Within(ListingOps)
    BY <1>1, EndKeepsDatabase, EndWithin
  <1>3. tx'[w].op = "none" /\ \A v \in Workers \ {w} : tx'[v] = tx[v]
    BY <1>1, NoRequestFields DEF Turns
  <1>4. \A v \in Workers : tx'[v].op = "insert" => tx'[v] = tx[v]
    BY <1>3
  <1>5. ASSUME NEW r \in Rows, entries[r].state = "none", entries'[r].state # "none",
               NEW v \in Workers, tx'[v].op = "insert"
        PROVE  tx'[v].on # r
    <2>1. tx[w].op = "insert" /\ tx[w].on = r /\ v # w /\ tx'[v] = tx[v]
      BY <1>3, <1>5
    <2> QED BY <1>5, <2>1 DEF ListingsInv, InsertHeld
  <1>6. \A v \in Workers : InsertHeld(v)'
    BY <1>4, <1>5, InsertsStay
  <1>7. WalkInv' /\ RowTypes'
    BY StayKeeps DEF ListingsInv, RowTypes, RowsStay
  <1> QED BY <1>2, <1>6, <1>7 DEF ListingsInv

LEMMA WalkAlike ==
    ASSUME ListingsInv
    PROVE  walk = [walk EXCEPT !.whole = @ \ {}] /\ walk.whole \subseteq Rows
  <1>1. PICK whole : whole = walk.whole
    OBVIOUS
  <1>2. PICK w1 : w1 = [walk EXCEPT !.whole = whole]
    OBVIOUS
  <1>3. w1 = walk
    BY <1>1, <1>2 DEF ListingsInv, WalkInv, WalkTypes, Walk
  <1>4. walk.whole \ {} = whole
    BY <1>1
  <1> QED BY <1>1, <1>2, <1>3, <1>4 DEF ListingsInv, WalkInv, WalkTypes

LEMMA CommitInsertKeeps ==
    ASSUME ListingsInv, DatabaseInv, db' = db, NEW w \in Workers, CommitInsert(w)
    PROVE  ListingsInv' /\ DatabaseInv' /\ Within(ListingOps)
  <1>1. PICK o \in tx[w].by, at \in tx[w].seen :
            entries' = [entries EXCEPT ![tx[w].on] = [state |-> "listed", at |-> at, of |-> o]]
    BY DEF CommitInsert
  <1>2. PICK r \in Rows : r = tx[w].on /\ entries[r].state = "none" /\ o \in Owners /\ at \in Nat
    BY DEF CommitInsert, ListingsInv, InsertHeld
  <1>3. PICK e : e = [state |-> "listed", at |-> at, of |-> o]
    OBVIOUS
  <1>4. e \in EntryRecord /\ entries' = [entries EXCEPT ![r] = e] /\ entries \in [Rows -> EntryRecord]
    BY <1>1, <1>2, <1>3 DEF EntryRecord, ListingsInv, RowTypes
  <1>5. entries' \in [Rows -> EntryRecord] /\ \A s \in Rows \ {r} : entries'[s] = entries[s]
    BY <1>4
  <1>6. r \notin walk.whole
    BY <1>2 DEF ListingsInv, WalkInv
  <1>7. walk' = [walk EXCEPT !.whole = @ \ {}]
    BY WalkAlike DEF CommitInsert
  <1>8. walk.whole \subseteq Rows
    BY WalkAlike
  <1>9. RowsStay({})
    BY <1>2, <1>5, <1>6, <1>7, <1>8 DEF RowsStay, CommitInsert
  <1> QED BY <1>2, <1>5, <1>9, RowStepEnds DEF CommitInsert, ListingOps

LEMMA ChangeKeeps ==
    ASSUME ListingsInv, DatabaseInv, db' = db, NEW w \in Workers, NEW r \in Rows,
           NEW from \in {"listed", "hidden"}, NEW to \in {"listed", "hidden", "deleted"},
           Change(w, r, from, to)
    PROVE  ListingsInv' /\ DatabaseInv' /\ Within(ListingOps)
  <1>1. entries \in [Rows -> EntryRecord] /\ entries[r].state = from
    BY DEF ListingsInv, RowTypes, Change
  <1>2. PICK e : e = [entries[r] EXCEPT !.state = to]
    OBVIOUS
  <1>3. e \in EntryRecord /\ e.state = to /\ e.at = entries[r].at
    BY <1>1, <1>2 DEF EntryRecord
  <1>4. entries' = [entries EXCEPT ![r] = e]
    BY <1>1, <1>2 DEF Change
  <1>5. entries' \in [Rows -> EntryRecord] /\ entries'[r] = e /\ \A s \in Rows \ {r} : entries'[s] = entries[s]
    BY <1>1, <1>3, <1>4
  <1>6. walk.whole \subseteq Rows
    BY WalkAlike
  <1>7. RowsStay({r})
    BY <1>1, <1>3, <1>5, <1>6 DEF RowsStay, Change, Leaves
  <1> QED BY <1>1, <1>5, <1>7, RowStepEnds DEF Change, Short

LEMMA PromoteKeeps ==
    ASSUME ListingsInv, DatabaseInv, db' = db, NEW w \in Workers, NEW v \in Owners,
           PromoteRevision(w, v)
    PROVE  ListingsInv' /\ DatabaseInv' /\ Within(ListingOps)
  <1>1. PICK S : S = IF \E l \in walk.list : l.holds = "live" THEN Rows ELSE {}
    OBVIOUS
  <1>2. walk' = [walk EXCEPT !.whole = @ \ S] /\ entries' = entries /\ instant' = instant
    BY <1>1 DEF PromoteRevision, Leaves
  <1>3. (\E l \in walk.list : l.holds = "live") => walk.whole \subseteq S
    BY <1>1, WalkAlike
  <1>4. RowsStay(S)
    BY <1>2, <1>3 DEF RowsStay, ListingsInv, RowTypes
  <1> QED BY <1>2, <1>4, RowStepEnds DEF PromoteRevision, Short

\* A search ranks a row anew: the ids make its order total, so no row was tied.
LEMMA RerankKeeps ==
    ASSUME ListingsInv, NEW r \in Rows, NEW at \in 1..MaxInstant, Rerank(r, at)
    PROVE  ListingsInv' /\ tx' = tx
  <1>1. /\ tx' = tx /\ instant' = instant /\ promoted' = promoted /\ entries[r].state = "listed"
        /\ entries' = [entries EXCEPT ![r].at = at]
        /\ walk' = [walk EXCEPT !.whole = @ \ {r}, !.moved = @ \cup {r}]
    BY DEF Rerank, Moves
  <1>2. at \in Nat /\ WalkInv /\ WalkTypes /\ RowTypes
    BY ListingsOK DEF ListingsInv, WalkInv
  <1>3. PICK e : e = [entries[r] EXCEPT !.at = at]
    OBVIOUS
  <1>4. e \in EntryRecord /\ e.state = "listed" /\ e.of = entries[r].of /\ entries' = [entries EXCEPT ![r] = e]
    BY <1>1, <1>2, <1>3 DEF RowTypes, EntryRecord
  <1>5. /\ entries' \in [Rows -> EntryRecord] /\ entries'[r] = e
        /\ \A s \in Rows \ {r} : entries'[s] = entries[s]
        /\ \A s \in Rows : entries'[s].state = entries[s].state
    BY <1>1, <1>2, <1>4 DEF RowTypes
  <1>6. PICK whole, moved : whole = walk.whole \ {r} /\ moved = walk.moved \cup {r}
    OBVIOUS
  <1>7. walk' = Walk(walk.list, walk.scope, walk.cursor, walk.got, whole, moved, walk.done)
    <2>1. PICK w1 : w1 = [walk EXCEPT !.whole = whole]
      OBVIOUS
    <2>2. PICK w2 : w2 = [w1 EXCEPT !.moved = moved]
      OBVIOUS
    <2>3. w2 = Walk(walk.list, walk.scope, walk.cursor, walk.got, whole, moved, walk.done)
      BY <1>2, <2>1, <2>2 DEF WalkTypes, Walk
    <2> QED BY <1>1, <1>6, <2>1, <2>2, <2>3
  <1>8. /\ walk'.list = walk.list /\ walk'.scope = walk.scope /\ walk'.cursor = walk.cursor
        /\ walk'.got = walk.got /\ walk'.whole = whole /\ walk'.moved = moved
        /\ walk'.done = walk.done
    BY <1>7 DEF Walk
  <1>9. /\ whole \subseteq walk.whole /\ whole \subseteq Rows /\ Range(walk.got) \subseteq Rows
        /\ r \notin whole /\ r \in moved /\ walk.moved \subseteq moved
    BY <1>2, <1>6, RangeOfSeq DEF WalkTypes
  <1>10. \A s \in Rows \ {r} : Position(s)' = Position(s)
    BY <1>5 DEF Position
  <1>11. RowTypes'
    BY <1>1, <1>2, <1>5 DEF RowTypes
  <1>12. WalkTypes' /\ GotOnce'
    BY <1>2, <1>7, <1>8, <1>9 DEF WalkTypes, WalkInv, GotOnce
  <1>13. ASSUME NEW l \in walk.list
         PROVE  walk.list = {l} /\ Follows(l)'
    <2>1. walk.list = {l} /\ Follows(l)
      BY <1>2 DEF WalkInv
    <2>2. "id" \in l.order.keys
      BY <2>1 DEF Follows, IsList, Rerank
    <2>3. (walk.whole \subseteq Shown(ScopeNow(l, walk.scope)))'
      BY <1>1, <1>5, <1>8, <1>9, <2>1 DEF Follows, Shown, ScopeNow
    <2>4. ASSUME ~walk.done
          PROVE  /\ walk.cursor # Start
                 /\ \A s \in Range(walk.got) \ moved : Passed(l.order, walk.cursor, s)'
      BY <1>8, <1>9, <1>10, <2>1, <2>4 DEF Follows, Passed
    <2>5. ASSUME NEW s \in whole
          PROVE  s \in Range(walk.got) \/ (~walk.done /\ ~Passed(l.order, walk.cursor, s)')
      BY <1>8, <1>9, <1>10, <2>1, <2>2 DEF Follows, Passed, Tied
    <2> QED BY <1>8, <2>1, <2>3, <2>4, <2>5 DEF Follows
  <1>14. /\ \A s \in Range(walk.got)' \cup walk'.whole : entries'[s].state # "none"
         /\ walk'.list = {} => walk'.got = <<>> /\ walk'.whole = {} /\ walk'.cursor = Start
    BY <1>2, <1>5, <1>8, <1>9 DEF WalkInv
  <1>15. \A w \in Workers : InsertHeld(w)'
    BY <1>1, <1>5, InsertsStay DEF ListingsInv
  <1> QED BY <1>1, <1>8, <1>11, <1>12, <1>13, <1>14, <1>15 DEF ListingsInv, WalkInv

LEMMA ListingsElsewhere ==
    ASSUME ListingsInv, entries' = entries, promoted' = promoted, walk' = walk, instant' \in Nat,
           NEW ops, Within(ops), ops \cap ListingOps = {}
    PROVE  ListingsInv'
  <1>1. \A v \in Workers : tx[v].op \in ListingOps \/ tx'[v].op \in ListingOps => tx'[v] = tx[v]
    BY WithinElsewhere DEF ListingOps
  <1>2. \A v \in Workers : tx'[v].op = "insert" => tx'[v] = tx[v]
    BY <1>1 DEF ListingOps
  <1>3. \A w \in Workers : InsertHeld(w)'
    BY <1>2, InsertsStay
  <1> QED BY <1>3 DEF ListingsInv, WalkInv, WalkTypes, GotOnce, RowTypes, Follows, Shown,
             ScopeNow, Tied, Passed, Position

LEMMA ListingsKeep ==
    ASSUME ListingsInv, DatabaseInv, db' = db, ListingNext
    PROVE  ListingsInv' /\ DatabaseInv' /\ Within(ListingOps)
  <1>1. CASE tx' = tx /\ ListingsInv'
    BY <1>1, StutterKeepsDatabase DEF Within
  <1>2. CASE AdminPage \/ ControlPage \/ RegistryPage
    BY <1>1, <1>2, PagesKeep
  <1>3. ASSUME NEW r \in Rows, NEW at \in 1..MaxInstant, Rerank(r, at)
        PROVE  ListingsInv' /\ DatabaseInv' /\ Within(ListingOps)
    BY <1>1, <1>3, RerankKeeps
  <1>4. CASE TimeGoesOn
    <2>1. /\ entries' = entries /\ promoted' = promoted /\ walk' = walk /\ tx' = tx
          /\ instant' \in Nat
      BY <1>4 DEF TimeGoesOn, ListingsInv, RowTypes
    <2>2. Within({})
      BY <2>1 DEF Within
    <2> QED BY <1>1, <2>1, <2>2, ListingsElsewhere
  <1>5. ASSUME NEW w \in Workers, RowStep(w)
        PROVE  ListingsInv' /\ DatabaseInv' /\ Within(ListingOps)
    BY <1>5, CommitInsertKeeps, InsertKeeps, ChangeKeeps, PromoteKeeps DEF RowStep
  <1> QED BY <1>2, <1>3, <1>4, <1>5 DEF ListingNext

LEMMA ListingsStart ==
    ASSUME ListingsInit, DatabaseInit
    PROVE  ListingsInv
  <1>1. RowTypes
    <2>1. PICK S \in SUBSET Rows : \E at \in [S -> 1..instant], of \in [S -> Owners] :
              entries = [r \in Rows |-> IF r \in S THEN [state |-> "listed", at |-> at[r], of |-> of[r]]
                                                   ELSE NoEntries[r]]
      BY DEF ListingsInit
    <2>2. PICK at \in [S -> 1..instant], of \in [S -> Owners] :
              entries = [r \in Rows |-> IF r \in S THEN [state |-> "listed", at |-> at[r], of |-> of[r]]
                                                   ELSE NoEntries[r]]
      BY <2>1
    <2>3. instant \in Nat
      BY ListingsOK DEF ListingsInit
    <2>4. ASSUME NEW r \in Rows
          PROVE  entries[r] \in EntryRecord
      <3>1. CASE r \in S
        BY <2>2, <2>3, <3>1 DEF EntryRecord
      <3>2. CASE r \notin S
        <4>1. entries[r] = [state |-> "none", at |-> 0, of |-> 1]
          BY <2>2, <3>2 DEF NoEntries
        <4> QED BY <4>1, ListingsOK DEF EntryRecord
      <3> QED BY <3>1, <3>2
    <2> QED BY <2>2, <2>3, <2>4 DEF RowTypes
  <1>2. /\ walk = Walk({}, {}, Start, <<>>, {}, {}, FALSE)
    BY DEF ListingsInit, NoWalk, Walk
  <1>3. /\ walk.list = {} /\ walk.cursor = Start /\ walk.got = <<>> /\ walk.whole = {}
        /\ walk.done = FALSE /\ walk.scope = {} /\ walk.moved = {}
    BY <1>2 DEF Walk
  <1>4. Range(walk.got) = {} /\ walk.got \in Seq(Rows) /\ Len(walk.got) = 0
    BY <1>3 DEF Range
  <1>5. WalkTypes /\ GotOnce
    <2>1. Start \in Positions
      BY DEF Start, Positions
    <2>2. walk = Walk(walk.list, walk.scope, walk.cursor, walk.got, walk.whole, walk.moved, walk.done)
      BY <1>2 DEF Walk
    <2>3. walk.cursor \in Positions /\ walk.whole \subseteq Rows /\ walk.done \in BOOLEAN
      BY <1>3, <2>1
    <2>4. WalkTypes
      BY <1>4, <2>2, <2>3 DEF WalkTypes
    <2> QED BY <1>4, <2>4 DEF GotOnce
  <1>6. WalkInv
    BY <1>3, <1>4, <1>5 DEF WalkInv
  <1>7. \A w \in Workers : tx[w].op = "none"
    BY NoRequestFields DEF DatabaseInit
  <1> QED BY <1>1, <1>6, <1>7 DEF ListingsInv, InsertHeld

\* Where the walk is over, what is in the list and was not returned is tied to another row.
LEMMA ListingsGive ==
    ASSUME ListingsInv
    PROVE  WalksComplete
  <1>1. \A i, j \in DOMAIN walk.got : walk.got[i] = walk.got[j] => i = j \/ walk.got[i] \in walk.moved
    BY DEF ListingsInv, WalkInv, WalkTypes, GotOnce
  <1>2. ASSUME walk.done, \A l \in walk.list : Unsplit(l.order), NEW r \in walk.whole
        PROVE  r \in Range(walk.got)
    <2>1. PICK l \in walk.list : TRUE
      BY <1>2 DEF ListingsInv, WalkInv
    <2>2. Follows(l) /\ Unsplit(l.order)
      BY <1>2, <2>1 DEF ListingsInv, WalkInv
    <2>3. ~Tied(l.order, r)
      BY <1>2, <2>2 DEF Tied, Unsplit
    <2> QED BY <1>2, <2>2, <2>3 DEF Follows
  <1> QED BY <1>1, <1>2 DEF WalksComplete

-----------------------------------------------------------------------------
(* The sessions the services write in.                                     *)

SessionRecord ==
    [at : {"idle", "begin", "body", "commit", "done"}, again : BOOLEAN, tries : 0 .. Retries,
     failed : 0 .. CommitRetries, wrote : BOOLEAN, read : Nat, landed : Nat,
     result : Errors \cup {"none", "success", "cancelled"}]

\* A session between its BEGIN and the end of its first commit: on SQLite it holds the lock.
Holds(c) == c.at = "body" \/ (c.at = "commit" /\ c.failed = 0)

\* What a call has made at each of its steps: nothing before its commit was tried.
CallTrue(c) ==
    /\ c.at \in {"idle", "begin", "body"} => c.failed = 0 /\ c.landed = 0
    /\ c.at = "commit" /\ c.failed = 0 => c.landed = 0
    /\ c.at # "done" => c.result = "none"
    /\ c.landed <= 1
    /\ c.result \in Errors => c.landed = 0
    /\ c.result = "success" /\ c.wrote /\ c.failed = 0 => c.landed = 1

\* One session at most holds SQLite's lock, and it has read the last commit.
LockTrue ==
    /\ \A w \in Workers : w \in writer <=> Holds(call[w])
    /\ \A v, w \in writer : v = w
    /\ \A w \in writer : call[w].read = landed

SessionsInv ==
    /\ call \in [Workers -> SessionRecord] /\ writer \subseteq Workers /\ landed \in Nat
    /\ \A w \in Workers : CallTrue(call[w])
    /\ Serial => LockTrue

\* A step of one call keeps the others' as long as it takes the lock only when it is free,
\* and commits only what it holds the lock for.
LEMMA CallTurns ==
    ASSUME SessionsInv, db' = db, NEW w \in Workers, NEW c \in SessionRecord, CallTrue(c),
           call' = [call EXCEPT ![w] = c], landed' \in Nat, writer' \subseteq writer \cup {w},
           Serial => /\ writer \subseteq writer' \cup {w}
                     /\ w \in writer' <=> Holds(c)
                     /\ Holds(c) => writer \subseteq {w} /\ c.read = landed'
                     /\ landed' # landed => writer \subseteq {w}
    PROVE  SessionsInv'
  <1>1. /\ call' \in [Workers -> SessionRecord] /\ writer' \subseteq Workers
        /\ call'[w] = c /\ \A v \in Workers : v # w => call'[v] = call[v]
    BY DEF SessionsInv
  <1>2. \A v \in Workers : CallTrue(call'[v])
    BY <1>1 DEF SessionsInv
  <1>3. ASSUME Serial
        PROVE  LockTrue'
    <2>1. LockTrue
      BY <1>3 DEF SessionsInv
    <2>2. \A v \in Workers : v \in writer' <=> Holds(call'[v])
      BY <1>1, <1>3, <2>1 DEF LockTrue
    <2>3. \A u, v \in writer' : u = v
      BY <1>3, <2>1 DEF LockTrue
    <2>4. \A v \in writer' : call'[v].read = landed'
      BY <1>1, <1>3, <2>1 DEF LockTrue
    <2> QED BY <2>2, <2>3, <2>4 DEF LockTrue, Holds
  <1> QED BY <1>1, <1>2, <1>3 DEF SessionsInv, CallTrue, Serial

\* A call before its session.
Beginning(again, n) ==
    [at |-> "begin", again |-> again, tries |-> n, failed |-> 0, wrote |-> FALSE, read |-> 0,
     landed |-> 0, result |-> "none"]

LEMMA BeginningTrue ==
    ASSUME NEW again \in BOOLEAN, NEW n \in 0 .. Retries
    PROVE  /\ Beginning(again, n) \in SessionRecord /\ CallTrue(Beginning(again, n))
           /\ ~Holds(Beginning(again, n))
  <1>1. 0 \in 0 .. CommitRetries /\ 0 \in Nat
    BY SessionsOK
  <1>2. Beginning(again, n) \in SessionRecord
    BY <1>1 DEF Beginning, SessionRecord
  <1>3. "none" \notin Errors
    BY DEF Errors
  <1> QED BY <1>2, <1>3 DEF Beginning, CallTrue, Holds

\* An exception ends the call, or begins it anew: it has made nothing.
LEMMA RaiseKeeps ==
    ASSUME SessionsInv, db' = db, NEW w \in Workers, NEW error \in Errors, Raise(w, error, 0),
           call[w].landed = 0, landed' = landed, writer' = writer \ {w}
    PROVE  SessionsInv'
  <1>1. PICK c : c = IF call[w].again /\ error = "unavailable" /\ call[w].tries < Retries
                     THEN [NoCall EXCEPT !.at = "begin", !.again = TRUE, !.tries = call[w].tries + 1,
                                         !.landed = call[w].landed + 0]
                     ELSE [call[w] EXCEPT !.at = "done", !.landed = call[w].landed + 0,
                                          !.result = error]
    OBVIOUS
  <1>2. call[w] \in SessionRecord /\ landed \in Nat
    BY DEF SessionsInv
  <1>3. call' = [call EXCEPT ![w] = c]
    BY <1>1 DEF Raise, Becomes
  <1>4. CASE call[w].again /\ error = "unavailable" /\ call[w].tries < Retries
    <2>1. c = Beginning(TRUE, call[w].tries + 1)
      <3>1. PICK n : n = call[w].tries + 1
        OBVIOUS
      <3>2. c = [NoCall EXCEPT !.at = "begin", !.again = TRUE, !.tries = n, !.landed = 0]
        BY <1>1, <1>4, <3>1
      <3> QED BY <3>1, <3>2 DEF NoCall, Beginning
    <2>2. call[w].tries + 1 \in 0 .. Retries
      BY <1>2, <1>4, SessionsOK DEF SessionRecord
    <2>3. c \in SessionRecord /\ CallTrue(c) /\ ~Holds(c)
      BY <2>1, <2>2, BeginningTrue
    <2> QED BY <1>2, <1>3, <2>3, CallTurns
  <1>5. CASE ~(call[w].again /\ error = "unavailable" /\ call[w].tries < Retries)
    <2>1. c = [call[w] EXCEPT !.at = "done", !.landed = 0, !.result = error]
      BY <1>1, <1>5
    <2>2. c \in SessionRecord /\ c.at = "done" /\ c.landed = 0 /\ c.result = error
      BY <1>2, <2>1 DEF SessionRecord
    <2>3. error # "none" /\ error # "success"
      BY DEF Errors
    <2>4. CallTrue(c) /\ ~Holds(c)
      BY <2>2, <2>3 DEF CallTrue, Holds
    <2> QED BY <1>2, <1>3, <2>2, <2>4, CallTurns
  <1> QED BY <1>4, <1>5

\* Calls, their bodies and their answers.
LEMMA BodyKeeps ==
    ASSUME SessionsInv, db' = db, NEW w \in Workers,
           \/ \E again \in BOOLEAN : Call(w, again)
           \/ BeginSession(w) \/ Answered(w)
           \/ \E wrote \in BOOLEAN : BodyEnds(w, wrote)
    PROVE  SessionsInv'
  <1>1. call[w] \in SessionRecord /\ CallTrue(call[w]) /\ landed \in Nat /\ writer \subseteq Workers
    BY DEF SessionsInv
  <1>2. Serial => (w \in writer <=> Holds(call[w]))
    BY DEF SessionsInv, LockTrue
  <1>3. ASSUME NEW again \in BOOLEAN, Call(w, again)
        PROVE  SessionsInv'
    <2>1. PICK c : c = [NoCall EXCEPT !.at = "begin", !.again = again]
      OBVIOUS
    <2>2. c = Beginning(again, 0)
      BY <2>1 DEF NoCall, Beginning
    <2>4. 0 \in 0 .. Retries
      BY SessionsOK
    <2>5. c \in SessionRecord /\ CallTrue(c) /\ ~Holds(c)
      BY <2>2, <2>4, BeginningTrue
    <2>3. /\ call' = [call EXCEPT ![w] = c] /\ writer' = writer /\ landed' = landed
          /\ ~Holds(call[w])
      BY <1>3, <2>1 DEF Call, Becomes, Holds
    <2> QED BY <1>1, <1>2, <2>3, <2>5, CallTurns
  <1>4. CASE BeginSession(w)
    <2>1. PICK c : c = [call[w] EXCEPT !.at = "body", !.read = landed]
      OBVIOUS
    <2>2. c \in SessionRecord /\ CallTrue(c) /\ Holds(c) /\ c.read = landed
      BY <1>1, <1>4, <2>1 DEF SessionRecord, CallTrue, Holds, BeginSession
    <2>3. /\ call' = [call EXCEPT ![w] = c] /\ landed' = landed
          /\ writer' = IF Serial THEN {w} ELSE writer
          /\ Serial => writer = {}
      BY <1>4, <2>1 DEF BeginSession, Becomes
    <2> QED BY <1>1, <2>2, <2>3, CallTurns
  <1>5. CASE Answered(w)
    <2>1. NoCall \in SessionRecord /\ CallTrue(NoCall) /\ ~Holds(NoCall)
      BY SessionsOK DEF SessionRecord, CallTrue, Holds, NoCall
    <2>2. /\ call' = [call EXCEPT ![w] = NoCall] /\ writer' = writer /\ landed' = landed
          /\ ~Holds(call[w])
      BY <1>5 DEF Answered, Becomes, Holds
    <2> QED BY <1>1, <1>2, <2>1, <2>2, CallTurns
  <1>6. ASSUME NEW wrote \in BOOLEAN, BodyEnds(w, wrote)
        PROVE  SessionsInv'
    <2>1. PICK c : c = [call[w] EXCEPT !.at = "commit", !.wrote = wrote]
      OBVIOUS
    <2>2. c \in SessionRecord /\ CallTrue(c) /\ Holds(c) /\ c.read = call[w].read /\ Holds(call[w])
      BY <1>1, <1>6, <2>1 DEF SessionRecord, CallTrue, Holds, BodyEnds
    <2>3. call' = [call EXCEPT ![w] = c] /\ writer' = writer /\ landed' = landed
      BY <1>6, <2>1 DEF BodyEnds, Becomes
    <2>4. Serial => writer \subseteq {w} /\ call[w].read = landed
      BY <1>2, <2>2 DEF SessionsInv, LockTrue
    <2> QED BY <1>1, <1>2, <2>2, <2>3, <2>4, CallTurns
  <1> QED BY <1>3, <1>4, <1>5, <1>6

\* The ends of a session that can have made its work: its call has made nothing before.
LEMMA CommitKeeps ==
    ASSUME SessionsInv, db' = db, NEW w \in Workers,
           Commits(w) \/ CommitFails(w) \/ Cancelled(w)
    PROVE  SessionsInv'
  <1>1. call[w] \in SessionRecord /\ CallTrue(call[w]) /\ landed \in Nat /\ writer \subseteq Workers
    BY DEF SessionsInv
  <1>2. PICK made \in {0, Made(w)}, at \in {"commit", "done"}, failed \in 0 .. CommitRetries,
             result \in {"none", "success", "cancelled"}, c \in {call'[w]} :
            /\ c = [call[w] EXCEPT !.at = at, !.failed = failed, !.landed = @ + made,
                                   !.result = result]
            /\ call' = [call EXCEPT ![w] = c] /\ landed' = landed + made /\ writer' = writer \ {w}
            /\ at = "commit" => failed # 0 /\ result = "none"
            /\ result = "success" /\ failed = 0 => call[w].failed = 0 /\ made = Made(w)
            /\ made # 0 => call[w].at = "commit"
    <2>1. CASE Commits(w)
      <3>1. [call[w] EXCEPT !.at = "done", !.landed = @ + Made(w), !.result = "success"]
                = [call[w] EXCEPT !.at = "done", !.failed = call[w].failed, !.landed = @ + Made(w),
                                  !.result = "success"]
        BY <1>1 DEF SessionRecord
      <3>2. call[w].failed \in 0 .. CommitRetries
        BY <1>1 DEF SessionRecord
      <3>3. call' = [call EXCEPT ![w] = [call[w] EXCEPT !.at = "done", !.landed = @ + Made(w),
                                                        !.result = "success"]]
            /\ landed' = landed + Made(w) /\ writer' = writer \ {w} /\ call[w].at = "commit"
        BY <2>1 DEF Commits, Becomes
      <3>4. call'[w] = [call[w] EXCEPT !.at = "done", !.failed = call[w].failed,
                                       !.landed = @ + Made(w), !.result = "success"]
        BY <3>1, <3>3 DEF SessionsInv
      <3> HIDE DEF Made
      <3> QED BY <3>2, <3>3, <3>4
    <2>2. CASE CommitFails(w)
      <3>1. call[w].failed = 0 /\ call[w].at = "commit" /\ writer' = writer \ {w}
        BY <2>2 DEF CommitFails
      <3>5. ~(0 + 1 > CommitRetries) /\ 1 \in 0 .. CommitRetries
        BY SessionsOK
      <3>2. PICK made \in Unanswered(w) :
                /\ call' = [call EXCEPT ![w] = [call[w] EXCEPT !.failed = @ + 1, !.landed = @ + made]]
                /\ landed' = landed + made
        BY <2>2, <3>1, <3>5 DEF CommitFails, Becomes
      <3>3. [call[w] EXCEPT !.failed = @ + 1, !.landed = @ + made]
                = [call[w] EXCEPT !.at = "commit", !.failed = 1, !.landed = @ + made, !.result = "none"]
        <4>1. call[w].result = "none" /\ call[w].at = "commit" /\ call[w].failed + 1 = 1
          BY <1>1, <3>1 DEF CallTrue
        <4>2. PICK l : l = call[w].landed + made
          OBVIOUS
        <4>3. [call[w] EXCEPT !.failed = call[w].failed + 1, !.landed = l]
                  = [call[w] EXCEPT !.failed = 1, !.landed = l]
          BY <4>1
        <4>4. [call[w] EXCEPT !.failed = 1, !.landed = l]
                  = [call[w] EXCEPT !.at = "commit", !.failed = 1, !.landed = l, !.result = "none"]
          BY <1>1, <4>1 DEF SessionRecord
        <4> QED BY <4>2, <4>3, <4>4
      <3>4. made \in {0, Made(w)}
        BY <3>2 DEF Unanswered
      <3>6. call'[w] = [call[w] EXCEPT !.at = "commit", !.failed = 1, !.landed = @ + made,
                                       !.result = "none"]
        BY <3>2, <3>3 DEF SessionsInv
      <3>7. landed' = landed + made /\ call' = [call EXCEPT ![w] = call'[w]]
        BY <3>2, <3>3, <3>6
      <3>8. 1 # 0 /\ (made # 0 => call[w].at = "commit")
        BY <3>1
      <3> HIDE DEF Made
      <3> QED BY <3>1, <3>4, <3>5, <3>6, <3>7, <3>8
    <2>3. CASE Cancelled(w)
      <3>1. PICK made \in {0, Made(w)} :
                /\ call' = [call EXCEPT ![w] = [call[w] EXCEPT !.at = "done", !.landed = @ + made,
                                                               !.result = "cancelled"]]
                /\ landed' = landed + made /\ (made # 0 => call[w].at = "commit")
        BY <2>3 DEF Cancelled, Becomes
      <3>2. [call[w] EXCEPT !.at = "done", !.landed = @ + made, !.result = "cancelled"]
                = [call[w] EXCEPT !.at = "done", !.failed = call[w].failed, !.landed = @ + made,
                                  !.result = "cancelled"]
        BY <1>1 DEF SessionRecord
      <3>3. call[w].failed \in 0 .. CommitRetries
        BY <1>1 DEF SessionRecord
      <3>4. call'[w] = [call[w] EXCEPT !.at = "done", !.failed = call[w].failed,
                                       !.landed = @ + made, !.result = "cancelled"]
        BY <3>1, <3>2 DEF SessionsInv
      <3>5. writer' = writer \ {w}
        BY <2>3 DEF Cancelled
      <3> QED BY <3>1, <3>2, <3>3, <3>4, <3>5
    <2> QED BY <2>1, <2>2, <2>3
  <1>3. Made(w) \in {0, 1} /\ (Made(w) = 1 <=> call[w].wrote /\ call[w].failed = 0)
    BY DEF Made, Pending
  <1>4. made = 1 => call[w].landed = 0 /\ Holds(call[w])
    BY <1>1, <1>2, <1>3 DEF CallTrue, Holds
  <1>5. call[w].landed + made <= 1 /\ made \in Nat /\ call[w].landed + made \in Nat
    BY <1>1, <1>2, <1>3, <1>4 DEF CallTrue, SessionRecord
  <1>6. c \in SessionRecord
    BY <1>1, <1>2, <1>5 DEF SessionRecord
  <1>7. /\ c.at = at /\ c.failed = failed /\ c.result = result /\ c.wrote = call[w].wrote
        /\ c.landed = call[w].landed + made
    BY <1>1, <1>2 DEF SessionRecord
  <1>8. CallTrue(c) /\ ~Holds(c)
    <2>1. result = "success" /\ c.wrote /\ failed = 0 => c.landed = 1
      BY <1>1, <1>2, <1>3, <1>4, <1>7 DEF CallTrue
    <2> QED BY <1>2, <1>5, <1>7, <2>1 DEF CallTrue, Holds, Errors
  <1>9. Serial /\ made # 0 => writer \subseteq {w}
    BY <1>2, <1>3, <1>4 DEF SessionsInv, LockTrue
  <1>10. landed' \in Nat /\ (landed' # landed => made # 0)
    BY <1>1, <1>2, <1>5
  <1> QED BY <1>2, <1>6, <1>8, <1>9, <1>10, CallTurns

LEMMA SessionsKeep ==
    ASSUME SessionsInv, db' = db, SessionsNext
    PROVE  SessionsInv'
  <1>1. PICK w \in Workers : SessionStep(w)
    BY DEF SessionsNext
  <1>2. CallTrue(call[w])
    BY DEF SessionsInv
  <1>3. CASE BeginFails(w)
    <2>1. call[w].landed = 0 /\ Raise(w, "unavailable", 0) /\ landed' = landed
      BY <1>2, <1>3 DEF BeginFails, CallTrue
    <2>2. writer' = writer \ {w}
      BY <1>3 DEF BeginFails, SessionsInv, LockTrue, Holds
    <2> QED BY <2>1, <2>2, RaiseKeeps DEF Errors
  <1>4. ASSUME NEW error \in Errors, BodyFails(w, error)
        PROVE  SessionsInv'
    BY <1>2, <1>4, RaiseKeeps DEF BodyFails, CallTrue
  <1>5. CASE CommitRefused(w)
    BY <1>2, <1>5, RaiseKeeps DEF CommitRefused, CallTrue, Errors
  <1> QED BY <1>1, <1>3, <1>4, <1>5, BodyKeeps, CommitKeeps DEF SessionStep

LEMMA SessionsStay ==
    ASSUME SessionsInv, db' = db, call' = call, writer' = writer, landed' = landed
    PROVE  SessionsInv'
  <1>1. Serial' = Serial
    BY DEF Serial
  <1>2. \A w \in Workers : CallTrue(call[w])'
    BY DEF SessionsInv, CallTrue
  <1>3. Serial' => LockTrue'
    BY <1>1 DEF SessionsInv, LockTrue, Holds
  <1> QED BY <1>2, <1>3 DEF SessionsInv

LEMMA SessionsStart ==
    ASSUME SessionsInit
    PROVE  SessionsInv
  <1>1. NoCall \in SessionRecord /\ CallTrue(NoCall) /\ ~Holds(NoCall)
    BY SessionsOK DEF SessionRecord, CallTrue, Holds, NoCall
  <1> QED BY <1>1 DEF SessionsInit, SessionsInv, LockTrue

LEMMA SessionsGive ==
    ASSUME SessionsInv
    PROVE  CallsAtomic /\ ReadsStayTrue /\ SessionsTypeOK
  <1>1. CallsAtomic
    BY DEF SessionsInv, CallTrue, CallsAtomic, Pending
  <1>2. ReadsStayTrue
    BY DEF SessionsInv, LockTrue, Holds, ReadsStayTrue, Pending
  <1>3. SessionsTypeOK
    BY DEF SessionsInv, SessionRecord, SessionsTypeOK
  <1> QED BY <1>1, <1>2, <1>3

-----------------------------------------------------------------------------
(* The composition: the lists and the catalogue share the workers, never   *)
(* an operation.                                                           *)

StorageInv == DatabaseInv /\ ListingsInv /\ CatalogueInv /\ SessionsInv

LEMMA StorageStarts ==
    ASSUME Init
    PROVE  StorageInv
  BY DatabaseStarts, ListingsStart, CatalogueStarts, SessionsStart DEF Init, StorageInv

LEMMA StorageStep ==
    ASSUME StorageInv, [Next]_vars
    PROVE  StorageInv'
  <1>1. DatabaseInv /\ ListingsInv /\ CatalogueInv /\ instant \in Nat
    BY DEF StorageInv, ListingsInv, RowTypes
  <1>2. db' = db
    BY DEF Next, vars
  <1>3. ListingOps \cap CatalogueOps = {}
    BY DEF ListingOps, CatalogueOps
  <1>a. ASSUME UNCHANGED sessions
        PROVE  SessionsInv'
    <2>1. call' = call /\ writer' = writer /\ landed' = landed /\ SessionsInv
      BY <1>a DEF StorageInv, sessions
    <2> QED BY <1>2, <2>1, SessionsStay
  <1>4. CASE ListingPart
    <2>1. ListingsInv' /\ DatabaseInv' /\ Within(ListingOps) /\ UNCHANGED <<catalogue, sessions>>
      BY <1>1, <1>2, <1>4, ListingsKeep DEF ListingPart
    <2>2. CatalogueInv'
      BY <1>1, <1>3, <2>1, CatalogueElsewhere
    <2> QED BY <1>a, <2>1, <2>2 DEF StorageInv
  <1>5. CASE CataloguePart
    <2>1. CatalogueInv' /\ DatabaseInv' /\ Within(CatalogueOps) /\ UNCHANGED <<listings, sessions>>
      BY <1>1, <1>2, <1>5, CatalogueKeeps DEF CataloguePart
    <2>2. ListingsInv'
      BY <1>1, <1>3, <2>1, ListingsElsewhere DEF listings
    <2> QED BY <1>a, <2>1, <2>2 DEF StorageInv
  <1>6. CASE MigrationPart \/ SessionPart \/ UNCHANGED vars
    <2>1. tx' = tx /\ UNCHANGED listings /\ UNCHANGED catalogue
      BY <1>6 DEF MigrationPart, MigrationNext, SessionPart, SessionsNext, vars
    <2>2. Within({})
      BY <2>1 DEF Within
    <2>3. DatabaseInv'
      BY <1>1, <1>2, <2>1, StutterKeepsDatabase
    <2>4. ListingsInv'
      BY <1>1, <2>1, <2>2, ListingsElsewhere DEF listings
    <2>5. CatalogueInv'
      BY <1>1, <2>1, <2>2, CatalogueElsewhere
    <2>6. SessionsInv'
      BY <1>2, <1>6, <1>a, SessionsKeep DEF MigrationPart, SessionPart, StorageInv, vars
    <2> QED BY <2>3, <2>4, <2>5, <2>6 DEF StorageInv
  <1> QED BY <1>4, <1>5, <1>6 DEF Next

LEMMA StorageInvariant == Spec => []StorageInv
  BY StorageStarts, StorageStep, PTL DEF Spec

\* A client that follows next_cursor to the end of any list has seen every row that was
\* in it all the while, and none twice, whatever was inserted, committed late, deleted,
\* filtered, promoted or ranked anew between its pages, for any number of rows and any
\* sizes of pages (encode_cursor and the WHERE of the paged queries).
THEOREM ListsFollowed == Spec => []WalksComplete
  <1>1. StorageInv => WalksComplete
    BY ListingsGive DEF StorageInv
  <1> QED BY <1>1, StorageInvariant, PTL

\* A read of the catalogue answers from a snapshot that was no older than the maximal age
\* when it was asked, unless the fetch failed or another client was at it, however many
\* clients check, lock, fetch and replace the one row (_refresh_if_stale, _safe_refresh).
THEOREM CatalogueServed == Spec => []CatalogueFresh
  <1>1. StorageInv => CatalogueFresh
    BY CatalogueGives DEF StorageInv
  <1> QED BY <1>1, StorageInvariant, PTL

\* What a service's call writes is made once or not at all, and an error says that it was
\* not; and on SQLite nothing is committed between what a session reads and its own commit:
\* for any number of retries, of calls at once, and of failures of BEGIN, of statements and
\* of commits, answered or not (transaction, run_in_transaction).
THEOREM SessionsHold == Spec => []SessionsSound
  <1>1. StorageInv => SessionsSound
    BY SessionsGive DEF StorageInv, SessionsSound
  <1> QED BY <1>1, StorageInvariant, PTL
=============================================================================
