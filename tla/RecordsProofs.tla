---------------------------- MODULE RecordsProofs ----------------------------
(***************************************************************************)
(* Proofs about Records.  Each part has an invariant of its own: what its  *)
(* rows say of each other, and what a handler that has read them and not   *)
(* yet written still knows.  On SQLite nobody writes in between, which is  *)
(* what most of it rests on.                                               *)
(***************************************************************************)
EXTENDS Records, DatabaseProofs, FiniteSetTheorems, SequenceTheorems

-----------------------------------------------------------------------------
(* Revisions of an API.                                                    *)

Present == {d \in Digests : revision[d].state # "absent"}
Active  == {d \in Digests : revision[d].state \in ActiveStates}

RevisionTypes ==
    /\ revision \in [Digests -> [state : States, origin : Origins \cup {"none"}]]
    /\ api \in [current : Digests \cup {NoRevision}, count : Nat]
    /\ index \in [Urls -> Digests \cup {NoRevision}]
    /\ overlay \in {"absent", "pending", "confirmed", "deprecated"}

\* What a handler read holds at its commit where transactions are serial.
RevisionHeld(q) ==
    q.op \in RegistryOps =>
        /\ q.open
        /\ q.op # "confirm" => q.on \in Digests
        /\ Serial =>
            /\ q.op = "promote" => revision[q.on].state = "draft"
            /\ q.op = "archive" => revision[q.on].state \in {"draft", "imported"}
            /\ q.op = "delete" => revision[q.on].state = "archived"
            /\ q.op \in {"promote", "archive"} => q.seen = {api.current}
            /\ q.op = "confirm" => overlay = "pending"

RevisionWork == \A w \in Workers : RevisionHeld(tx[w])

RevisionInv ==
    /\ RevisionTypes
    /\ api.count <= Cardinality(Present)
    /\ Serial => Active = {api.current} \ {NoRevision} /\ api.count = Cardinality(Present)
    /\ RevisionWork

\* The revisions there are, where one of them may come or go.
LEMMA PresentTurns ==
    ASSUME NEW d \in Digests,
           \A e \in Digests \ {d} : revision[e].state = "absent" <=> revision'[e].state = "absent"
    PROVE  /\ Cardinality(Present) \in Nat /\ Cardinality(Present)' \in Nat
           /\ (revision[d].state = "absent" <=> revision'[d].state = "absent") =>
                  Cardinality(Present)' = Cardinality(Present)
           /\ revision[d].state = "absent" /\ revision'[d].state # "absent" =>
                  Cardinality(Present)' = Cardinality(Present) + 1
           /\ revision[d].state # "absent" /\ revision'[d].state = "absent" =>
                  Cardinality(Present)' = Cardinality(Present) - 1
  <1>1. IsFiniteSet(Present) /\ IsFiniteSet(Present')
    <2>1. Present \subseteq Digests /\ Present' \subseteq Digests
      BY DEF Present
    <2> QED BY <2>1, FS_Subset, RevisionsOK
  <1>2. Cardinality(Present) \in Nat /\ Cardinality(Present') \in Nat
    BY <1>1, FS_CardinalityType
  <1>3. ASSUME revision[d].state = "absent" <=> revision'[d].state = "absent"
        PROVE  Present' = Present
    BY <1>3 DEF Present
  <1>4. ASSUME revision[d].state = "absent", revision'[d].state # "absent"
        PROVE  Present' = Present \cup {d} /\ d \notin Present
    BY <1>4 DEF Present
  <1>5. ASSUME revision[d].state # "absent", revision'[d].state = "absent"
        PROVE  Present' = Present \ {d} /\ d \in Present
    BY <1>5 DEF Present
  <1>6. revision[d].state = "absent" /\ revision'[d].state # "absent" =>
            Cardinality(Present') = Cardinality(Present) + 1
    BY <1>1, <1>4, FS_AddElement
  <1>7. revision[d].state # "absent" /\ revision'[d].state = "absent" =>
            Cardinality(Present') = Cardinality(Present) - 1
    BY <1>1, <1>5, FS_RemoveElement
  <1> QED BY <1>2, <1>3, <1>6, <1>7

\* A handler that begins or ends is alone, where transactions are serial: nobody else had
\* read anything.
LEMMA RevisionWorkTurn ==
    ASSUME RevisionInv, db' = db, NEW w \in Workers, NEW r, Turns(w, r), Alone(w), RevisionHeld(r)'
    PROVE  RevisionWork'
  <1>1. ASSUME NEW v \in Workers
        PROVE  RevisionHeld(tx[v])'
    <2>1. CASE v = w
      <3>1. tx'[v] = r
        BY <2>1 DEF Turns
      <3> QED BY <3>1 DEF RevisionHeld
    <2>2. CASE v # w
      <3>1. PICK q : q = tx[v]
        OBVIOUS
      <3>2. tx'[v] = q /\ (Serial => ~q.open) /\ (Serial <=> Serial')
        BY <2>2, <3>1 DEF Turns, Alone, Serial
      <3>3. RevisionHeld(q)
        BY <3>1 DEF RevisionInv, RevisionWork
      <3>4. RevisionHeld(q)'
        BY <3>2, <3>3 DEF RevisionHeld
      <3> QED BY <3>2, <3>4 DEF RevisionHeld
    <2> QED BY <2>1, <2>2
  <1> QED BY <1>1 DEF RevisionWork, RevisionHeld

\* So is one that begins and ends in one step.
LEMMA RevisionWorkStays ==
    ASSUME RevisionInv, UNCHANGED <<db, tx>>, MayBegin
    PROVE  RevisionWork'
  <1>1. ASSUME NEW v \in Workers
        PROVE  RevisionHeld(tx[v])'
    <2>1. PICK q : q = tx[v]
      OBVIOUS
    <2>2. tx'[v] = q /\ (Serial => ~q.open) /\ (Serial <=> Serial')
      BY <2>1 DEF MayBegin, Serial
    <2>3. RevisionHeld(q)
      BY <2>1 DEF RevisionInv, RevisionWork
    <2>4. RevisionHeld(q)'
      BY <2>2, <2>3 DEF RevisionHeld
    <2> QED BY <2>2, <2>4 DEF RevisionHeld
  <1> QED BY <1>1 DEF RevisionWork, RevisionHeld

LEMMA RevisionBegins ==
    ASSUME RevisionInv, DatabaseInv, db' = db, UNCHANGED revisions, NEW w \in Workers,
           NEW op \in RegistryOps, NEW on, NEW seen, Begin(w, op, on, {}, seen),
           op # "confirm" => on \in Digests,
           op = "promote" => revision[on].state = "draft",
           op = "archive" => revision[on].state \in {"draft", "imported"},
           op = "delete" => revision[on].state = "archived",
           op \in {"promote", "archive"} => seen = {api.current},
           op = "confirm" => overlay = "pending"
    PROVE  RevisionInv' /\ DatabaseInv' /\ Within(RegistryOps)
  <1>1. PICK r : r = Request(op, on, {}, seen, 0, TRUE)
    OBVIOUS
  <1>2. tx[w].op = "none" /\ MayBegin /\ Turns(w, r)
    BY <1>1, BeginTurns DEF DatabaseInv
  <1>3. r.op = op /\ r.on = on /\ r.seen = seen /\ r.open
    BY <1>1 DEF Request
  <1>4. RevisionWork'
    <2>1. RevisionHeld(r)'
      BY <1>3 DEF RevisionHeld, revisions
    <2> QED BY <1>2, <2>1, BeginnerAlone, RevisionWorkTurn
  <1>5. RevisionInv'
    BY <1>4 DEF RevisionInv, RevisionTypes, Present, Active, Serial, revisions
  <1>6. DatabaseInv'
    <2>1. op # "none"
      BY DEF RegistryOps
    <2> QED BY <1>1, <1>2, <2>1, TurnKeepsDatabase
  <1>7. Within(RegistryOps)
    BY <1>1, <1>2, RequestWithin
  <1> QED BY <1>5, <1>6, <1>7

LEMMA RevisionCommits ==
    ASSUME RevisionInv, DatabaseInv, db' = db, NEW w \in Workers, tx[w].op \in RegistryOps, End(w)
    PROVE  RevisionWork' /\ DatabaseInv' /\ Within(RegistryOps)
  <1>1. Turns(w, NoRequest)
    BY EndTurns DEF DatabaseInv
  <1>2. Alone(w)
    BY HolderAlone DEF DatabaseInv, RevisionInv, RevisionWork, RevisionHeld
  <1>3. RevisionHeld(NoRequest)'
    BY NoRequestFields DEF RevisionHeld, RegistryOps
  <1> QED BY <1>1, <1>2, <1>3, RevisionWorkTurn, EndKeepsDatabase, EndWithin

\* The rows of the revisions after an import, a promotion, an archiving or a deletion.
LEMMA ArchivedRows ==
    ASSUME RevisionTypes, NEW which
    PROVE  /\ Archived(revision, which) \in [Digests -> [state : States, origin : Origins \cup {"none"}]]
           /\ \A d \in Digests :
                 /\ Archived(revision, which)[d].state = "absent" <=> revision[d].state = "absent"
                 /\ d \in which /\ revision[d].state # "absent" =>
                        Archived(revision, which)[d].state = "archived"
                 /\ d \notin which => Archived(revision, which)[d] = revision[d]
  BY DEF Archived, RevisionTypes, States

\* The index after an import.
LEMMA IndexedTypes ==
    ASSUME RevisionTypes, NEW d \in Digests
    PROVE  Indexed(d) \in [Urls -> Digests \cup {NoRevision}]
  BY DEF RevisionTypes, Indexed

LEMMA ImportKeeps ==
    ASSUME RevisionInv, DatabaseInv, db' = db, NEW w \in Workers, NEW d \in Digests,
           ImportDraft(w, d) \/ \E o \in Origins : ImportFrom(w, d, o)
    PROVE  RevisionInv' /\ DatabaseInv' /\ Within(RegistryOps)
  <1>1. UNCHANGED <<db, tx, overlay>> /\ MayBegin /\ revision[d].state = "absent"
    BY DEF ImportDraft, ImportFrom
  <1>2. RevisionWork' /\ DatabaseInv' /\ Within(RegistryOps)
    BY <1>1, RevisionWorkStays, StutterKeepsDatabase DEF Within
  <1>3. RevisionTypes
    BY DEF RevisionInv
  <1>4. /\ RevisionTypes' /\ api'.count = api.count + 1
        /\ \A e \in Digests \ {d} : revision'[e].state = "absent" <=> revision[e].state = "absent"
        /\ revision'[d].state # "absent"
        /\ Serial => Active' = {api'.current} \ {NoRevision}
    <2>1. index' \in [Urls -> Digests \cup {NoRevision}]
      BY <1>3, IndexedTypes DEF ImportDraft, ImportFrom
    <2>2. CASE ImportDraft(w, d)
      <3>1. /\ revision' = [revision EXCEPT ![d] = [state |-> "draft", origin |-> "none"]]
            /\ api' = [api EXCEPT !.count = @ + 1]
        BY <2>2 DEF ImportDraft
      <3>2. revision' \in [Digests -> [state : States, origin : Origins \cup {"none"}]]
        BY <1>3, <3>1 DEF RevisionTypes, States
      <3>3. api' \in [current : Digests \cup {NoRevision}, count : Nat]
            /\ api'.count = api.count + 1 /\ api'.current = api.current
        BY <1>3, <3>1 DEF RevisionTypes
      <3>4. /\ \A e \in Digests \ {d} : revision'[e] = revision[e]
            /\ revision'[d].state = "draft"
        BY <1>3, <3>1 DEF RevisionTypes
      <3>5. Active' = Active
        BY <1>1, <3>4 DEF Active, ActiveStates
      <3> QED BY <1>1, <1>3, <2>1, <3>2, <3>3, <3>4, <3>5 DEF RevisionTypes, RevisionInv
    <2>3. ASSUME NEW o \in Origins, ImportFrom(w, d, o)
          PROVE  /\ RevisionTypes' /\ api'.count = api.count + 1
                 /\ \A e \in Digests \ {d} : revision'[e].state = "absent" <=> revision[e].state = "absent"
                 /\ revision'[d].state # "absent"
                 /\ Serial => Active' = {api'.current} \ {NoRevision}
      <3>1. PICK kept : kept = Archived(revision, Imports(revision, o))
        OBVIOUS
      <3>2. /\ kept \in [Digests -> [state : States, origin : Origins \cup {"none"}]]
            /\ \A e \in Digests : kept[e].state = "absent" <=> revision[e].state = "absent"
        BY <1>3, <3>1, ArchivedRows
      <3>3. /\ revision' = [kept EXCEPT ![d] = [state |-> "imported", origin |-> o]]
            /\ api' = [current |-> d, count |-> api.count + 1]
            /\ OneActive(revision')
        BY <2>3, <3>1 DEF ImportFrom
      <3>4. revision' \in [Digests -> [state : States, origin : Origins \cup {"none"}]]
        BY <3>2, <3>3 DEF States
      <3>5. api' \in [current : Digests \cup {NoRevision}, count : Nat]
            /\ api'.count = api.count + 1 /\ api'.current = d
        BY <1>3, <3>3 DEF RevisionTypes
      <3>6. /\ \A e \in Digests \ {d} : revision'[e] = kept[e]
            /\ revision'[d].state = "imported"
        BY <3>2, <3>3
      <3>7. Active' = {d}
        BY <3>3, <3>6 DEF Active, ActiveStates, OneActive
      <3>8. d # NoRevision
        BY RevisionsOK
      <3> QED BY <1>1, <1>3, <2>1, <3>2, <3>4, <3>5, <3>6, <3>7, <3>8 DEF RevisionTypes
    <2> QED BY <2>2, <2>3
  <1>5. /\ Cardinality(Present) \in Nat /\ Cardinality(Present)' = Cardinality(Present) + 1
        /\ api.count \in Nat
    BY <1>1, <1>3, <1>4, PresentTurns DEF RevisionTypes
  <1>6. /\ api'.count <= Cardinality(Present)'
        /\ Serial => api'.count = Cardinality(Present)'
    BY <1>4, <1>5 DEF RevisionInv
  <1> QED BY <1>1, <1>2, <1>4, <1>6 DEF RevisionInv, Serial

LEMMA PromoteKeeps ==
    ASSUME RevisionInv, DatabaseInv, db' = db, NEW w \in Workers, CommitPromote(w)
    PROVE  RevisionInv' /\ DatabaseInv' /\ Within(RegistryOps)
  <1>1. RevisionTypes /\ RevisionHeld(tx[w])
    BY DEF RevisionInv, RevisionWork
  <1>2. PICK d : d = tx[w].on
    OBVIOUS
  <1>3. d \in Digests /\ d # NoRevision
    BY <1>1, <1>2, RevisionsOK DEF RevisionHeld, RegistryOps, CommitPromote
  <1>4. PICK retired : retired = {SeenCurrent(w)} \cup {e \in Digests : revision[e].state = "imported"}
    OBVIOUS
  <1>5. PICK kept : kept = Archived(revision, retired)
    OBVIOUS
  <1>6. /\ kept \in [Digests -> [state : States, origin : Origins \cup {"none"}]]
        /\ \A e \in Digests : kept[e].state = "absent" <=> revision[e].state = "absent"
    BY <1>1, <1>5, ArchivedRows
  <1>7. /\ tx[w].op = "promote" /\ revision[d].state # "absent"
        /\ revision' = [kept EXCEPT ![d].state = "published"]
        /\ OneActive(revision') /\ api' = [api EXCEPT !.current = d] /\ End(w)
        /\ UNCHANGED <<index, overlay>>
    BY <1>2, <1>4, <1>5 DEF CommitPromote
  <1>8. RevisionWork' /\ DatabaseInv' /\ Within(RegistryOps)
    BY <1>7, RevisionCommits DEF RegistryOps
  <1>9. revision' \in [Digests -> [state : States, origin : Origins \cup {"none"}]]
    BY <1>3, <1>6, <1>7 DEF States
  <1>10. /\ \A e \in Digests \ {d} : revision'[e] = kept[e]
         /\ revision'[d].state = "published"
    BY <1>3, <1>6, <1>7
  <1>11. /\ api' \in [current : Digests \cup {NoRevision}, count : Nat]
         /\ api'.current = d /\ api'.count = api.count
    BY <1>1, <1>3, <1>7 DEF RevisionTypes
  <1>12. Active' = {d}
    BY <1>3, <1>7, <1>10 DEF Active, ActiveStates, OneActive
  <1>13. Cardinality(Present)' = Cardinality(Present)
    <2>1. \A e \in Digests \ {d} : revision[e].state = "absent" <=> revision'[e].state = "absent"
      BY <1>6, <1>10
    <2> QED BY <1>3, <1>7, <1>10, <2>1, PresentTurns
  <1> QED BY <1>1, <1>3, <1>7, <1>8, <1>9, <1>11, <1>12, <1>13 DEF RevisionInv, RevisionTypes, Serial

LEMMA ArchiveKeeps ==
    ASSUME RevisionInv, DatabaseInv, db' = db, NEW w \in Workers, CommitArchive(w)
    PROVE  RevisionInv' /\ DatabaseInv' /\ Within(RegistryOps)
  <1>1. RevisionTypes /\ RevisionHeld(tx[w])
    BY DEF RevisionInv, RevisionWork
  <1>2. PICK d : d = tx[w].on
    OBVIOUS
  <1>3. d \in Digests /\ d # NoRevision
    BY <1>1, <1>2, RevisionsOK DEF RevisionHeld, RegistryOps, CommitArchive
  <1>4. PICK c : c = IF SeenCurrent(w) = d THEN NoRevision ELSE api.current
    OBVIOUS
  <1>5. /\ tx[w].op = "archive" /\ revision[d].state # "absent"
        /\ revision' = Archived(revision, {d})
        /\ api' = [api EXCEPT !.current = c] /\ End(w)
        /\ UNCHANGED <<index, overlay>>
    BY <1>2, <1>4 DEF CommitArchive
  <1>6. /\ revision' \in [Digests -> [state : States, origin : Origins \cup {"none"}]]
        /\ \A e \in Digests : revision'[e].state = "absent" <=> revision[e].state = "absent"
        /\ revision'[d].state = "archived"
        /\ \A e \in Digests \ {d} : revision'[e] = revision[e]
    <2>1. PICK which : which = {d}
      OBVIOUS
    <2>2. revision' = Archived(revision, which)
      BY <1>5, <2>1
    <2> QED BY <1>1, <1>3, <1>5, <2>1, <2>2, ArchivedRows
  <1>7. RevisionWork' /\ DatabaseInv' /\ Within(RegistryOps)
    BY <1>5, RevisionCommits DEF RegistryOps
  <1>8. /\ api' \in [current : Digests \cup {NoRevision}, count : Nat]
        /\ api'.current = c /\ api'.count = api.count
    BY <1>1, <1>4, <1>5 DEF RevisionTypes
  <1>9. Cardinality(Present)' = Cardinality(Present)
    BY <1>3, <1>6, PresentTurns
  <1>10. Active' = Active \ {d}
    BY <1>3, <1>6 DEF Active, ActiveStates
  <1>11. ASSUME Serial
         PROVE  Active' = {c} \ {NoRevision}
    <2>1. tx[w].seen = {api.current}
      BY <1>1, <1>5, <1>11 DEF RevisionHeld, RegistryOps
    <2>2. SeenCurrent(w) = api.current
      BY <2>1 DEF SeenCurrent
    <2>3. Active = {api.current} \ {NoRevision}
      BY <1>11 DEF RevisionInv
    <2> QED BY <1>3, <1>4, <1>10, <2>2, <2>3
  <1> QED BY <1>1, <1>5, <1>6, <1>7, <1>8, <1>9, <1>11 DEF RevisionInv, RevisionTypes, Serial

LEMMA DeleteKeeps ==
    ASSUME RevisionInv, DatabaseInv, db' = db, NEW w \in Workers, CommitDelete(w)
    PROVE  RevisionInv' /\ DatabaseInv' /\ Within(RegistryOps)
  <1>1. RevisionTypes /\ RevisionHeld(tx[w])
    BY DEF RevisionInv, RevisionWork
  <1>2. PICK d : d = tx[w].on
    OBVIOUS
  <1>3. d \in Digests
    BY <1>1, <1>2 DEF RevisionHeld, RegistryOps, CommitDelete
  <1>4. /\ tx[w].op = "delete" /\ api.current # d /\ api.count > 0
        /\ revision' = [revision EXCEPT ![d] = NoRow]
        /\ index' = [u \in Urls |-> IF index[u] = d THEN NoRevision ELSE index[u]]
        /\ api' = [api EXCEPT !.count = @ - 1] /\ End(w) /\ UNCHANGED overlay
    BY <1>2 DEF CommitDelete
  <1>5. RevisionWork' /\ DatabaseInv' /\ Within(RegistryOps)
    BY <1>4, RevisionCommits DEF RegistryOps
  <1>6. revision' \in [Digests -> [state : States, origin : Origins \cup {"none"}]]
    BY <1>1, <1>3, <1>4 DEF RevisionTypes, States, NoRow
  <1>7. revision'[d].state = "absent" /\ \A e \in Digests \ {d} : revision'[e] = revision[e]
    BY <1>1, <1>3, <1>4 DEF RevisionTypes, NoRow
  <1>8. index' \in [Urls -> Digests \cup {NoRevision}]
    BY <1>1, <1>4 DEF RevisionTypes
  <1>9. /\ api' \in [current : Digests \cup {NoRevision}, count : Nat]
        /\ api'.current = api.current /\ api'.count = api.count - 1 /\ api.count \in Nat
    BY <1>1, <1>4 DEF RevisionTypes
  <1>10. /\ Cardinality(Present) \in Nat /\ Cardinality(Present)' \in Nat
         /\ Cardinality(Present)' >= Cardinality(Present) - 1
         /\ revision[d].state # "absent" => Cardinality(Present)' = Cardinality(Present) - 1
    BY <1>3, <1>7, PresentTurns
  <1>11. ASSUME Serial
         PROVE  Active' = Active /\ revision[d].state # "absent"
    <2>1. revision[d].state = "archived"
      BY <1>1, <1>2, <1>4, <1>11 DEF RevisionHeld, RegistryOps
    <2> QED BY <1>7, <2>1 DEF Active, ActiveStates
  <1>12. api'.count <= Cardinality(Present)' /\ (Serial => api'.count = Cardinality(Present)')
    BY <1>9, <1>10, <1>11 DEF RevisionInv
  <1> QED BY <1>1, <1>4, <1>5, <1>6, <1>8, <1>9, <1>11, <1>12 DEF RevisionInv, RevisionTypes, Serial

LEMMA DeleteApiKeeps ==
    ASSUME RevisionInv, DatabaseInv, db' = db, NEW w \in Workers, DeleteApi(w)
    PROVE  RevisionInv' /\ DatabaseInv' /\ Within(RegistryOps)
  <1>1. UNCHANGED <<db, tx>> /\ MayBegin
    BY DEF DeleteApi
  <1>2. RevisionWork' /\ DatabaseInv' /\ Within(RegistryOps)
    BY <1>1, RevisionWorkStays, StutterKeepsDatabase DEF Within
  <1>3. RevisionTypes'
    BY DEF DeleteApi, RevisionTypes, States, NoRow
  <1>4. /\ \A d \in Digests : revision'[d].state = "absent"
        /\ api'.current = NoRevision /\ api'.count = 0
    BY DEF DeleteApi, NoRow
  <1>5. Active' = {} /\ Present' = {}
    BY <1>4 DEF Active, Present, ActiveStates
  <1>6. Cardinality(Present)' = 0
    BY <1>5, FS_EmptySet
  <1> QED BY <1>2, <1>3, <1>4, <1>5, <1>6 DEF RevisionInv

LEMMA OverlayKeeps ==
    ASSUME RevisionInv, DatabaseInv, db' = db, NEW w \in Workers,
           SubmitOverlay(w) \/ CommitConfirm(w) \/ Deprecate(w) \/ AbandonChange(w)
    PROVE  RevisionInv' /\ DatabaseInv' /\ Within(RegistryOps)
  <1>1. UNCHANGED <<db, revision, api, index>>
    BY DEF SubmitOverlay, CommitConfirm, Deprecate, AbandonChange, revisions
  <1>2. RevisionWork' /\ DatabaseInv' /\ Within(RegistryOps)
    <2>1. CASE SubmitOverlay(w) \/ Deprecate(w)
      <3>1. UNCHANGED <<db, tx>> /\ MayBegin
        BY <2>1 DEF SubmitOverlay, Deprecate
      <3> QED BY <3>1, RevisionWorkStays, StutterKeepsDatabase DEF Within
    <2>2. CASE CommitConfirm(w) \/ AbandonChange(w)
      <3>1. tx[w].op \in RegistryOps /\ End(w)
        BY <2>2 DEF CommitConfirm, AbandonChange, RegistryOps
      <3> QED BY <3>1, RevisionCommits
    <2> QED BY <2>1, <2>2
  <1>3. overlay' \in {"absent", "pending", "confirmed", "deprecated"}
    BY DEF SubmitOverlay, CommitConfirm, Deprecate, AbandonChange, revisions, RevisionInv, RevisionTypes
  <1> QED BY <1>1, <1>2, <1>3 DEF RevisionInv, RevisionTypes, Present, Active, Serial

LEMMA RegistryPartKeeps ==
    ASSUME RevisionInv, DatabaseInv, db' = db, RegistryPart
    PROVE  RevisionInv' /\ DatabaseInv' /\ Within(RegistryOps)
  <1>1. PICK w \in Workers : RegistryStep(w)
    BY DEF RegistryPart
  <1>2. ASSUME NEW d \in Digests, BeginPromote(w, d)
        PROVE  RevisionInv' /\ DatabaseInv' /\ Within(RegistryOps)
    BY <1>2, RevisionBegins DEF BeginPromote, RegistryOps
  <1>3. ASSUME NEW d \in Digests, BeginArchive(w, d)
        PROVE  RevisionInv' /\ DatabaseInv' /\ Within(RegistryOps)
    BY <1>3, RevisionBegins DEF BeginArchive, RegistryOps
  <1>4. ASSUME NEW d \in Digests, BeginDelete(w, d)
        PROVE  RevisionInv' /\ DatabaseInv' /\ Within(RegistryOps)
    BY <1>4, RevisionBegins DEF BeginDelete, RegistryOps
  <1>5. CASE BeginConfirm(w)
    BY <1>5, RevisionBegins DEF BeginConfirm, RegistryOps
  <1> QED BY <1>1, <1>2, <1>3, <1>4, <1>5, ImportKeeps, PromoteKeeps, ArchiveKeeps, DeleteKeeps,
             DeleteApiKeeps, OverlayKeeps DEF RegistryStep

\* Steps of other parts leave the revisions, and those who work on them, alone.
LEMMA RegistryElsewhere ==
    ASSUME RevisionInv, db' = db, UNCHANGED revisions,
           \A v \in Workers : tx[v].op \in RegistryOps \/ tx'[v].op \in RegistryOps => tx'[v] = tx[v]
    PROVE  RevisionInv'
  <1>1. ASSUME NEW v \in Workers
        PROVE  RevisionHeld(tx[v])'
    <2>1. CASE tx'[v].op \in RegistryOps
      <3>1. RevisionHeld(tx[v]) /\ tx'[v] = tx[v]
        BY <2>1 DEF RevisionInv, RevisionWork
      <3> QED BY <3>1 DEF RevisionHeld, Serial, revisions
    <2>2. CASE tx'[v].op \notin RegistryOps
      BY <2>2 DEF RevisionHeld
    <2> QED BY <2>1, <2>2
  <1>2. RevisionWork'
    BY <1>1 DEF RevisionWork
  <1> QED BY <1>2 DEF RevisionInv, RevisionTypes, Present, Active, Serial, revisions

LEMMA RegistryStarts ==
    ASSUME DatabaseInit, RevisionsInit
    PROVE  RevisionInv
  <1>1. RevisionTypes
    BY DEF RevisionsInit, RevisionTypes, NoRow, States
  <1>2. \A d \in Digests : revision[d].state = "absent"
    BY DEF RevisionsInit, NoRow
  <1>3. Active = {} /\ Present = {}
    BY <1>2 DEF Active, Present, ActiveStates
  <1>4. api.current = NoRevision /\ api.count = 0 /\ Cardinality(Present) = 0
    BY <1>3, FS_EmptySet DEF RevisionsInit
  <1>5. RevisionWork
    BY NoRequestFields DEF DatabaseInit, RevisionWork, RevisionHeld, RegistryOps
  <1> QED BY <1>1, <1>3, <1>4, <1>5 DEF RevisionInv

LEMMA RegistryGives ==
    ASSUME RevisionInv
    PROVE  RevisionsTypeOK /\ CurrentIsLive
  <1>1. Present \subseteq Digests
    BY DEF Present
  <1>2. /\ Cardinality(Present) \in Nat /\ Cardinality(Digests) \in Nat
        /\ Cardinality(Present) <= Cardinality(Digests)
    BY <1>1, FS_Subset, FS_CardinalityType, RevisionsOK
  <1>3. api.count \in 0..Cardinality(Digests) /\ api.current \in Digests \cup {NoRevision}
    BY <1>2 DEF RevisionInv, RevisionTypes
  <1>4. RevisionsTypeOK
    BY <1>3 DEF RevisionsTypeOK, RevisionInv, RevisionTypes
  <1>5. CurrentIsLive
    BY DEF CurrentIsLive, RevisionInv, Active, Present
  <1> QED BY <1>4, <1>5

\* A step of the registry leaves an archived revision archived or deletes it, and a
\* deprecated overlay goes with its API alone.
LEMMA EndStatesStep ==
    ASSUME RevisionInv, RegistryPart, Serial
    PROVE  /\ \A d \in Digests : revision[d].state = "archived" =>
                                     revision'[d].state \in {"archived", "absent"}
           /\ overlay = "deprecated" => overlay' \in {"deprecated", "absent"}
  <1>1. PICK w \in Workers : RegistryStep(w)
    BY DEF RegistryPart
  <1>2. RevisionTypes /\ RevisionHeld(tx[w])
    BY DEF RevisionInv, RevisionWork
  <1> DEFINE Goal == /\ \A d \in Digests : revision[d].state = "archived" =>
                                               revision'[d].state \in {"archived", "absent"}
                     /\ overlay = "deprecated" => overlay' \in {"deprecated", "absent"}
  <1>3. ASSUME NEW d \in Digests, ImportDraft(w, d)
        PROVE  Goal
    BY <1>2, <1>3 DEF ImportDraft, RevisionTypes
  <1>4. ASSUME NEW d \in Digests, NEW o \in Origins, ImportFrom(w, d, o)
        PROVE  Goal
    <2>1. PICK which : which = Imports(revision, o)
      OBVIOUS
    <2>2. PICK kept : kept = Archived(revision, which)
      OBVIOUS
    <2>3. /\ kept \in [Digests -> [state : States, origin : Origins \cup {"none"}]]
          /\ \A e \in Digests : revision[e].state = "archived" => kept[e].state = "archived"
      BY <1>2, <2>2, ArchivedRows
    <2>4. /\ revision' = [kept EXCEPT ![d] = [state |-> "imported", origin |-> o]]
          /\ revision[d].state = "absent" /\ overlay' = overlay
      BY <1>4, <2>1, <2>2 DEF ImportFrom
    <2> QED BY <2>3, <2>4
  <1>5. CASE CommitPromote(w)
    <2>1. PICK d, which : /\ d = tx[w].on
                          /\ which = {SeenCurrent(w)} \cup {e \in Digests : revision[e].state = "imported"}
      OBVIOUS
    <2>2. PICK kept : kept = Archived(revision, which)
      OBVIOUS
    <2>3. /\ kept \in [Digests -> [state : States, origin : Origins \cup {"none"}]]
          /\ \A e \in Digests : revision[e].state = "archived" => kept[e].state = "archived"
      BY <1>2, <2>2, ArchivedRows
    <2>4. /\ revision' = [kept EXCEPT ![d].state = "published"] /\ overlay' = overlay
          /\ d \in Digests /\ revision[d].state = "draft"
      BY <1>2, <1>5, <2>1, <2>2 DEF CommitPromote, RevisionHeld, RegistryOps
    <2> QED BY <2>3, <2>4
  <1>6. CASE CommitArchive(w)
    <2>1. PICK which : which = {tx[w].on}
      OBVIOUS
    <2>2. revision' = Archived(revision, which) /\ overlay' = overlay
      BY <1>6, <2>1 DEF CommitArchive
    <2> QED BY <1>2, <2>2, ArchivedRows
  <1>7. CASE CommitDelete(w)
    BY <1>2, <1>7 DEF CommitDelete, RevisionTypes, NoRow
  <1>8. CASE DeleteApi(w)
    BY <1>8 DEF DeleteApi, NoRow
  <1>9. CASE CommitConfirm(w)
    BY <1>2, <1>9 DEF CommitConfirm, RevisionHeld, RegistryOps
  <1>10. CASE SubmitOverlay(w) \/ Deprecate(w) \/ AbandonChange(w)
    BY <1>10 DEF SubmitOverlay, Deprecate, AbandonChange, revisions
  <1>11. CASE BeginConfirm(w) \/ \E d \in Digests : BeginPromote(w, d) \/ BeginArchive(w, d) \/ BeginDelete(w, d)
    BY <1>11 DEF BeginConfirm, BeginPromote, BeginArchive, BeginDelete, revisions
  <1> QED BY <1>1, <1>3, <1>4, <1>5, <1>6, <1>7, <1>8, <1>9, <1>10, <1>11 DEF RegistryStep

-----------------------------------------------------------------------------
(* Notes.                                                                  *)

\* What the author of a note had read of it: a revision is given to one text alone.
NoteHeld(q) ==
    q.op \in NoteOps =>
        /\ q.on \in NoteIds /\ note[q.on].state # "none"
        /\ q.by \subseteq 1..MaxEdits /\ q.n \in Nat
        /\ q.op \in {"update", "remove"} => q.open /\ \E r \in 0..edits[q.on] : q.seen = {r}
        /\ Serial =>
              /\ q.n # 0 => q.n <= note[q.on].revision
              /\ q.n # 0 /\ q.n = note[q.on].revision => note[q.on].text = q.by
              /\ q.op \in {"update", "remove"} =>
                    q.n \in {0, note[q.on].revision} /\ q.seen = {note[q.on].revision}

NoteWork == \A w \in Workers : NoteHeld(tx[w])

NoteInv ==
    /\ NotesTypeOK /\ NoEditLost
    /\ \A i \in NoteIds : note[i].revision <= edits[i]
    /\ NoteWork

\* A note that has been created stays, its edits grow in number, and its revision does so
\* unless its text is the same.
Grows(i) ==
    /\ note[i].state # "none" => note'[i].state # "none"
    /\ edits[i] <= edits'[i] /\ edits'[i] \in Nat /\ note'[i].revision \in Nat
    /\ Serial /\ note[i].state # "none" =>
          \/ note'[i].revision = note[i].revision /\ note'[i].text = note[i].text
          \/ note'[i].revision > note[i].revision

LEMMA NoteWorkTurn ==
    ASSUME NoteInv, db' = db, NEW w \in Workers, NEW r, Turns(w, r), NoteHeld(r)',
           \A i \in NoteIds : Grows(i),
           \/ Alone(w)
           \/ \A i \in NoteIds : note[i].state # "none" => note'[i].revision = note[i].revision
    PROVE  NoteWork'
  <1>1. ASSUME NEW v \in Workers
        PROVE  NoteHeld(tx[v])'
    <2>1. CASE v = w
      <3>1. tx'[v] = r
        BY <2>1 DEF Turns
      <3> QED BY <3>1 DEF NoteHeld
    <2>2. CASE v # w /\ tx[v].op \in NoteOps
      <3>1. PICK q : q = tx[v]
        OBVIOUS
      <3>2. tx'[v] = q /\ (Serial <=> Serial')
        BY <2>2, <3>1 DEF Turns, Serial
      <3>3. NoteHeld(q) /\ q.op \in NoteOps
        BY <2>2, <3>1 DEF NoteInv, NoteWork
      <3>4. PICK i \in NoteIds : i = q.on
        BY <3>3 DEF NoteHeld
      <3>5. /\ note[i].state # "none" /\ Grows(i)
            /\ edits[i] \in Nat /\ note[i].revision \in Nat
        BY <3>3, <3>4, NotesOK DEF NoteHeld, NoteInv, NotesTypeOK
      <3>6. /\ note'[i].state # "none"
            /\ \A x \in 0..edits[i] : x \in 0..edits'[i]
        BY <3>5 DEF Grows
      <3>7. ASSUME Serial, q.n # 0
            PROVE  /\ q.n <= note'[i].revision
                   /\ q.n = note'[i].revision => note'[i].text = q.by
        <4>1. /\ q.n \in Nat /\ q.n <= note[i].revision
              /\ q.n = note[i].revision => note[i].text = q.by
          BY <3>3, <3>4, <3>7 DEF NoteHeld
        <4>2. CASE note'[i].revision = note[i].revision /\ note'[i].text = note[i].text
          BY <4>1, <4>2
        <4>3. CASE note'[i].revision > note[i].revision
          <5>1. note'[i].revision \in Nat
            BY <3>5 DEF Grows
          <5> QED BY <3>5, <4>1, <4>3, <5>1
        <4> QED BY <3>5, <3>7, <4>2, <4>3 DEF Grows
      <3>8. ASSUME Serial, q.op \in {"update", "remove"}
            PROVE  q.n \in {0, note'[i].revision} /\ q.seen = {note'[i].revision}
        <4>1. q.n \in {0, note[i].revision} /\ q.seen = {note[i].revision} /\ q.open
          BY <3>3, <3>4, <3>8 DEF NoteHeld
        <4>2. note'[i].revision = note[i].revision
          BY <2>2, <3>1, <3>5, <3>8, <4>1 DEF Alone
        <4> QED BY <4>1, <4>2
      <3>9. NoteHeld(q)'
        BY <3>2, <3>3, <3>4, <3>6, <3>7, <3>8 DEF NoteHeld
      <3> QED BY <3>2, <3>9 DEF NoteHeld
    <2>3. CASE v # w /\ tx[v].op \notin NoteOps
      BY <2>3 DEF Turns, NoteHeld
    <2> QED BY <2>1, <2>2, <2>3
  <1> QED BY <1>1 DEF NoteWork

\* The author reads a note, or goes on from what it read, or gives up.
LEMMA NoteTurnKeeps ==
    ASSUME NoteInv, db' = db, UNCHANGED notes, NEW w \in Workers, NEW r, Turns(w, r), NoteHeld(r)
    PROVE  NoteInv'
  <1>1. \A i \in NoteIds : Grows(i) /\ note'[i].revision = note[i].revision
    BY NotesOK DEF NoteInv, NotesTypeOK, Grows, notes
  <1>2. NoteHeld(r)'
    BY DEF NoteHeld, notes, Serial
  <1>3. NoteWork'
    BY <1>1, <1>2, NoteWorkTurn
  <1> QED BY <1>3 DEF NoteInv, NotesTypeOK, NoEditLost, Serial, notes

LEMMA ReadNoteKeeps ==
    ASSUME NoteInv, DatabaseInv, db' = db, NEW w \in Workers, NEW i \in NoteIds,
           NEW op \in {"change", "drop"}, NEW n \in 0..MaxEdits, ReadNote(w, i, op, n)
    PROVE  NoteInv' /\ DatabaseInv' /\ Within(NoteOps)
  <1>1. PICK t : t = note[i].text
    OBVIOUS
  <1>2. PICK r : r = Request(op, i, t, {}, n, FALSE)
    OBVIOUS
  <1>3. tx[w].op = "none" /\ Turns(w, r) /\ UNCHANGED notes
    BY <1>1, <1>2, LookTurns DEF ReadNote, DatabaseInv
  <1>4. r.op = op /\ r.on = i /\ r.by = t /\ r.n = n
    BY <1>2 DEF Request
  <1>5. NoteHeld(r)
    <2>1. note[i].state # "none" /\ n \in {0, note[i].revision} /\ n \in Nat
      BY NotesOK DEF ReadNote, Stored
    <2>2. t \subseteq 1..MaxEdits
      BY <1>1 DEF NoteInv, NotesTypeOK
    <2> QED BY <1>1, <1>4, <2>1, <2>2 DEF NoteHeld
  <1>6. NoteInv'
    BY <1>3, <1>5, NoteTurnKeeps
  <1>7. DatabaseInv'
    BY <1>2, <1>3, TurnKeepsDatabase
  <1>8. Within(NoteOps)
    BY <1>2, <1>3, RequestWithin DEF NoteOps
  <1> QED BY <1>6, <1>7, <1>8

LEMMA BeginNoteKeeps ==
    ASSUME NoteInv, DatabaseInv, db' = db, NEW w \in Workers,
           BeginNote(w, "change", "update") \/ BeginNote(w, "drop", "remove")
    PROVE  NoteInv' /\ DatabaseInv' /\ Within(NoteOps)
  <1>1. PICK from \in {"change", "drop"}, next \in {"update", "remove"} : BeginNote(w, from, next)
    OBVIOUS
  <1>2. PICK i, n, v : i = tx[w].on /\ n = tx[w].n /\ v = note[i].revision
    OBVIOUS
  <1>3. PICK r : r = Request(next, i, tx[w].by, {v}, n, TRUE)
    OBVIOUS
  <1>4. /\ tx[w].op = from /\ MayBegin /\ Turns(w, r) /\ UNCHANGED notes
        /\ n \in {0, v} /\ Stored(i)
    BY <1>1, <1>2, <1>3, OpenTurns DEF BeginNote, DatabaseInv
  <1>5. r.op = next /\ r.on = i /\ r.by = tx[w].by /\ r.seen = {v} /\ r.n = n /\ r.open
    BY <1>3 DEF Request
  <1>6. NoteHeld(r)
    <2>1. NoteHeld(tx[w]) /\ tx[w].op \in NoteOps
      BY <1>1, <1>4 DEF NoteInv, NoteWork, NoteOps
    <2>2. i \in NoteIds
      BY <1>2, <2>1 DEF NoteHeld
    <2>3. v \in 0..edits[i] /\ v <= note[i].revision
      BY <1>2, <2>2, NotesOK DEF NoteInv, NotesTypeOK
    <2> QED BY <1>2, <1>4, <1>5, <2>1, <2>3 DEF NoteHeld
  <1>7. NoteInv'
    BY <1>4, <1>6, NoteTurnKeeps
  <1>8. DatabaseInv'
    BY <1>1, <1>3, <1>4, TurnKeepsDatabase
  <1>9. Within(NoteOps)
    BY <1>1, <1>3, <1>4, RequestWithin DEF NoteOps
  <1> QED BY <1>7, <1>8, <1>9

\* What a conditional request removes, its author had read.
LEMMA NothingUnread ==
    ASSUME NoteInv, NEW w \in Workers, tx[w].op \in {"update", "remove"}
    PROVE  /\ Unread(w) \subseteq NoteIds \X (1..MaxEdits)
           /\ Serial => Unread(w) = {}
  <1>1. NoteHeld(tx[w]) /\ tx[w].op \in NoteOps
    BY DEF NoteInv, NoteWork, NoteOps
  <1>2. PICK i \in NoteIds : i = tx[w].on
    BY <1>1 DEF NoteHeld
  <1>3. note[i].text \subseteq 1..MaxEdits
    BY DEF NoteInv, NotesTypeOK
  <1>4. Unread(w) \subseteq NoteIds \X (1..MaxEdits)
    BY <1>2, <1>3 DEF Unread
  <1>5. ASSUME Serial
        PROVE  Unread(w) = {}
    <2>1. tx[w].n # 0 => note[i].text = tx[w].by
      BY <1>1, <1>2, <1>5 DEF NoteHeld
    <2> QED BY <1>2, <2>1 DEF Unread
  <1> QED BY <1>4, <1>5

LEMMA CreateNoteKeeps ==
    ASSUME NoteInv, DatabaseInv, db' = db, NEW w \in Workers, NEW i \in NoteIds, CreateNote(w, i)
    PROVE  NoteInv' /\ DatabaseInv' /\ Within(NoteOps)
  <1>1. /\ tx[w].op = "none" /\ Turns(w, NoRequest) /\ note[i].state = "none" /\ Alone(w)
        /\ note' = [note EXCEPT ![i] = [state |-> "stored", text |-> {1}, revision |-> 1]]
        /\ edits' = [edits EXCEPT ![i] = 1] /\ UNCHANGED lost
    BY ShortTurns, BeginnerAlone DEF CreateNote, DatabaseInv
  <1>2. NotesTypeOK'
    BY <1>1, NotesOK DEF NoteInv, NotesTypeOK
  <1>3. /\ \A k \in NoteIds \ {i} : note'[k] = note[k] /\ edits'[k] = edits[k]
        /\ note'[i].state = "stored" /\ note'[i].revision = 1 /\ edits'[i] = 1
    BY <1>1 DEF NoteInv, NotesTypeOK
  <1>4. \A k \in NoteIds : note'[k].revision <= edits'[k]
    BY <1>3 DEF NoteInv
  <1>5. NoteWork'
    <2>1. ASSUME NEW v \in Workers, tx'[v].op \in NoteOps
          PROVE  NoteHeld(tx[v])'
      <3>1. PICK q : q = tx[v]
        OBVIOUS
      <3>2. tx'[v] = q /\ (Serial <=> Serial')
        BY <1>1, <2>1, <3>1, NoRequestFields DEF Turns, NoteOps, Serial
      <3>3. NoteHeld(q) /\ q.op \in NoteOps
        BY <2>1, <3>1, <3>2 DEF NoteInv, NoteWork
      <3>4. q.on \in NoteIds \ {i}
        BY <1>1, <3>3 DEF NoteHeld
      <3>5. note'[q.on] = note[q.on] /\ edits'[q.on] = edits[q.on]
        BY <1>3, <3>4
      <3>6. NoteHeld(q)'
        BY <3>2, <3>3, <3>5 DEF NoteHeld
      <3> QED BY <3>2, <3>6 DEF NoteHeld
    <2> QED BY <2>1 DEF NoteWork, NoteHeld
  <1>6. DatabaseInv' /\ Within(NoteOps)
    BY <1>1, EndKeepsDatabase, EndWithin
  <1> QED BY <1>1, <1>2, <1>4, <1>5, <1>6 DEF NoteInv, NoEditLost, Serial

LEMMA UpdateNoteKeeps ==
    ASSUME NoteInv, DatabaseInv, db' = db, NEW w \in Workers, UpdateNote(w)
    PROVE  NoteInv' /\ DatabaseInv' /\ Within(NoteOps)
  <1>1. NoteHeld(tx[w]) /\ tx[w].op = "update"
    BY DEF NoteInv, NoteWork, UpdateNote
  <1>2. PICK i \in NoteIds, e \in Int : i = tx[w].on /\ e = edits[i] + 1
    <2>1. \A k \in NoteIds : edits[k] + 1 \in Int
      BY NotesOK DEF NoteInv, NotesTypeOK
    <2> QED BY <1>1, <2>1 DEF NoteHeld, NoteOps
  <1>3. PICK r \in 0..edits[i] : tx[w].seen = {r}
    BY <1>1, <1>2 DEF NoteHeld, NoteOps
  <1>4. PICK t : t = tx[w].by \cup {e}
    OBVIOUS
  <1>5. /\ Stored(i) /\ e <= MaxEdits /\ End(w)
        /\ note' = [note EXCEPT ![i].text = t, ![i].revision = r + 1]
        /\ edits' = [edits EXCEPT ![i] = e]
        /\ lost' = lost \cup Unread(w)
    <2>1. Revised(CHOOSE s \in tx[w].seen : TRUE) = r + 1
      BY <1>3 DEF Revised
    <2> QED BY <1>2, <1>4, <2>1 DEF UpdateNote
  <1>6. edits[i] \in Nat /\ e \in 1..MaxEdits /\ r \in Nat /\ r + 1 \in 0..MaxEdits /\ r + 1 <= e
    BY <1>2, <1>3, <1>5, NotesOK DEF NoteInv, NotesTypeOK
  <1>7. t \in SUBSET (1..MaxEdits)
    BY <1>1, <1>4, <1>6 DEF NoteHeld, NoteOps
  <1>8. Turns(w, NoRequest) /\ Alone(w)
    BY <1>1, <1>5, EndTurns, HolderAlone DEF DatabaseInv, NoteHeld, NoteOps
  <1>9. lost' \subseteq NoteIds \X (1..MaxEdits) /\ (Serial => lost' = {})
    BY <1>1, <1>5, NothingUnread DEF NoteInv, NotesTypeOK, NoEditLost
  <1>10. /\ \A k \in NoteIds \ {i} : note'[k] = note[k] /\ edits'[k] = edits[k]
         /\ note'[i] = [state |-> "stored", text |-> t, revision |-> r + 1] /\ edits'[i] = e
    <2>1. PICK n, m : n = note[i] /\ m = [n EXCEPT !.text = t, !.revision = r + 1]
      OBVIOUS
    <2>2. n \in [state : {"none", "stored", "deleted"}, text : SUBSET (1..MaxEdits), revision : 0..MaxEdits]
          /\ n.state = "stored"
      BY <1>5, <2>1 DEF NoteInv, NotesTypeOK, Stored
    <2>3. m = [state |-> "stored", text |-> t, revision |-> r + 1]
      BY <2>1, <2>2
    <2>4. note' = [note EXCEPT ![i] = m]
      BY <1>5, <2>1
    <2> QED BY <1>5, <2>3, <2>4 DEF NoteInv, NotesTypeOK
  <1>11. NotesTypeOK'
    <2>1. note' \in [NoteIds -> [state : {"none", "stored", "deleted"}, text : SUBSET (1..MaxEdits),
                                 revision : 0..MaxEdits]]
      <3>1. note' = [k \in NoteIds |-> note'[k]]
        BY <1>5 DEF NoteInv, NotesTypeOK
      <3> QED BY <1>6, <1>7, <1>10, <3>1 DEF NoteInv, NotesTypeOK
    <2>2. edits' \in [NoteIds -> 0..MaxEdits]
      BY <1>5, <1>6 DEF NoteInv, NotesTypeOK
    <2> QED BY <1>9, <2>1, <2>2 DEF NotesTypeOK
  <1>12. \A k \in NoteIds : note'[k].revision <= edits'[k]
    BY <1>6, <1>10 DEF NoteInv
  <1>13. NoteWork'
    <2>1. ASSUME NEW k \in NoteIds
          PROVE  Grows(k)
      <3>1. edits[k] \in Nat /\ note[k].revision \in Nat
        BY NotesOK DEF NoteInv, NotesTypeOK
      <3>2. CASE k = i
        <4>1. Serial => note[i].revision = r
          BY <1>1, <1>2, <1>3 DEF NoteHeld, NoteOps
        <4> QED BY <1>2, <1>6, <1>10, <3>1, <3>2, <4>1 DEF Grows
      <3>3. CASE k # i
        BY <1>10, <3>1, <3>3 DEF Grows
      <3> QED BY <3>2, <3>3
    <2>2. NoteHeld(NoRequest)'
      BY NoRequestFields DEF NoteHeld, NoteOps
    <2> QED BY <1>8, <2>1, <2>2, NoteWorkTurn
  <1>14. DatabaseInv' /\ Within(NoteOps)
    BY <1>1, <1>8, EndKeepsDatabase, EndWithin DEF NoteOps
  <1> QED BY <1>9, <1>11, <1>12, <1>13, <1>14 DEF NoteInv, NoEditLost, Serial

LEMMA DeleteNoteKeeps ==
    ASSUME NoteInv, DatabaseInv, db' = db, NEW w \in Workers, DeleteNote(w)
    PROVE  NoteInv' /\ DatabaseInv' /\ Within(NoteOps)
  <1>1. NoteHeld(tx[w]) /\ tx[w].op = "remove"
    BY DEF NoteInv, NoteWork, DeleteNote
  <1>2. PICK i \in NoteIds : i = tx[w].on
    BY <1>1 DEF NoteHeld, NoteOps
  <1>3. /\ Turns(w, NoRequest) /\ note' = [note EXCEPT ![i].state = "deleted"]
        /\ lost' = lost \cup Unread(w) /\ UNCHANGED edits
    BY <1>2, EndTurns DEF DeleteNote, DatabaseInv
  <1>4. lost' \subseteq NoteIds \X (1..MaxEdits) /\ (Serial => lost' = {})
    BY <1>1, <1>3, NothingUnread DEF NoteInv, NotesTypeOK, NoEditLost
  <1>5. NotesTypeOK'
    BY <1>3, <1>4 DEF NoteInv, NotesTypeOK
  <1>6. \A k \in NoteIds : /\ note'[k].revision = note[k].revision /\ note'[k].text = note[k].text
                           /\ note[k].state # "none" => note'[k].state # "none"
    BY <1>3 DEF NoteInv, NotesTypeOK
  <1>7. NoteWork'
    <2>1. \A k \in NoteIds : Grows(k)
      BY <1>3, <1>6, NotesOK DEF Grows, NoteInv, NotesTypeOK
    <2>2. NoteHeld(NoRequest)'
      BY NoRequestFields DEF NoteHeld, NoteOps
    <2> QED BY <1>3, <1>6, <2>1, <2>2, NoteWorkTurn
  <1>8. DatabaseInv' /\ Within(NoteOps)
    BY <1>1, <1>3, EndKeepsDatabase, EndWithin DEF NoteOps
  <1> QED BY <1>3, <1>4, <1>5, <1>6, <1>7, <1>8 DEF NoteInv, NoEditLost, Serial

LEMMA NotePartKeeps ==
    ASSUME NoteInv, DatabaseInv, db' = db, NotePart
    PROVE  NoteInv' /\ DatabaseInv' /\ Within(NoteOps)
  <1>1. PICK w \in Workers : NoteStep(w)
    BY DEF NotePart
  <1>2. CASE AbandonNote(w)
    <2>1. tx[w].op \in NoteOps /\ Turns(w, NoRequest) /\ UNCHANGED notes
      BY <1>2, EndTurns DEF AbandonNote, DatabaseInv
    <2>2. NoteHeld(NoRequest)
      BY NoRequestFields DEF NoteHeld, NoteOps
    <2> QED BY <2>1, <2>2, NoteTurnKeeps, EndKeepsDatabase, EndWithin
  <1> QED BY <1>1, <1>2, CreateNoteKeeps, ReadNoteKeeps, BeginNoteKeeps, UpdateNoteKeeps,
             DeleteNoteKeeps DEF NoteStep

LEMMA NoteElsewhere ==
    ASSUME NoteInv, db' = db, UNCHANGED notes,
           \A v \in Workers : tx[v].op \in NoteOps \/ tx'[v].op \in NoteOps => tx'[v] = tx[v]
    PROVE  NoteInv'
  <1>1. ASSUME NEW v \in Workers
        PROVE  NoteHeld(tx[v])'
    <2>1. CASE tx'[v].op \in NoteOps
      <3>1. NoteHeld(tx[v]) /\ tx'[v] = tx[v]
        BY <2>1 DEF NoteInv, NoteWork
      <3> QED BY <3>1 DEF NoteHeld, Serial, notes
    <2>2. CASE tx'[v].op \notin NoteOps
      BY <2>2 DEF NoteHeld
    <2> QED BY <2>1, <2>2
  <1>2. NoteWork'
    BY <1>1 DEF NoteWork
  <1> QED BY <1>2 DEF NoteInv, NotesTypeOK, NoEditLost, Serial, notes

LEMMA NoteStarts ==
    ASSUME DatabaseInit, NotesInit
    PROVE  NoteInv
  <1>1. NotesTypeOK /\ NoEditLost /\ \A i \in NoteIds : note[i].revision <= edits[i]
    BY NotesOK DEF NotesInit, NotesTypeOK, NoEditLost
  <1>2. NoteWork
    BY NoRequestFields DEF DatabaseInit, NoteWork, NoteHeld, NoteOps
  <1> QED BY <1>1, <1>2 DEF NoteInv

-----------------------------------------------------------------------------
(* Events and those who follow them.                                       *)

Follower == [on : BOOLEAN, since : 0..MaxEvents, cursor : 0..MaxEvents,
             page : Seq(stored), received : Seq(stored)]

EventTypes ==
    /\ stamp \in 0..MaxEvents /\ stored \subseteq 1..stamp
    /\ follower \in [Followers -> Follower]
    /\ \A f \in Followers : follower[f].since <= stamp /\ follower[f].cursor <= stamp

\* An event that is not committed yet has the last time, where transactions are serial.
EmitHeld(q) ==
    q.op = "emit" => q.open /\ q.n \in 1..stamp /\ (Serial => \A x \in stored : x < q.n)

EmitWork == \A w \in Workers : EmitHeld(tx[w])

\* Where a follower's next page starts: after what it received, or where it began.
From(g) == IF g.received = <<>> THEN g.since ELSE Last(g.received)

\* What a follower received and the page it is being sent are, one after the other, what was
\* stored since it began, up to its cursor.
FollowerTrue(g) ==
    /\ ~g.on => g.page = <<>>
    /\ Ascending(g.received) /\ Ascending(g.page)
    /\ g.received # <<>> => Range(g.received) = {x \in stored : g.since < x /\ x <= Last(g.received)}
    /\ g.page # <<>> => /\ g.cursor = Last(g.page)
                        /\ Range(g.page) = {x \in stored : From(g) < x /\ x <= g.cursor}
    /\ g.on /\ g.page = <<>> => g.cursor = From(g)

EventInv ==
    /\ EventTypes /\ EmitWork
    /\ Serial => \A f \in Followers : FollowerTrue(follower[f])

\* What is used of sequences and of the last of their elements.
LEMMA SequenceFacts ==
    ASSUME NEW S, NEW s \in Seq(S)
    PROVE  /\ Len(s) \in Nat /\ DOMAIN s = 1..Len(s)
           /\ \A i \in 1..Len(s) : s[i] \in S /\ s[i] \in Range(s)
           /\ \A x \in Range(s) : \E i \in 1..Len(s) : x = s[i]
           /\ Range(s) \subseteq S
           /\ s # <<>> => /\ Len(s) >= 1 /\ Last(s) = s[Len(s)]
                          /\ Last(s) \in S /\ Last(s) \in Range(s)
  <1>1. Len(s) \in Nat /\ DOMAIN s = 1..Len(s) /\ \A i \in 1..Len(s) : s[i] \in S
    OBVIOUS
  <1>2. /\ \A i \in 1..Len(s) : s[i] \in Range(s)
        /\ \A x \in Range(s) : \E i \in 1..Len(s) : x = s[i]
    BY <1>1 DEF Range
  <1>3. Range(s) \subseteq S
    BY <1>1, <1>2
  <1>4. ASSUME s # <<>>
        PROVE  Len(s) >= 1 /\ Last(s) = s[Len(s)] /\ Last(s) \in S /\ Last(s) \in Range(s)
    <2>1. Len(s) >= 1
      BY <1>4
    <2> QED BY <1>1, <1>2, <2>1 DEF Last
  <1> QED BY <1>1, <1>2, <1>3, <1>4

\* The first of an ascending sequence is the least, the last one the greatest.
LEMMA AscendingBounds ==
    ASSUME NEW S \in SUBSET Nat, NEW s \in Seq(S), s # <<>>, Ascending(s)
    PROVE  /\ \A x \in Range(s) : s[1] <= x /\ x <= Last(s)
           /\ \A i \in 1..Len(s) : i # 1 => s[1] < s[i]
  <1>1. Len(s) \in Nat /\ Len(s) >= 1 /\ DOMAIN s = 1..Len(s) /\ Last(s) = s[Len(s)]
    BY SequenceFacts
  <1>2. \A i \in 1..Len(s) : s[i] \in Nat
    BY SequenceFacts
  <1>3. \A i \in 1..Len(s) : s[1] <= s[i] /\ s[i] <= s[Len(s)] /\ (i # 1 => s[1] < s[i])
    BY SMTT(60), <1>1, <1>2 DEF Ascending
  <1>4. \A x \in Range(s) : \E i \in 1..Len(s) : x = s[i]
    BY SequenceFacts
  <1> QED BY <1>1, <1>3, <1>4

\* A follower stays true when an event is stored that is newer than all others.
LEMMA FollowerStays ==
    ASSUME stored \subseteq Nat, NEW n \in Nat, \A x \in stored : x < n, stored' = stored \cup {n},
           NEW g \in Follower, FollowerTrue(g)
    PROVE  FollowerTrue(g)'
  <1>1. g.received \in Seq(stored) /\ g.page \in Seq(stored)
    BY DEF Follower
  <1>2. g.received # <<>> => Last(g.received) \in Nat /\ Last(g.received) < n
    BY <1>1, SequenceFacts
  <1>3. g.page # <<>> => Last(g.page) \in Nat /\ Last(g.page) < n
    BY <1>1, SequenceFacts
  <1>4. \A m \in Nat : m < n => \A k : {x \in stored' : k < x /\ x <= m} = {x \in stored : k < x /\ x <= m}
    OBVIOUS
  <1>5. From(g)' = From(g)
    BY DEF From
  <1> QED BY <1>2, <1>3, <1>4, <1>5 DEF FollowerTrue

LEMMA PollTrue ==
    ASSUME stored \subseteq Nat, NEW g \in Follower, FollowerTrue(g), g.on, g.page = <<>>,
           NEW page \in Seq(stored), page # <<>>, IsPage(page, After(g.cursor)),
           NEW h \in Follower,
           h.on, h.since = g.since, h.received = g.received, h.page = page, h.cursor = Last(page)
    PROVE  FollowerTrue(h)
  <1>1. From(h) = From(g) /\ g.cursor = From(g)
    BY DEF From, FollowerTrue
  <1>2. Ascending(page) /\ Range(page) \subseteq After(g.cursor)
    BY DEF IsPage
  <1>3. \A x \in Range(page) : x \in stored /\ g.cursor < x /\ x <= Last(page)
    BY <1>2, AscendingBounds DEF After, Follower
  <1>4. ASSUME NEW x \in stored, g.cursor < x, x <= Last(page)
        PROVE  x \in Range(page)
    <2>1. x \in After(g.cursor)
      BY <1>4 DEF After, Follower
    <2>2. Last(page) \in Nat /\ x \in Nat
      BY SequenceFacts
    <2> QED BY <1>4, <2>1, <2>2 DEF IsPage
  <1>5. Range(page) = {x \in stored : g.cursor < x /\ x <= Last(page)}
    BY <1>3, <1>4
  <1> QED BY <1>1, <1>2, <1>5 DEF FollowerTrue

\* The first of the page goes over to what was received.
LEMMA DeliverTrue ==
    ASSUME stored \subseteq Nat, NEW g \in Follower, FollowerTrue(g), g.page # <<>>,
           NEW h \in Follower, h.on = g.on, h.since = g.since, h.cursor = g.cursor,
           h.page = Tail(g.page), h.received = Append(g.received, Head(g.page))
    PROVE  FollowerTrue(h)
  <1>1. PICK got, page, since, cursor, first :
            /\ got = g.received /\ page = g.page /\ since = g.since /\ cursor = g.cursor
            /\ first = page[1]
    OBVIOUS
  <1>2. got \in Seq(stored) /\ page \in Seq(stored) /\ since \in Nat /\ cursor \in Nat
    BY <1>1, EventsOK DEF Follower
  <1>3. /\ Len(page) \in Nat /\ Len(page) >= 1 /\ first \in stored /\ first \in Range(page)
        /\ Last(page) = page[Len(page)] /\ Head(page) = first
    BY <1>1, <1>2, SequenceFacts
  <1>4. PICK from : from = From(g)
    OBVIOUS
  <1>5. /\ cursor = Last(page) /\ Ascending(got) /\ Ascending(page) /\ g.on
        /\ Range(page) = {x \in stored : from < x /\ x <= cursor}
        /\ got # <<>> => Range(got) = {x \in stored : since < x /\ x <= Last(got)}
    BY <1>1, <1>4 DEF FollowerTrue
  <1>6. /\ got = <<>> => from = since
        /\ got # <<>> => from = Last(got) /\ Last(got) \in Nat /\ since < Last(got)
    BY <1>1, <1>2, <1>4, <1>5, SequenceFacts DEF From
  <1>7. /\ from \in Nat /\ from < first /\ first <= cursor /\ since < first
    BY <1>2, <1>3, <1>5, <1>6
  <1>8. \A i \in 1..Len(page) : i # 1 => first < page[i]
    BY <1>1, <1>2, <1>5, AscendingBounds
  <1>9. PICK rest, more : rest = Tail(page) /\ more = Append(got, first)
    OBVIOUS
  <1>10. /\ rest \in Seq(stored) /\ Len(rest) = Len(page) - 1
         /\ \A i \in 1..Len(rest) : rest[i] = page[i + 1]
    BY <1>1, <1>2, <1>3, <1>9
  <1>11. /\ more \in Seq(stored) /\ Len(more) = Len(got) + 1 /\ more # <<>>
         /\ \A i \in 1..Len(got) : more[i] = got[i]
         /\ more[Len(more)] = first /\ Last(more) = first
    BY <1>2, <1>3, <1>9 DEF Last
  <1>12. Ascending(more)
    <2>1. \A i \in 1..Len(got) : got[i] < first
      <3>1. CASE got = <<>>
        BY <3>1
      <3>2. CASE got # <<>>
        <4>1. \A i \in 1..Len(got) : got[i] \in Range(got)
          BY <1>2, SequenceFacts
        <4>2. \A x \in Range(got) : x \in stored /\ x <= from
          BY <1>5, <1>6, <3>2
        <4>3. ASSUME NEW i \in 1..Len(got)
              PROVE  got[i] < first
          <5>1. PICK x : x = got[i]
            OBVIOUS
          <5>2. x \in Nat /\ x <= from /\ first \in Nat
            BY <1>3, <4>1, <4>2, <4>3, <5>1
          <5> QED BY <1>7, <5>1, <5>2
        <4> QED BY <4>3
      <3> QED BY <3>1, <3>2
    <2>2. DOMAIN got = 1..Len(got) /\ DOMAIN more = 1..Len(more) /\ Len(got) \in Nat
      BY <1>2, <1>11
    <2> QED BY <1>5, <1>11, <2>1, <2>2 DEF Ascending
  <1>13. Ascending(rest)
    <2>1. DOMAIN rest = 1..Len(rest) /\ DOMAIN page = 1..Len(page)
      BY <1>2, <1>10
    <2>2. \A i, j \in 1..Len(page) : i < j => page[i] < page[j]
      BY <1>5, <2>1 DEF Ascending
    <2>3. \A i, j \in 1..Len(rest) : i < j => rest[i] < rest[j]
      <3> TAKE i, j \in 1..Len(rest)
      <3>1. i + 1 \in 1..Len(page) /\ j + 1 \in 1..Len(page) /\ (i < j => i + 1 < j + 1)
        BY <1>3, <1>10
      <3> QED BY <1>10, <2>2, <3>1
    <2> QED BY <2>1, <2>3 DEF Ascending
  <1>14. Range(more) = {x \in stored : since < x /\ x <= first}
    <2>1. ASSUME NEW x \in Range(more)
          PROVE  x \in stored /\ since < x /\ x <= first
      <3>1. PICK i \in 1..Len(more) : x = more[i]
        BY <1>11, SequenceFacts
      <3>2. CASE i = Len(more)
        BY <1>3, <1>7, <1>11, <3>1, <3>2
      <3>3. CASE i # Len(more)
        <4>1. i \in 1..Len(got) /\ x = got[i] /\ got # <<>>
          BY <1>2, <1>11, <3>1, <3>3
        <4>2. x \in stored /\ since < x /\ x <= Last(got)
          BY <1>2, <1>5, <4>1, SequenceFacts
        <4> QED BY <1>3, <1>6, <1>7, <4>1, <4>2
      <3> QED BY <3>2, <3>3
    <2>2. ASSUME NEW x \in stored, since < x, x <= first
          PROVE  x \in Range(more)
      <3>1. CASE got # <<>> /\ x <= Last(got)
        <4>1. x \in Range(got)
          BY <1>5, <2>2, <3>1
        <4>2. PICK i \in 1..Len(got) : x = got[i]
          BY <1>2, <4>1, SequenceFacts
        <4>3. i \in 1..Len(more) /\ x = more[i]
          BY <1>2, <1>11, <4>2
        <4> QED BY <1>11, <4>3, SequenceFacts
      <3>2. CASE ~(got # <<>> /\ x <= Last(got))
        <4>1. from < x
          <5>1. x \in Nat
            BY <2>2
          <5>2. CASE got = <<>>
            BY <1>6, <2>2, <5>2
          <5>3. CASE got # <<>>
            BY <1>6, <3>2, <5>1, <5>3
          <5> QED BY <5>2, <5>3
        <4>2. x \in Range(page)
          BY <1>2, <1>3, <1>5, <1>7, <2>2, <4>1
        <4>3. PICK i \in 1..Len(page) : x = page[i]
          BY <1>2, <4>2, SequenceFacts
        <4>4. x = first
          <5>1. x \in Nat /\ first \in Nat
            BY <1>3, <2>2
          <5>2. CASE i = 1
            BY <1>1, <4>3, <5>2
          <5>3. CASE i # 1
            BY <1>8, <2>2, <4>3, <5>1, <5>3
          <5> QED BY <5>2, <5>3
        <4>5. Len(more) \in 1..Len(more)
          BY <1>2, <1>11
        <4> QED BY <1>11, <4>4, <4>5, SequenceFacts
      <3> QED BY <3>1, <3>2
    <2> QED BY <2>1, <2>2
  <1>15. ASSUME rest # <<>>
         PROVE  Last(rest) = cursor /\ Range(rest) = {x \in stored : first < x /\ x <= cursor}
    <2>1. Len(rest) \in Nat /\ Len(rest) >= 1 /\ Last(rest) = rest[Len(rest)]
      BY <1>10, <1>15, SequenceFacts
    <2>2. Last(rest) = cursor
      BY <1>3, <1>5, <1>10, <2>1
    <2>3. ASSUME NEW x \in Range(rest)
          PROVE  x \in stored /\ first < x /\ x <= cursor
      <3>1. PICK i \in 1..Len(rest) : x = rest[i]
        BY <1>10, SequenceFacts
      <3>2. i + 1 \in 1..Len(page) /\ x = page[i + 1] /\ i + 1 # 1
        BY <1>3, <1>10, <3>1
      <3>3. x \in Range(page)
        BY <1>2, <3>2, SequenceFacts
      <3> QED BY <1>5, <1>8, <3>2, <3>3
    <2>4. ASSUME NEW x \in stored, first < x, x <= cursor
          PROVE  x \in Range(rest)
      <3>1. x \in Range(page)
        BY <1>3, <1>5, <1>7, <2>4
      <3>2. PICK i \in 1..Len(page) : x = page[i]
        BY <1>2, <3>1, SequenceFacts
      <3>3. i # 1
        BY <1>1, <1>3, <2>4, <3>2
      <3>4. i - 1 \in 1..Len(rest) /\ x = rest[i - 1]
        BY <1>3, <1>10, <3>2, <3>3
      <3> QED BY <1>10, <3>4, SequenceFacts
    <2> QED BY <2>2, <2>3, <2>4
  <1>16. rest = <<>> => cursor = first
    BY <1>1, <1>3, <1>5, <1>10
  <1>17. h.page = rest /\ h.received = more /\ From(h) = first
    BY <1>1, <1>3, <1>9, <1>11 DEF From
  <1>18. h.on /\ Ascending(h.page) /\ Ascending(h.received) /\ h.received # <<>>
    BY <1>1, <1>5, <1>11, <1>12, <1>13, <1>17
  <1>19. Range(h.received) = {x \in stored : h.since < x /\ x <= Last(h.received)}
    BY <1>1, <1>11, <1>14, <1>17
  <1>20. h.page # <<>> => /\ h.cursor = Last(h.page)
                          /\ Range(h.page) = {x \in stored : From(h) < x /\ x <= h.cursor}
    BY <1>1, <1>15, <1>17
  <1>21. h.page = <<>> => h.cursor = From(h)
    BY <1>1, <1>16, <1>17
  <1> QED BY <1>18, <1>19, <1>20, <1>21 DEF FollowerTrue

\* A client that goes away loses the rest of its page, which it will be sent again.
LEMMA DisconnectTrue ==
    ASSUME stored \subseteq Nat, NEW g \in Follower, FollowerTrue(g),
           NEW h \in Follower, ~h.on, h.page = <<>>, h.since = g.since, h.received = g.received
    PROVE  FollowerTrue(h)
  <1>1. Ascending(<<>>)
    BY DEF Ascending
  <1> QED BY <1>1 DEF FollowerTrue

LEMMA ConnectTrue ==
    ASSUME NEW g \in Follower, FollowerTrue(g), ~g.on,
           NEW h \in Follower, h.on, h.page = g.page, h.received = g.received,
           g.received # <<>> => h.since = g.since,
           h.cursor = From(h)
    PROVE  FollowerTrue(h)
  BY DEF FollowerTrue

LEMMA FollowerFields ==
    ASSUME NEW g \in Follower
    PROVE  g = [on |-> g.on, since |-> g.since, cursor |-> g.cursor, page |-> g.page, received |-> g.received]
  BY DEF Follower

\* A step that moves one follower.
LEMMA FollowerTurns ==
    ASSUME EventInv, NEW f \in Followers, NEW h \in Follower, follower' = [follower EXCEPT ![f] = h],
           UNCHANGED <<db, tx, stamp, stored>>, h.since <= stamp, h.cursor <= stamp,
           Serial => FollowerTrue(h)
    PROVE  EventInv'
  <1>1. follower' \in [Followers -> Follower]
    BY DEF EventInv, EventTypes
  <1>2. follower'[f] = h /\ \A k \in Followers \ {f} : follower'[k] = follower[k]
    BY DEF EventInv, EventTypes
  <1>3. EventTypes'
    <2>1. \A k \in Followers : follower'[k].since <= stamp /\ follower'[k].cursor <= stamp
      BY <1>2 DEF EventInv, EventTypes
    <2> QED BY <1>1, <2>1 DEF EventInv, EventTypes, Follower
  <1>4. EmitWork'
    BY DEF EventInv, EmitWork, EmitHeld, Serial
  <1>5. ASSUME Serial, NEW k \in Followers
        PROVE  FollowerTrue(follower[k])'
    <2>1. PICK g : g = follower'[k]
      OBVIOUS
    <2>2. FollowerTrue(g)
      BY <1>2, <1>5, <2>1 DEF EventInv
    <2>3. FollowerTrue(g)'
      BY <2>2 DEF FollowerTrue, From
    <2> QED BY <2>1, <2>3 DEF FollowerTrue, From
  <1> QED BY <1>3, <1>4, <1>5 DEF EventInv, Serial

LEMMA ConnectKeeps ==
    ASSUME EventInv, db' = db, NEW f \in Followers, Connect(f)
    PROVE  EventInv'
  <1>1. PICK g : g = follower[f]
    OBVIOUS
  <1>2. g \in Follower /\ g.since <= stamp /\ g.cursor <= stamp /\ stamp \in 0..MaxEvents
    BY <1>1 DEF EventInv, EventTypes
  <1>3. PICK since, cursor :
            /\ since = IF g.received = <<>> THEN stamp ELSE g.since
            /\ cursor = IF g.received = <<>> THEN stamp ELSE Last(g.received)
    OBVIOUS
  <1>4. PICK h : h = [on |-> TRUE, since |-> since, cursor |-> cursor, page |-> g.page, received |-> g.received]
    OBVIOUS
  <1>5. follower' = [follower EXCEPT ![f] = h] /\ ~g.on /\ UNCHANGED <<tx, stamp, stored>>
    <2>1. follower' = [follower EXCEPT ![f].on = TRUE, ![f].since = since, ![f].cursor = cursor]
      BY <1>1, <1>3 DEF Connect
    <2>2. [g EXCEPT !.on = TRUE, !.since = since, !.cursor = cursor] = h
      <3>1. PICK g1 : g1 = [g EXCEPT !.on = TRUE]
        OBVIOUS
      <3>2. PICK g2 : g2 = [g1 EXCEPT !.since = since]
        OBVIOUS
      <3>3. PICK g3 : g3 = [g2 EXCEPT !.cursor = cursor]
        OBVIOUS
      <3>4. g = [on |-> g.on, since |-> g.since, cursor |-> g.cursor, page |-> g.page, received |-> g.received]
        BY <1>2, FollowerFields
      <3>5. g3 = [on |-> TRUE, since |-> since, cursor |-> cursor, page |-> g.page, received |-> g.received]
        BY <3>1, <3>2, <3>3, <3>4
      <3> QED BY <1>4, <3>1, <3>2, <3>3, <3>5
    <2> QED BY ZenonT(60), <1>1, <2>1, <2>2 DEF Connect
  <1>6. since \in 0..MaxEvents /\ since <= stamp
    BY <1>2, <1>3 DEF Follower
  <1>7. cursor \in 0..MaxEvents /\ cursor <= stamp
    <2>1. g.received # <<>> => Last(g.received) \in stored
      BY <1>2, SequenceFacts DEF Follower
    <2>2. \A x \in stored : x \in 0..MaxEvents /\ x <= stamp
      BY <1>2, EventsOK DEF EventInv, EventTypes
    <2> QED BY <1>2, <1>3, <2>1, <2>2
  <1>8. h \in Follower /\ h.since = since /\ h.cursor = cursor
    BY <1>2, <1>4, <1>6, <1>7 DEF Follower
  <1>9. ASSUME Serial
        PROVE  FollowerTrue(h)
    <2>1. FollowerTrue(g)
      BY <1>1, <1>9 DEF EventInv
    <2>2. h.on /\ h.page = g.page /\ h.received = g.received
          /\ (g.received # <<>> => h.since = g.since) /\ h.cursor = From(h)
      BY <1>3, <1>4 DEF From
    <2> QED BY <1>2, <1>5, <1>8, <2>1, <2>2, ConnectTrue
  <1> QED BY <1>5, <1>6, <1>7, <1>8, <1>9, FollowerTurns

LEMMA PollKeeps ==
    ASSUME EventInv, db' = db, NEW f \in Followers, Poll(f)
    PROVE  EventInv'
  <1>1. PICK g : g = follower[f]
    OBVIOUS
  <1>2. g \in Follower /\ g.since <= stamp /\ stamp \in 0..MaxEvents /\ stored \subseteq Nat
    BY <1>1 DEF EventInv, EventTypes
  <1>3. PICK page \in BoundedSeq(stored, PageSize) \ {<<>>} :
            /\ IsPage(page, After(g.cursor))
            /\ follower' = [follower EXCEPT ![f].page = page, ![f].cursor = Last(page)]
    BY <1>1 DEF Poll
  <1>4. page \in Seq(stored) /\ page # <<>>
    BY <1>3, EventsOK, SeqDef DEF BoundedSeq, SeqOf
  <1>5. PICK c : c = Last(page)
    OBVIOUS
  <1>6. c \in 0..MaxEvents /\ c <= stamp
    <2>1. c \in stored
      BY <1>4, <1>5, SequenceFacts
    <2> QED BY <1>2, <2>1, EventsOK DEF EventInv, EventTypes
  <1>7. PICK h : h = [on |-> g.on, since |-> g.since, cursor |-> c, page |-> page, received |-> g.received]
    OBVIOUS
  <1>8. follower' = [follower EXCEPT ![f] = h] /\ g.on /\ g.page = <<>> /\ UNCHANGED <<tx, stamp, stored>>
    <2>1. [g EXCEPT !.page = page, !.cursor = c] = h
      <3>1. PICK g1 : g1 = [g EXCEPT !.page = page]
        OBVIOUS
      <3>2. PICK g2 : g2 = [g1 EXCEPT !.cursor = c]
        OBVIOUS
      <3>3. g = [on |-> g.on, since |-> g.since, cursor |-> g.cursor, page |-> g.page, received |-> g.received]
        BY <1>2, FollowerFields
      <3>4. g2 = [on |-> g.on, since |-> g.since, cursor |-> c, page |-> page, received |-> g.received]
        BY <3>1, <3>2, <3>3
      <3> QED BY <1>7, <3>1, <3>2, <3>4
    <2> QED BY ZenonT(60), <1>1, <1>3, <1>5, <2>1 DEF Poll
  <1>9. h \in Follower /\ h.on /\ h.since = g.since /\ h.received = g.received /\ h.page = page
        /\ h.cursor = c
    BY <1>2, <1>4, <1>6, <1>7, <1>8 DEF Follower
  <1>10. Serial => FollowerTrue(h)
    BY <1>1, <1>2, <1>3, <1>4, <1>5, <1>8, <1>9, PollTrue DEF EventInv
  <1> QED BY <1>2, <1>6, <1>8, <1>9, <1>10, FollowerTurns

LEMMA DeliverKeeps ==
    ASSUME EventInv, db' = db, NEW f \in Followers, Deliver(f)
    PROVE  EventInv'
  <1>1. PICK g : g = follower[f]
    OBVIOUS
  <1>2. g \in Follower /\ g.since <= stamp /\ g.cursor <= stamp /\ stored \subseteq Nat
    BY <1>1 DEF EventInv, EventTypes
  <1>3. PICK rest, more : rest = Tail(g.page) /\ more = Append(g.received, Head(g.page))
    OBVIOUS
  <1>4. g.page # <<>> /\ rest \in Seq(stored) /\ more \in Seq(stored)
    BY <1>1, <1>2, <1>3 DEF Deliver, Follower
  <1>5. PICK h : h = [on |-> g.on, since |-> g.since, cursor |-> g.cursor, page |-> rest, received |-> more]
    OBVIOUS
  <1>6. follower' = [follower EXCEPT ![f] = h] /\ UNCHANGED <<tx, stamp, stored>>
    <2>1. [g EXCEPT !.page = rest, !.received = more] = h
      <3>1. PICK g1 : g1 = [g EXCEPT !.page = rest]
        OBVIOUS
      <3>2. PICK g2 : g2 = [g1 EXCEPT !.received = more]
        OBVIOUS
      <3>3. g = [on |-> g.on, since |-> g.since, cursor |-> g.cursor, page |-> g.page, received |-> g.received]
        BY <1>2, FollowerFields
      <3>4. g2 = [on |-> g.on, since |-> g.since, cursor |-> g.cursor, page |-> rest, received |-> more]
        BY <3>1, <3>2, <3>3
      <3> QED BY <1>5, <3>1, <3>2, <3>4
    <2> QED BY <1>1, <1>3, <2>1 DEF Deliver
  <1>7. h \in Follower /\ h.on = g.on /\ h.since = g.since /\ h.cursor = g.cursor /\ h.page = rest
        /\ h.received = more
    BY <1>2, <1>4, <1>5 DEF Follower
  <1>8. Serial => FollowerTrue(h)
    BY <1>1, <1>2, <1>3, <1>4, <1>7, DeliverTrue DEF EventInv
  <1> QED BY <1>2, <1>6, <1>7, <1>8, FollowerTurns

LEMMA DisconnectKeeps ==
    ASSUME EventInv, db' = db, NEW f \in Followers, Disconnect(f)
    PROVE  EventInv'
  <1>1. PICK g : g = follower[f]
    OBVIOUS
  <1>2. g \in Follower /\ g.since <= stamp /\ stamp \in 0..MaxEvents /\ stored \subseteq Nat
    BY <1>1 DEF EventInv, EventTypes
  <1>3. PICK h : h = [on |-> FALSE, since |-> g.since, cursor |-> 0, page |-> <<>>, received |-> g.received]
    OBVIOUS
  <1>4. follower' = [follower EXCEPT ![f] = h] /\ UNCHANGED <<tx, stamp, stored>>
    <2>1. [g EXCEPT !.on = FALSE, !.cursor = 0, !.page = <<>>] = h
      <3>1. PICK g1 : g1 = [g EXCEPT !.on = FALSE]
        OBVIOUS
      <3>2. PICK g2 : g2 = [g1 EXCEPT !.cursor = 0]
        OBVIOUS
      <3>3. PICK g3 : g3 = [g2 EXCEPT !.page = <<>>]
        OBVIOUS
      <3>4. g = [on |-> g.on, since |-> g.since, cursor |-> g.cursor, page |-> g.page, received |-> g.received]
        BY <1>2, FollowerFields
      <3>5. g3 = [on |-> FALSE, since |-> g.since, cursor |-> 0, page |-> <<>>, received |-> g.received]
        BY <3>1, <3>2, <3>3, <3>4
      <3> QED BY <1>3, <3>1, <3>2, <3>3, <3>5
    <2> QED BY <1>1, <2>1 DEF Disconnect
  <1>5. h \in Follower /\ ~h.on /\ h.since = g.since /\ h.cursor = 0 /\ h.page = <<>> /\ h.received = g.received
    BY <1>2, <1>3, EventsOK DEF Follower
  <1>6. Serial => FollowerTrue(h)
    BY <1>1, <1>2, <1>5, DisconnectTrue DEF EventInv
  <1>7. h.since <= stamp /\ h.cursor <= stamp
    BY <1>2, <1>5
  <1> QED BY <1>4, <1>5, <1>6, <1>7, FollowerTurns

LEMMA EmitKeeps ==
    ASSUME EventInv, DatabaseInv, db' = db, NEW w \in Workers, EmitEvent(w)
    PROVE  EventInv' /\ DatabaseInv' /\ Within({"emit"})
  <1>1. PICK n \in Nat : n = stamp + 1
    BY DEF EventInv, EventTypes
  <1>2. PICK r : r = Request("emit", 0, {}, {}, n, TRUE)
    OBVIOUS
  <1>3. /\ Turns(w, r) /\ MayBegin /\ tx[w].op = "none" /\ Alone(w)
        /\ stamp < MaxEvents /\ stamp' = n /\ UNCHANGED <<stored, follower>>
    BY <1>1, <1>2, ExceptTurns, BeginnerAlone DEF EmitEvent, DatabaseInv
  <1>4. r.op = "emit" /\ r.open /\ r.n = n
    BY <1>2 DEF Request
  <1>5. EventTypes'
    <2>1. stamp' \in 0..MaxEvents /\ stored' \subseteq 1..stamp' /\ stamp \in Nat
      BY <1>1, <1>3, EventsOK DEF EventInv, EventTypes
    <2>2. \A f \in Followers : follower'[f].since <= stamp' /\ follower'[f].cursor <= stamp'
      <3> TAKE f \in Followers
      <3>1. /\ follower[f].since \in Nat /\ follower[f].cursor \in Nat
            /\ follower[f].since <= stamp /\ follower[f].cursor <= stamp
        BY EventsOK DEF EventInv, EventTypes, Follower
      <3> QED BY <1>1, <1>3, <2>1, <3>1
    <2> QED BY <1>3, <2>1, <2>2 DEF EventInv, EventTypes, Follower
  <1>6. EmitWork'
    <2>1. \A x \in stored : x < n
      BY <1>1 DEF EventInv, EventTypes
    <2>2. ASSUME NEW v \in Workers
          PROVE  EmitHeld(tx[v])'
      <3>1. CASE v = w
        <4>1. tx'[v] = r /\ n \in 1..n
          BY <1>1, <1>3, <3>1 DEF Turns, EventInv, EventTypes
        <4> QED BY <1>3, <1>4, <2>1, <4>1 DEF EmitHeld
      <3>2. CASE v # w
        <4>1. tx'[v] = tx[v] /\ EmitHeld(tx[v])
          BY <1>3, <3>2 DEF Turns, EventInv, EmitWork
        <4>2. stamp \in Nat /\ n = stamp + 1
          BY <1>1 DEF EventInv, EventTypes
        <4> QED BY <1>3, <4>1, <4>2 DEF EmitHeld, Serial
      <3> QED BY <3>1, <3>2
    <2> QED BY <2>2 DEF EmitWork
  <1>7. Serial => \A f \in Followers : FollowerTrue(follower[f])'
    BY <1>3 DEF EventInv, FollowerTrue, From
  <1>8. DatabaseInv'
    BY <1>2, <1>3, TurnKeepsDatabase
  <1>9. Within({"emit"})
    BY <1>2, <1>3, RequestWithin
  <1> QED BY <1>5, <1>6, <1>7, <1>8, <1>9 DEF EventInv, Serial

LEMMA StoreEventKeeps ==
    ASSUME EventInv, DatabaseInv, db' = db, NEW w \in Workers, StoreEvent(w) \/ LoseEvent(w)
    PROVE  EventInv' /\ DatabaseInv' /\ Within({"emit"})
  <1>1. /\ tx[w].op = "emit" /\ Turns(w, NoRequest) /\ UNCHANGED <<stamp, follower>>
    BY EndTurns DEF StoreEvent, LoseEvent, DatabaseInv, eventStream
  <1>2. EmitHeld(tx[w])
    BY DEF EventInv, EmitWork
  <1>3. PICK n : n = tx[w].n
    OBVIOUS
  <1>4. n \in 1..stamp /\ n \in Nat /\ Alone(w) /\ stored \subseteq Nat /\ stamp \in Nat
    BY <1>1, <1>2, <1>3, HolderAlone DEF EmitHeld, EventInv, EventTypes, DatabaseInv
  <1>5. stored' = stored \/ stored' = stored \cup {n}
    BY <1>3 DEF StoreEvent, LoseEvent, eventStream
  <1>6. EventTypes'
    <2>1. \A s \in Seq(stored) : s \in Seq(stored')
      <3>1. stored \subseteq stored'
        BY <1>5
      <3> QED BY <3>1, SeqMonotonic
    <2>2. \A g \in Follower : g \in Follower'
      BY <2>1 DEF Follower
    <2>3. follower' \in [Followers -> Follower']
      BY <1>1, <2>2 DEF EventInv, EventTypes
    <2>4. stored' \subseteq 1..stamp'
      BY <1>1, <1>4, <1>5 DEF EventInv, EventTypes
    <2> QED BY <1>1, <2>3, <2>4 DEF EventInv, EventTypes
  <1>7. EmitWork'
    <2>1. ASSUME NEW v \in Workers
          PROVE  EmitHeld(tx[v])'
      <3>1. CASE v = w
        BY <1>1, <3>1, NoRequestFields DEF Turns, EmitHeld
      <3>2. CASE v # w
        <4>1. tx'[v] = tx[v] /\ EmitHeld(tx[v]) /\ (Serial => ~tx[v].open)
          BY <1>1, <1>4, <3>2 DEF Turns, Alone, EventInv, EmitWork
        <4> QED BY <1>1, <4>1 DEF EmitHeld, Serial
      <3> QED BY <3>1, <3>2
    <2> QED BY <2>1 DEF EmitWork
  <1>8. ASSUME Serial, NEW f \in Followers
        PROVE  FollowerTrue(follower[f])'
    <2>1. PICK g : g = follower[f]
      OBVIOUS
    <2>2. FollowerTrue(g) /\ g \in Follower /\ follower'[f] = g
      BY <1>1, <1>8, <2>1 DEF EventInv, EventTypes
    <2>3. FollowerTrue(g)'
      <3>1. CASE stored' = stored
        BY <2>2, <3>1 DEF FollowerTrue, From
      <3>2. CASE stored' = stored \cup {n}
        <4>1. \A x \in stored : x < n
          BY <1>1, <1>2, <1>3, <1>8 DEF EmitHeld
        <4> QED BY <1>4, <2>2, <3>2, <4>1, FollowerStays
      <3> QED BY <1>5, <3>1, <3>2
    <2> QED BY <2>2, <2>3 DEF FollowerTrue, From
  <1>9. DatabaseInv' /\ Within({"emit"})
    BY <1>1, EndKeepsDatabase, EndWithin
  <1> QED BY <1>6, <1>7, <1>8, <1>9 DEF EventInv, Serial

LEMMA EventPartKeeps ==
    ASSUME EventInv, DatabaseInv, db' = db, EventPart
    PROVE  EventInv' /\ DatabaseInv' /\ Within({"emit"})
  <1>1. CASE \E w \in Workers : EmitEvent(w) \/ StoreEvent(w) \/ LoseEvent(w)
    BY <1>1, EmitKeeps, StoreEventKeeps
  <1>2. ASSUME NEW f \in Followers, Connect(f) \/ Poll(f) \/ Deliver(f) \/ Disconnect(f)
        PROVE  EventInv' /\ DatabaseInv' /\ Within({"emit"})
    <2>1. tx' = tx
      BY <1>2 DEF Connect, Poll, Deliver, Disconnect
    <2>2. DatabaseInv' /\ Within({"emit"})
      BY <2>1, StutterKeepsDatabase DEF Within
    <2> QED BY <1>2, <2>2, ConnectKeeps, PollKeeps, DeliverKeeps, DisconnectKeeps
  <1> QED BY <1>1, <1>2 DEF EventPart, EventNext

LEMMA EventElsewhere ==
    ASSUME EventInv, db' = db, UNCHANGED eventStream,
           \A v \in Workers : tx[v].op = "emit" \/ tx'[v].op = "emit" => tx'[v] = tx[v]
    PROVE  EventInv'
  <1>1. ASSUME NEW v \in Workers
        PROVE  EmitHeld(tx[v])'
    <2>1. CASE tx'[v].op = "emit"
      <3>1. EmitHeld(tx[v]) /\ tx'[v] = tx[v]
        BY <2>1 DEF EventInv, EmitWork
      <3> QED BY <3>1 DEF EmitHeld, Serial, eventStream
    <2>2. CASE tx'[v].op # "emit"
      BY <2>2 DEF EmitHeld
    <2> QED BY <2>1, <2>2
  <1>2. EmitWork'
    BY <1>1 DEF EmitWork
  <1>3. EventTypes'
    BY DEF EventInv, EventTypes, Follower, eventStream
  <1>4. ASSUME Serial, NEW f \in Followers
        PROVE  FollowerTrue(follower[f])'
    BY <1>4 DEF EventInv, FollowerTrue, From, eventStream
  <1> QED BY <1>2, <1>3, <1>4 DEF EventInv, Serial

LEMMA EventStarts ==
    ASSUME DatabaseInit, EventStreamInit
    PROVE  EventInv
  <1>1. NoFollower \in Follower /\ NoFollower.since = 0 /\ NoFollower.cursor = 0
    BY EventsOK DEF NoFollower, Follower
  <1>2. EventTypes
    BY <1>1, EventsOK DEF EventStreamInit, EventTypes
  <1>3. EmitWork
    BY NoRequestFields DEF DatabaseInit, EmitWork, EmitHeld
  <1>4. FollowerTrue(NoFollower)
    <2>1. Ascending(<<>>)
      BY DEF Ascending
    <2> QED BY <2>1 DEF FollowerTrue, NoFollower
  <1>5. \A f \in Followers : FollowerTrue(follower[f])
    BY <1>4 DEF EventStreamInit
  <1> QED BY <1>2, <1>3, <1>5 DEF EventInv

LEMMA EventGives ==
    ASSUME EventInv
    PROVE  EventStreamTypeOK /\ FollowersSeeAll
  <1>1. EventStreamTypeOK
    <2>1. ASSUME NEW f \in Followers
          PROVE  /\ follower[f].on \in BOOLEAN
                 /\ follower[f].since \in 0..stamp /\ follower[f].cursor \in 0..stamp
                 /\ follower[f].page \in Seq(stored) /\ follower[f].received \in Seq(stored)
      <3>1. follower[f] \in Follower /\ follower[f].since <= stamp /\ follower[f].cursor <= stamp
            /\ stamp \in Nat
        BY EventsOK DEF EventInv, EventTypes
      <3> QED BY <3>1, EventsOK DEF Follower
    <2> QED BY <2>1 DEF EventStreamTypeOK, EventInv, EventTypes
  <1>2. FollowersSeeAll
    BY DEF FollowersSeeAll, EventInv, FollowerTrue
  <1> QED BY <1>1, <1>2

-----------------------------------------------------------------------------
(* The rules of a toolkit.                                                 *)

Row == [seq : 0..MaxSequence, rule : Rules]

\* These rows are the list, in its order, with these sequences.
RowsAre(rs, l, s) ==
    /\ s \in [DOMAIN l -> 0..MaxSequence]
    /\ \A i, j \in DOMAIN l : i < j => s[i] < s[j]
    /\ rs = {[seq |-> s[i], rule |-> l[i]] : i \in DOMAIN l}

InOrder(rs, l) == \E s : RowsAre(rs, l, s)

ToolkitTypes ==
    /\ toolkit \in {"none", "active", "inactive", "deleted"}
    /\ key \in {"none", "live", "revoked"} /\ agents \in BOOLEAN
    /\ bindings \subseteq credentials /\ credentials \subseteq Credentials
    /\ rows \in [Credentials -> SUBSET Row] /\ listed \in [Credentials -> Lists]
    /\ toolkit = "deleted" => bindings = {}

\* An edit has read the rows it replaces.
RuleHeld(q) ==
    q.op \in {"edit", "bind"} =>
        /\ q.on \in Credentials /\ q.open /\ q.seen \subseteq Row
        /\ Serial => q.seen = rows[q.on]

RuleWork == \A w \in Workers : RuleHeld(tx[w])

ToolkitInv ==
    /\ ToolkitTypes /\ RuleWork
    /\ Serial => \A c \in Credentials : InOrder(rows[c], listed[c])

\* A set of natural numbers has a least element, a bounded set of integers a greatest.
LEMMA LeastNumber ==
    ASSUME NEW T \in SUBSET Nat, T # {}
    PROVE  \E x \in T : \A y \in T : x <= y
  <1>1. PICK R : R = OpToRel(<, Nat) /\ IsWellFoundedOn(R, Nat)
    BY NatLessThanWellFounded
  <1>2. \A x, y \in Nat : x < y => <<x, y>> \in R
    BY <1>1 DEF OpToRel
  <1>3. PICK x \in T : \A y \in T : ~ (<<y, x>> \in R)
    BY <1>1, WFMin
  <1>4. \A y \in T : x \in Nat /\ y \in Nat /\ ~ (y < x)
    BY <1>2, <1>3
  <1> QED BY <1>4

LEMMA GreatestNumber ==
    ASSUME NEW S \in SUBSET Int, NEW a \in S, NEW top \in Int, \A x \in S : x <= top
    PROVE  Max(S) \in S /\ \A x \in S : x <= Max(S)
  <1> DEFINE T == {n \in Nat : top - n \in S}
  <1>1. top - a \in T
    BY DEF T
  <1>2. PICK n \in T : \A m \in T : n <= m
    BY <1>1, LeastNumber
  <1>3. ASSUME NEW x \in S
        PROVE  top - n >= x
    <2>1. top - x \in T
      BY DEF T
    <2>2. n <= top - x /\ n \in Nat
      BY <1>2, <2>1
    <2> QED BY <2>2
  <1>4. top - n \in S
    BY <1>2
  <1>5. \E x \in S : \A y \in S : x >= y
    BY <1>3, <1>4
  <1> QED BY <1>5 DEF Max

LEMMA ListFacts ==
    ASSUME NEW l \in Lists
    PROVE  /\ Len(l) \in 0..MaxRules /\ Len(l) \in Nat /\ DOMAIN l = 1..Len(l)
           /\ l \in Seq(Rules) /\ \A i \in 1..Len(l) : l[i] \in Rules
  <1>1. PICK n \in 0..MaxRules : l \in [1..n -> Rules]
    BY DEF Lists, BoundedSeq, SeqOf
  <1>2. n \in Nat
    BY <1>1, RulesOK
  <1>3. l \in Seq(Rules)
    BY <1>1, <1>2, SeqDef
  <1>4. Len(l) = n
    BY <1>1, <1>2, <1>3
  <1> QED BY <1>1, <1>2, <1>3, <1>4

LEMMA ListIs ==
    ASSUME NEW l \in Seq(Rules), Len(l) <= MaxRules
    PROVE  l \in Lists
  <1>1. Len(l) \in 0..MaxRules /\ l \in [1..Len(l) -> Rules]
    BY RulesOK
  <1> QED BY <1>1 DEF Lists, BoundedSeq, SeqOf

LEMMA NumberedRows ==
    ASSUME NEW l \in Lists, NEW first \in Nat, first + Len(l) <= MaxSequence + 1
    PROVE  /\ Numbered(l, first) \subseteq Row
           /\ \A i \in DOMAIN l : first + i - 1 \in 0..MaxSequence
  <1>1. DOMAIN l = 1..Len(l) /\ Len(l) \in Nat /\ \A i \in 1..Len(l) : l[i] \in Rules
    BY ListFacts
  <1>2. \A i \in DOMAIN l : first + i - 1 \in 0..MaxSequence
    BY <1>1, RulesOK
  <1> QED BY <1>1, <1>2 DEF Numbered, Row

\* The rows of a list numbered from 0 are in its order.
LEMMA NumberedInOrder ==
    ASSUME NEW l \in Lists
    PROVE  Numbered(l, 0) \subseteq Row /\ InOrder(Numbered(l, 0), l)
  <1>1. DOMAIN l = 1..Len(l) /\ Len(l) \in Nat /\ 0 + Len(l) <= MaxSequence + 1
    BY ListFacts, RulesOK
  <1>2. Numbered(l, 0) \subseteq Row /\ \A i \in DOMAIN l : 0 + i - 1 \in 0..MaxSequence
    BY <1>1, NumberedRows
  <1>3. PICK s : s = [i \in DOMAIN l |-> 0 + i - 1]
    OBVIOUS
  <1>4. RowsAre(Numbered(l, 0), l, s)
    <2>1. s \in [DOMAIN l -> 0..MaxSequence]
      BY <1>2, <1>3
    <2>2. \A i, j \in DOMAIN l : i < j => s[i] < s[j]
      BY <1>1, <1>3
    <2>3. Numbered(l, 0) = {[seq |-> s[i], rule |-> l[i]] : i \in DOMAIN l}
      BY <1>3 DEF Numbered
    <2> QED BY <2>1, <2>2, <2>3 DEF RowsAre
  <1> QED BY <1>2, <1>4 DEF InOrder

LEMMA EmptyInOrder == InOrder({}, <<>>) /\ <<>> \in Lists
  <1>1. RowsAre({}, <<>>, <<>>)
    BY DEF RowsAre
  <1>2. <<>> \in Seq(Rules) /\ Len(<<>>) = 0 /\ 0 <= MaxRules
    BY EmptySeq, RulesOK
  <1>3. <<>> \in Lists
    BY <1>2, ListIs
  <1> QED BY <1>1, <1>3 DEF InOrder

RowsBefore(rs, n) == {y \in rs : y.seq < n}

\* As many rows come before a row of the list as its place says.
LEMMA PlaceOf ==
    ASSUME NEW rs, NEW l \in Lists, NEW s, RowsAre(rs, l, s), NEW k \in DOMAIN l
    PROVE  Cardinality(RowsBefore(rs, s[k])) = k - 1
  <1> DEFINE row(i) == [seq |-> s[i], rule |-> l[i]]
             before == RowsBefore(rs, s[k])
  <1>1. DOMAIN l = 1..Len(l) /\ Len(l) \in Nat
    BY ListFacts
  <1>2. k \in 1..Len(l) /\ k - 1 \in Nat
    BY <1>1
  <1>3. \A i \in DOMAIN l : s[i] \in Int
    BY RulesOK DEF RowsAre
  <1>4. \A i, j \in DOMAIN l : i < j => s[i] < s[j]
    BY DEF RowsAre
  <1>5. rs = {row(i) : i \in DOMAIN l}
    BY DEF RowsAre
  <1>6. \A i \in DOMAIN l : s[i] < s[k] <=> i < k
    <2>1. ASSUME NEW i \in DOMAIN l
          PROVE  s[i] < s[k] <=> i < k
      <3>1. i \in Int /\ k \in Int /\ s[i] \in Int /\ s[k] \in Int
        BY <1>1, <1>3
      <3>2. CASE i < k
        BY <1>4, <3>2
      <3>3. CASE i = k
        BY <3>1, <3>3
      <3>4. CASE k < i
        BY <1>4, <3>1, <3>4
      <3> QED BY <3>1, <3>2, <3>3, <3>4
    <2> QED BY <2>1
  <1>7. before = {row(i) : i \in 1..k - 1}
    <2>1. \A y : y \in before <=> \E i \in DOMAIN l : y = row(i) /\ s[i] < s[k]
      BY <1>5 DEF RowsBefore
    <2>2. \A i : i \in DOMAIN l /\ i < k <=> i \in 1..k - 1
      BY <1>1, <1>2
    <2>3. \A y : y \in before <=> \E i \in 1..k - 1 : y = row(i)
      BY <1>6, <2>1, <2>2
    <2> QED BY <2>3
  <1>8. PICK f : f = [i \in 1..k - 1 |-> row(i)]
    OBVIOUS
  <1>9. f \in Bijection(1..k - 1, before)
    <2>1. f \in [1..k - 1 -> before]
      BY <1>7, <1>8
    <2>2. \A i, j \in 1..k - 1 : f[i] = f[j] => i = j
      <3>1. ASSUME NEW i \in 1..k - 1, NEW j \in 1..k - 1, f[i] = f[j]
            PROVE  i = j
        <4>1. row(i) = row(j)
          BY <1>8, <3>1
        <4>2. s[i] = s[j] /\ i \in DOMAIN l /\ j \in DOMAIN l /\ i \in Int /\ j \in Int
          BY <1>1, <1>2, <4>1
        <4>3. s[i] \in Int /\ ~(s[i] < s[j]) /\ ~(s[j] < s[i])
          BY <1>3, <4>2
        <4> QED BY <1>4, <4>2, <4>3
      <3> QED BY <3>1
    <2>3. \A y \in before : \E i \in 1..k - 1 : f[i] = y
      BY <1>7, <1>8
    <2> QED BY <2>1, <2>2, <2>3 DEF Bijection, Injection, Surjection, IsInjective
  <1>10. ExistsBijection(1..k - 1, before)
    BY <1>9 DEF ExistsBijection
  <1> QED BY <1>2, <1>10, FS_CountingElements

RowsAt(places, l, s) == {[seq |-> s[places[j]], rule |-> l[places[j]]] : j \in DOMAIN places}

\* The rows that are kept are those at the places that are left.
LEMMA KeptAtPlaces ==
    ASSUME NEW rs, NEW l \in Lists, NEW s, RowsAre(rs, l, s), NEW gone,
           NEW places, AreLeft(places, l, gone)
    PROVE  Kept(rs, gone) = RowsAt(places, l, s)
  <1> DEFINE row(i) == [seq |-> s[i], rule |-> l[i]]
  <1>1. rs = {row(i) : i \in DOMAIN l}
    BY DEF RowsAre
  <1>2. DOMAIN l \subseteq Int
    BY ListFacts
  <1>3. \A i \in DOMAIN l : Cardinality(RowsBefore(rs, row(i).seq)) + 1 = i
    <2>1. ASSUME NEW i \in DOMAIN l
          PROVE  Cardinality(RowsBefore(rs, row(i).seq)) + 1 = i
      <3>1. row(i).seq = s[i]
        OBVIOUS
      <3>2. Cardinality(RowsBefore(rs, s[i])) = i - 1
        BY PlaceOf
      <3>3. (i - 1) + 1 = i
        BY <1>2
      <3> QED BY <3>1, <3>2, <3>3
    <2> QED BY <2>1
  <1>4. \A y : y \in Kept(rs, gone) <=> \E i \in DOMAIN l \ gone : y = row(i)
    BY <1>1, <1>3 DEF Kept, RowsBefore
  <1>5. \A i : i \in DOMAIN l \ gone <=> \E j \in DOMAIN places : i = places[j]
    BY DEF AreLeft, Range
  <1>6. \A y : y \in Kept(rs, gone) <=> \E j \in DOMAIN places : y = row(places[j])
    BY <1>4, <1>5
  <1> QED BY <1>6 DEF RowsAt

\* A new rule is numbered after every row that is kept.
LEMMA NextIsAfter ==
    ASSUME NEW kept \in SUBSET Row
    PROVE  /\ NextSequence(kept) \in Nat
           /\ \A x \in kept : x.seq < NextSequence(kept)
  <1> DEFINE S == {x.seq : x \in kept} \cup {-1}
  <1>1. \A x \in kept : x.seq \in 0..MaxSequence
    BY DEF Row
  <1>2. S \in SUBSET Int /\ -1 \in S /\ MaxSequence \in Int /\ \A x \in S : x <= MaxSequence
    BY <1>1, RulesOK
  <1>3. Max(S) \in S /\ \A x \in S : x <= Max(S)
    <2> HIDE DEF S
    <2> QED BY <1>2, GreatestNumber
  <1>4. Max(S) \in Int /\ -1 <= Max(S) /\ \A x \in kept : x.seq <= Max(S)
    BY <1>2, <1>3
  <1>5. NextSequence(kept) = 1 + Max(S)
    BY DEF NextSequence
  <1> QED BY <1>1, <1>4, <1>5

\* The list with some rules gone and others added, in its order.
LEMMA PatchedInOrder ==
    ASSUME NEW rs \in SUBSET Row, NEW l \in Lists, InOrder(rs, l), NEW gone,
           NEW places \in Seq(DOMAIN l), AreLeft(places, l, gone),
           NEW l2 \in Lists, Len(places) + Len(l2) <= MaxRules,
           NextSequence(Kept(rs, gone)) + Len(l2) <= MaxSequence + 1
    PROVE  InOrder(Kept(rs, gone) \cup Numbered(l2, NextSequence(Kept(rs, gone))),
                   [i \in DOMAIN places |-> l[places[i]]] \o l2)
  <1>1. PICK s : RowsAre(rs, l, s)
    BY DEF InOrder
  <1>2. PICK kept \in SUBSET Row : kept = Kept(rs, gone)
    BY DEF Kept
  <1>3. PICK nx \in Nat : nx = NextSequence(kept) /\ \A x \in kept : x.seq < nx
    BY <1>2, NextIsAfter
  <1>4. PICK n \in Nat : n = Len(places) /\ DOMAIN places = 1..n
    OBVIOUS
  <1>5. PICK m \in Nat : m = Len(l2) /\ DOMAIN l2 = 1..m /\ l2 \in Seq(Rules)
    BY ListFacts
  <1>6. PICK A \in Seq(Rules) : A = [i \in DOMAIN places |-> l[places[i]]] /\ Len(A) = n
    <2>1. \A i \in 1..n : places[i] \in DOMAIN l
      BY <1>4
    <2>2. \A i \in 1..n : l[places[i]] \in Rules
      BY <2>1, ListFacts
    <2>3. PICK A : A = [i \in DOMAIN places |-> l[places[i]]]
      OBVIOUS
    <2>4. A \in [1..n -> Rules]
      BY <1>4, <2>2, <2>3
    <2>5. A \in Seq(Rules) /\ Len(A) = n
      BY <2>4, SeqDef
    <2> QED BY <2>3, <2>5
  <1>7. PICK L : L = A \o l2 /\ L \in Seq(Rules) /\ Len(L) = n + m
            /\ \A i \in 1..n + m : L[i] = IF i <= n THEN A[i] ELSE l2[i - n]
    <2>1. PICK L : L = A \o l2
      OBVIOUS
    <2>2. /\ A \o l2 \in Seq(Rules) /\ Len(A \o l2) = Len(A) + Len(l2)
          /\ \A i \in 1..Len(A) + Len(l2) :
                (A \o l2)[i] = IF i <= Len(A) THEN A[i] ELSE l2[i - Len(A)]
      BY <1>5, ConcatProperties
    <2>3. Len(A) = n /\ Len(l2) = m
      BY <1>5, <1>6
    <2> QED BY <2>1, <2>2, <2>3
  <1>8. DOMAIN L = 1..n + m
    BY <1>7
  <1>9. PICK t : t = [j \in 1..n + m |-> IF j <= n THEN s[places[j]] ELSE nx + (j - n) - 1]
    OBVIOUS
  <1>10. /\ \A i \in DOMAIN l : s[i] \in 0..MaxSequence
         /\ \A i, j \in DOMAIN l : i < j => s[i] < s[j]
    BY <1>1 DEF RowsAre
  <1>11. \A j \in 1..n : places[j] \in DOMAIN l
    BY <1>4
  <1>12. kept = {[seq |-> s[places[j]], rule |-> l[places[j]]] : j \in 1..n}
    <2>1. Kept(rs, gone) = RowsAt(places, l, s)
      BY <1>1, KeptAtPlaces
    <2> QED BY <1>2, <1>4, <2>1 DEF RowsAt
  <1>13. \A j \in 1..n : s[places[j]] \in 0..MaxSequence /\ s[places[j]] < nx
    <2>1. ASSUME NEW j \in 1..n
          PROVE  s[places[j]] < nx
      <3>1. [seq |-> s[places[j]], rule |-> l[places[j]]] \in kept
        BY <1>12
      <3> QED BY <1>3, <3>1
    <2> QED BY <1>10, <1>11, <2>1
  <1>14. nx + m <= MaxSequence + 1 /\ MaxSequence \in Nat
    BY <1>2, <1>3, <1>5, RulesOK
  <1>15. t \in [1..n + m -> 0..MaxSequence]
    <2>1. ASSUME NEW j \in 1..n + m
          PROVE  t[j] \in 0..MaxSequence
      <3>1. CASE j <= n
        BY <1>9, <1>13, <3>1
      <3>2. CASE ~(j <= n)
        <4>1. t[j] = nx + (j - n) - 1
          BY <1>9, <3>2
        <4> QED BY <1>14, <3>2, <4>1
      <3> QED BY <3>1, <3>2
    <2> QED BY <1>9, <2>1
  <1>16. \A i, j \in 1..n + m : i < j => t[i] < t[j]
    <2>1. ASSUME NEW i \in 1..n + m, NEW j \in 1..n + m, i < j
          PROVE  t[i] < t[j]
      <3>1. CASE j <= n
        <4>1. i \in 1..n /\ j \in 1..n
          BY <2>1, <3>1
        <4>2. places[i] < places[j]
          BY <1>4, <2>1, <4>1 DEF AreLeft
        <4> QED BY <1>9, <1>10, <1>11, <2>1, <3>1, <4>1, <4>2
      <3>2. CASE i <= n /\ ~(j <= n)
        <4>1. t[i] = s[places[i]] /\ t[j] = nx + (j - n) - 1 /\ i \in 1..n
          BY <1>9, <3>2
        <4>2. t[i] < nx /\ t[i] \in Int
          BY SMTT(60), <1>13, <4>1
        <4>3. t[j] >= nx /\ t[j] \in Int
          BY SMTT(60), <3>2, <4>1
        <4> QED BY <4>2, <4>3
      <3>3. CASE ~(i <= n)
        <4>1. t[i] = nx + (i - n) - 1 /\ t[j] = nx + (j - n) - 1
          BY <1>9, <2>1, <3>3
        <4> QED BY <2>1, <4>1
      <3> QED BY <2>1, <3>1, <3>2, <3>3
    <2> QED BY <2>1
  <1>17. kept \cup Numbered(l2, nx) = {[seq |-> t[j], rule |-> L[j]] : j \in 1..n + m}
    <2>1. \A j \in 1..n : j \in 1..n + m /\ t[j] = s[places[j]] /\ L[j] = l[places[j]]
      BY <1>4, <1>6, <1>7, <1>9
    <2>2. \A i \in 1..m : i + n \in 1..n + m /\ t[i + n] = nx + i - 1 /\ L[i + n] = l2[i]
      <3>1. ASSUME NEW i \in 1..m
            PROVE  i + n \in 1..n + m /\ t[i + n] = nx + i - 1 /\ L[i + n] = l2[i]
        <4>1. i + n \in 1..n + m /\ ~(i + n <= n) /\ (i + n) - n = i
          OBVIOUS
        <4>2. L[i + n] = l2[i]
          BY <1>7, <4>1
        <4>3. t[i + n] = nx + ((i + n) - n) - 1
          BY <1>9, <4>1
        <4> QED BY <4>1, <4>2, <4>3
      <3> QED BY <3>1
    <2>3. \A j \in 1..n + m : j \in 1..n \/ (j - n \in 1..m /\ (j - n) + n = j)
      OBVIOUS
    <2>4. \A y : y \in kept <=> \E j \in 1..n : y = [seq |-> t[j], rule |-> L[j]]
      BY <1>12, <2>1
    <2>5. \A y : y \in Numbered(l2, nx)
                 <=> \E i \in 1..m : y = [seq |-> t[i + n], rule |-> L[i + n]]
      BY <1>5, <2>2 DEF Numbered
    <2>6. ASSUME NEW y, y \in kept \cup Numbered(l2, nx)
          PROVE  \E j \in 1..n + m : y = [seq |-> t[j], rule |-> L[j]]
      <3>1. CASE y \in kept
        BY <2>1, <2>4, <3>1
      <3>2. CASE y \in Numbered(l2, nx)
        <4>1. PICK i \in 1..m : y = [seq |-> t[i + n], rule |-> L[i + n]]
          BY <2>5, <3>2
        <4> QED BY <2>2, <4>1
      <3> QED BY <2>6, <3>1, <3>2
    <2>7. ASSUME NEW j \in 1..n + m
          PROVE  [seq |-> t[j], rule |-> L[j]] \in kept \cup Numbered(l2, nx)
      <3>1. CASE j \in 1..n
        BY <2>4, <3>1
      <3>2. CASE j - n \in 1..m /\ (j - n) + n = j
        <4>1. PICK i \in 1..m : i + n = j
          BY <3>2
        <4> QED BY <2>5, <4>1
      <3> QED BY <2>3, <3>1, <3>2
    <2> QED BY <2>6, <2>7
  <1>18. RowsAre(kept \cup Numbered(l2, nx), L, t)
    BY <1>8, <1>15, <1>16, <1>17 DEF RowsAre
  <1> QED BY <1>2, <1>3, <1>6, <1>7, <1>18 DEF InOrder

\* What an edit has read stands while nobody else may change it.
LEMMA RuleWorkTurn ==
    ASSUME ToolkitInv, db' = db, NEW w \in Workers, NEW r, Turns(w, r),
           Alone(w) \/ rows' = rows, RuleHeld(r)'
    PROVE  RuleWork'
  <1>1. ASSUME NEW v \in Workers
        PROVE  RuleHeld(tx[v])'
    <2>1. CASE v = w
      BY <2>1 DEF Turns, RuleHeld, Serial
    <2>2. CASE v # w
      <3>1. tx'[v] = tx[v] /\ RuleHeld(tx[v])
        BY <2>2 DEF Turns, ToolkitInv, RuleWork
      <3>2. Alone(w) => (Serial => ~tx[v].open)
        BY <2>2 DEF Alone
      <3> QED BY <3>1, <3>2 DEF RuleHeld, Serial
    <2> QED BY <2>1, <2>2
  <1> QED BY <1>1 DEF RuleWork

\* A request that is not an edit has read nothing.
LEMMA NothingRead ==
    ASSUME NEW q, q.op \notin {"edit", "bind"}
    PROVE  RuleHeld(q) /\ RuleHeld(q)'
  BY DEF RuleHeld

\* A step that leaves rows and lists alone.
LEMMA SameRows ==
    ASSUME ToolkitInv, ToolkitTypes', RuleWork', db' = db, UNCHANGED <<rows, listed>>
    PROVE  ToolkitInv'
  BY DEF ToolkitInv, Serial, InOrder, RowsAre

\* The short handlers: a toolkit, its key, its agents.
SmallStep(w) ==
    \/ \E cs \in SUBSET Credentials : CreateToolkit(w, cs)
    \/ \E state \in {"active", "inactive"} : UpdateToolkit(w, state)
    \/ \E state \in {"live", "revoked"} : UpdateKey(w, state)
    \/ CreateKey(w) \/ DeleteKey(w) \/ UnbindAgents(w) \/ BindAgent(w) \/ AbandonEdit(w)
    \/ \E c \in Credentials : UnbindCredential(w, c)

LEMMA SmallStepKeeps ==
    ASSUME ToolkitInv, DatabaseInv, db' = db, NEW w \in Workers, SmallStep(w)
    PROVE  ToolkitInv' /\ DatabaseInv' /\ Within(ToolkitOps)
  <1>1. /\ tx[w].op \in ToolkitOps \cup {"none"} /\ End(w)
        /\ UNCHANGED <<credentials, rows, listed>>
    BY DEF SmallStep, CreateToolkit, UpdateToolkit, UpdateKey, CreateKey, DeleteKey,
           UnbindAgents, BindAgent, AbandonEdit, UnbindCredential, Short, ToolkitOps, toolkits
  <1>2. ToolkitTypes'
    <2>1. /\ toolkit' \in {"none", "active", "inactive", "deleted"}
          /\ key' \in {"none", "live", "revoked"} /\ agents' \in BOOLEAN
          /\ bindings' \subseteq credentials /\ (toolkit' = "deleted" => bindings' = {})
      BY DEF SmallStep, CreateToolkit, UpdateToolkit, UpdateKey, CreateKey, DeleteKey,
             UnbindAgents, BindAgent, AbandonEdit, UnbindCredential, ToolkitInv, ToolkitTypes,
             Exists, toolkits
    <2> QED BY <1>1, <2>1 DEF ToolkitInv, ToolkitTypes
  <1>3. Turns(w, NoRequest)
    BY <1>1, EndTurns DEF DatabaseInv
  <1>4. RuleWork'
    BY <1>1, <1>3, RuleWorkTurn, NothingRead, NoRequestFields
  <1> QED BY <1>1, <1>2, <1>3, <1>4, SameRows, EndKeepsDatabase, EndWithin

\* An edit or a binding begins with what it reads.
LEMMA BeginEditKeeps ==
    ASSUME ToolkitInv, DatabaseInv, db' = db, NEW w \in Workers, NEW c \in Credentials,
           BeginEdit(w, c) \/ BeginBind(w, c)
    PROVE  ToolkitInv' /\ DatabaseInv' /\ Within(ToolkitOps)
  <1>1. PICK op \in {"edit", "bind"} : Begin(w, op, c, {}, rows[c]) /\ UNCHANGED toolkits
    BY DEF BeginEdit, BeginBind
  <1>2. tx[w].op = "none" /\ MayBegin /\ Turns(w, Request(op, c, {}, rows[c], 0, TRUE))
    BY <1>1, BeginTurns DEF DatabaseInv
  <1>3. PICK r : r = Request(op, c, {}, rows[c], 0, TRUE)
    OBVIOUS
  <1>4. r.op = op /\ r.on = c /\ r.seen = rows[c] /\ r.open = TRUE
    BY <1>3 DEF Request
  <1>5. rows[c] \subseteq Row
    BY DEF ToolkitInv, ToolkitTypes
  <1>6. RuleHeld(r)'
    BY <1>1, <1>4, <1>5 DEF RuleHeld, toolkits, Serial
  <1>7. RuleWork'
    BY <1>1, <1>2, <1>3, <1>6, RuleWorkTurn DEF toolkits
  <1>8. ToolkitTypes'
    BY <1>1 DEF toolkits, ToolkitInv, ToolkitTypes
  <1>9. DatabaseInv'
    BY <1>2, TurnKeepsDatabase
  <1>10. Within(ToolkitOps)
    BY <1>1, <1>2, RequestWithin DEF ToolkitOps
  <1> QED BY <1>1, <1>7, <1>8, <1>9, <1>10, SameRows DEF toolkits

\* The rows and lists of one credential change while nobody else is at work.
LEMMA OneListChanges ==
    ASSUME ToolkitInv, ToolkitTypes', RuleWork', db' = db, NEW c \in Credentials,
           \A d \in Credentials \ {c} : rows'[d] = rows[d] /\ listed'[d] = listed[d],
           Serial => InOrder(rows'[c], listed'[c])
    PROVE  ToolkitInv'
  <1>1. ASSUME Serial', NEW d \in Credentials
        PROVE  InOrder(rows'[d], listed'[d])
    <2>1. Serial
      BY <1>1 DEF Serial
    <2>2. CASE d = c
      BY <2>1, <2>2
    <2>3. CASE d # c
      <3>1. InOrder(rows[d], listed[d])
        BY <2>1 DEF ToolkitInv
      <3> QED BY <2>3, <3>1
    <2> QED BY <2>2, <2>3
  <1>2. Serial' => \A d \in Credentials : InOrder(rows[d], listed[d])'
    BY <1>1 DEF InOrder, RowsAre
  <1> QED BY <1>2 DEF ToolkitInv

LEMMA RemoveCredentialKeeps ==
    ASSUME ToolkitInv, DatabaseInv, db' = db, NEW w \in Workers, NEW c \in Credentials,
           RemoveCredential(w, c)
    PROVE  ToolkitInv' /\ DatabaseInv' /\ Within(ToolkitOps)
  <1>1. tx[w].op = "none" /\ MayBegin /\ Turns(w, NoRequest)
    BY ShortTurns DEF RemoveCredential, DatabaseInv
  <1>2. RuleWork'
    BY <1>1, RuleWorkTurn, NothingRead, NoRequestFields, BeginnerAlone
  <1>3. rows' = [rows EXCEPT ![c] = {}] /\ listed' = [listed EXCEPT ![c] = <<>>]
    BY DEF RemoveCredential
  <1>4. ToolkitTypes'
    BY <1>3, EmptyInOrder DEF RemoveCredential, ToolkitInv, ToolkitTypes
  <1>5. InOrder(rows'[c], listed'[c])
    BY <1>3, EmptyInOrder DEF ToolkitInv, ToolkitTypes
  <1>6. \A d \in Credentials \ {c} : rows'[d] = rows[d] /\ listed'[d] = listed[d]
    BY <1>3
  <1>7. ToolkitInv'
    BY <1>2, <1>4, <1>5, <1>6, OneListChanges
  <1> QED BY <1>1, <1>7, EndKeepsDatabase, EndWithin

LEMMA DeleteToolkitKeeps ==
    ASSUME ToolkitInv, DatabaseInv, db' = db, NEW w \in Workers, DeleteToolkit(w)
    PROVE  ToolkitInv' /\ DatabaseInv' /\ Within(ToolkitOps)
  <1>1. tx[w].op = "none" /\ MayBegin
        /\ Turns(w, Request("unbind_agents", 0, {}, {}, 0, FALSE))
    BY LookTurns DEF DeleteToolkit, DatabaseInv
  <1>2. PICK r : r = Request("unbind_agents", 0, {}, {}, 0, FALSE)
    OBVIOUS
  <1>3. r.op = "unbind_agents"
    BY <1>2 DEF Request
  <1>4. RuleWork'
    BY <1>1, <1>2, <1>3, RuleWorkTurn, NothingRead, BeginnerAlone
  <1>5. rows' = [c \in Credentials |-> {}] /\ listed' = [c \in Credentials |-> <<>>]
    BY DEF DeleteToolkit
  <1>6. ToolkitTypes'
    BY <1>5, EmptyInOrder DEF DeleteToolkit, ToolkitInv, ToolkitTypes
  <1>7. \A c \in Credentials : InOrder(rows[c], listed[c])'
    <2>1. \A c \in Credentials : rows'[c] = {} /\ listed'[c] = <<>>
      BY <1>5
    <2>2. \A c \in Credentials : InOrder(rows'[c], listed'[c])
      BY <2>1, EmptyInOrder
    <2> QED BY <2>2 DEF InOrder, RowsAre
  <1>8. DatabaseInv'
    BY <1>1, TurnKeepsDatabase
  <1>9. Within(ToolkitOps)
    BY <1>1, RequestWithin DEF ToolkitOps
  <1> QED BY <1>4, <1>6, <1>7, <1>8, <1>9 DEF ToolkitInv

\* An edit ends: it replaced the rows it saw by some of them and the rows of a list.
LEMMA WrittenKeeps ==
    ASSUME ToolkitInv, DatabaseInv, db' = db, NEW w \in Workers, tx[w].op \in {"edit", "bind"},
           End(w), NEW kept \in SUBSET tx[w].seen, NEW l \in Lists, NEW first \in Nat,
           first + Len(l) <= MaxSequence + 1, Write(w, kept, Numbered(l, first)),
           NEW new \in Lists, listed' = [listed EXCEPT ![tx[w].on] = new],
           Serial => InOrder(kept \cup Numbered(l, first), new),
           UNCHANGED <<toolkit, key, agents, credentials>>,
           bindings' \subseteq credentials, toolkit # "deleted"
    PROVE  ToolkitInv' /\ DatabaseInv' /\ Within(ToolkitOps)
  <1>1. PICK c \in Credentials : c = tx[w].on /\ tx[w].open /\ tx[w].seen \subseteq Row
            /\ (Serial => tx[w].seen = rows[c])
    BY DEF ToolkitInv, RuleWork, RuleHeld
  <1>2. Turns(w, NoRequest) /\ Alone(w)
    BY <1>1, EndTurns, HolderAlone DEF DatabaseInv
  <1>3. RuleWork'
    BY <1>2, RuleWorkTurn, NothingRead, NoRequestFields
  <1>4. /\ Numbered(l, first) \subseteq Row /\ kept \subseteq Row
        /\ rows \in [Credentials -> SUBSET Row] /\ listed \in [Credentials -> Lists]
    BY <1>1, NumberedRows DEF ToolkitInv, ToolkitTypes
  <1>5. rows' = [rows EXCEPT ![c] = (rows[c] \ (tx[w].seen \ kept)) \cup Numbered(l, first)]
    BY <1>1 DEF Write
  <1>6. rows' \in [Credentials -> SUBSET Row] /\ listed' \in [Credentials -> Lists]
    <2>1. rows[c] \in SUBSET Row
      BY <1>4
    <2>2. (rows[c] \ (tx[w].seen \ kept)) \cup Numbered(l, first) \in SUBSET Row
      BY <1>4, <2>1
    <2> HIDE DEF Row, Lists
    <2> QED BY <1>1, <1>4, <1>5, <2>2
  <1>7. ToolkitTypes'
    BY <1>6 DEF ToolkitInv, ToolkitTypes
  <1>8. \A d \in Credentials \ {c} : rows'[d] = rows[d] /\ listed'[d] = listed[d]
    BY <1>1, <1>4, <1>5
  <1>9. Serial => InOrder(rows'[c], listed'[c])
    <2>1. ASSUME Serial
          PROVE  InOrder(rows'[c], listed'[c])
      <3>1. rows'[c] = (rows[c] \ (rows[c] \ kept)) \cup Numbered(l, first) /\ kept \subseteq rows[c]
        BY <1>1, <1>4, <1>5, <2>1
      <3>2. rows'[c] = kept \cup Numbered(l, first) /\ listed'[c] = new
        BY <1>1, <1>4, <3>1
      <3> QED BY <2>1, <3>2
    <2> QED BY <2>1
  <1>10. ToolkitInv'
    BY <1>3, <1>7, <1>8, <1>9, OneListChanges
  <1>11. Within(ToolkitOps)
    BY <1>2, EndWithin DEF ToolkitOps
  <1> QED BY <1>2, <1>10, <1>11, EndKeepsDatabase

LEMMA CommitReplaceKeeps ==
    ASSUME ToolkitInv, DatabaseInv, db' = db, NEW w \in Workers, NEW l \in Lists,
           CommitReplace(w, l)
    PROVE  ToolkitInv' /\ DatabaseInv' /\ Within(ToolkitOps)
  <1>1. /\ tx[w].op = "edit" /\ Exists /\ End(w) /\ Write(w, {}, Numbered(l, 0))
        /\ listed' = [listed EXCEPT ![tx[w].on] = l]
        /\ UNCHANGED <<toolkit, key, agents, credentials, bindings>>
    BY DEF CommitReplace
  <1>2. {} \cup Numbered(l, 0) = Numbered(l, 0)
    OBVIOUS
  <1>3. InOrder({} \cup Numbered(l, 0), l)
    BY <1>2, NumberedInOrder
  <1>4. 0 + Len(l) <= MaxSequence + 1
    BY ListFacts, RulesOK
  <1>5. bindings' \subseteq credentials /\ toolkit # "deleted"
    BY <1>1 DEF Exists, ToolkitInv, ToolkitTypes
  <1>6. {} \in SUBSET tx[w].seen /\ 0 \in Nat /\ tx[w].op \in {"edit", "bind"}
    BY <1>1
  <1> QED BY <1>1, <1>3, <1>4, <1>5, <1>6, WrittenKeeps

LEMMA CommitBindKeeps ==
    ASSUME ToolkitInv, DatabaseInv, db' = db, NEW w \in Workers, NEW l \in Lists,
           CommitBind(w, l)
    PROVE  ToolkitInv' /\ DatabaseInv' /\ Within(ToolkitOps)
  <1>1. /\ tx[w].op = "bind" /\ Exists /\ End(w) /\ tx[w].on \in credentials
        /\ bindings' = bindings \cup {tx[w].on}
        /\ UNCHANGED <<toolkit, key, agents, credentials>>
    BY DEF CommitBind
  <1>2. bindings' \subseteq credentials /\ toolkit # "deleted"
    BY <1>1 DEF Exists, ToolkitInv, ToolkitTypes
  <1>3. CASE l = <<>>
    <2>1. UNCHANGED <<rows, listed>>
      BY <1>3 DEF CommitBind
    <2>2. ToolkitTypes'
      BY <1>1, <1>2, <2>1 DEF ToolkitInv, ToolkitTypes
    <2>3. Turns(w, NoRequest)
      BY <1>1, EndTurns DEF DatabaseInv
    <2>4. RuleWork'
      BY <2>1, <2>3, RuleWorkTurn, NothingRead, NoRequestFields
    <2>5. Within(ToolkitOps)
      BY <1>1, <2>3, EndWithin DEF ToolkitOps
    <2> QED BY <2>1, <2>2, <2>3, <2>4, <2>5, SameRows, EndKeepsDatabase
  <1>4. CASE l # <<>>
    <2>1. Write(w, {}, Numbered(l, 0)) /\ listed' = [listed EXCEPT ![tx[w].on] = l]
      BY <1>4 DEF CommitBind
    <2>2. {} \cup Numbered(l, 0) = Numbered(l, 0)
      OBVIOUS
    <2>3. InOrder({} \cup Numbered(l, 0), l)
      BY <2>2, NumberedInOrder
    <2>4. 0 + Len(l) <= MaxSequence + 1
      BY ListFacts, RulesOK
    <2>5. {} \in SUBSET tx[w].seen /\ 0 \in Nat /\ tx[w].op \in {"edit", "bind"}
      BY <1>1
    <2> QED BY <1>1, <1>2, <2>1, <2>3, <2>4, <2>5, WrittenKeeps
  <1> QED BY <1>3, <1>4

LEMMA CommitPatchKeeps ==
    ASSUME ToolkitInv, DatabaseInv, db' = db, NEW w \in Workers, NEW l \in Lists, NEW gone,
           CommitPatch(w, gone, l)
    PROVE  ToolkitInv' /\ DatabaseInv' /\ Within(ToolkitOps)
  <1>1. PICK c : c = tx[w].on
    OBVIOUS
  <1>2. PICK k : k = Kept(tx[w].seen, gone)
    OBVIOUS
  <1>3. /\ tx[w].op = "edit" /\ Exists /\ c \in credentials
        /\ NextSequence(k) + Len(l) <= MaxSequence + 1
        /\ End(w) /\ Write(w, k, Numbered(l, NextSequence(k)))
        /\ UNCHANGED <<toolkit, key, agents, credentials, bindings>>
    BY <1>1, <1>2 DEF CommitPatch
  <1>4. PICK places \in BoundedSeq(DOMAIN listed[c], MaxRules) :
            /\ AreLeft(places, listed[c], gone) /\ Len(places) + Len(l) <= MaxRules
            /\ listed' = [listed EXCEPT ![c] = [i \in DOMAIN places |-> listed[c][places[i]]] \o l]
    BY <1>1, <1>2 DEF CommitPatch
  <1>5. c \in Credentials /\ tx[w].seen \subseteq Row /\ (Serial => tx[w].seen = rows[c])
    BY <1>1, <1>3 DEF ToolkitInv, RuleWork, RuleHeld
  <1>6. k \subseteq tx[w].seen /\ k \in SUBSET Row
    BY <1>2, <1>5 DEF Kept
  <1>7. NextSequence(k) \in Nat
    BY <1>6, NextIsAfter
  <1>8. listed[c] \in Lists
    BY <1>5 DEF ToolkitInv, ToolkitTypes
  <1>9. places \in Seq(DOMAIN listed[c]) /\ Len(places) \in Nat /\ DOMAIN places = 1..Len(places)
    <2>1. PICK n \in 0..MaxRules : places \in [1..n -> DOMAIN listed[c]]
      BY <1>4 DEF BoundedSeq, SeqOf
    <2>2. n \in Nat
      BY <2>1, RulesOK
    <2>3. places \in Seq(DOMAIN listed[c])
      BY <2>1, <2>2, SeqDef
    <2>4. Len(places) = n
      BY <2>1, <2>2, <2>3
    <2> QED BY <2>1, <2>2, <2>3, <2>4
  <1>10. PICK new : new = [i \in DOMAIN places |-> listed[c][places[i]]] \o l
    OBVIOUS
  <1>11. new \in Lists
    <2>1. PICK A : A = [i \in DOMAIN places |-> listed[c][places[i]]]
      OBVIOUS
    <2>2. \A i \in 1..Len(places) : places[i] \in DOMAIN listed[c]
      BY <1>9
    <2>3. \A i \in 1..Len(places) : listed[c][places[i]] \in Rules
      BY <1>8, <2>2, ListFacts
    <2>4. A \in [1..Len(places) -> Rules]
      BY <1>9, <2>1, <2>3
    <2>5. A \in Seq(Rules)
      BY <1>9, <2>4, SeqDef
    <2>6. Len(A) = Len(places)
      BY <1>9, <2>4, <2>5
    <2>7. l \in Seq(Rules) /\ Len(l) \in Nat
      BY ListFacts
    <2>8. A \o l \in Seq(Rules) /\ Len(A \o l) = Len(A) + Len(l)
      BY <2>5, <2>7, ConcatProperties
    <2> QED BY <1>4, <1>10, <2>1, <2>6, <2>8, ListIs
  <1>12. Serial => InOrder(k \cup Numbered(l, NextSequence(k)), new)
    <2>1. ASSUME Serial
          PROVE  InOrder(k \cup Numbered(l, NextSequence(k)), new)
      <3>1. InOrder(rows[c], listed[c]) /\ k = Kept(rows[c], gone) /\ rows[c] \in SUBSET Row
        BY <1>2, <1>5, <2>1 DEF ToolkitInv
      <3> QED BY <1>3, <1>4, <1>8, <1>9, <1>10, <3>1, PatchedInOrder
    <2> QED BY <2>1
  <1>13. bindings' \subseteq credentials /\ toolkit # "deleted"
    BY <1>3 DEF Exists, ToolkitInv, ToolkitTypes
  <1>14. listed' = [listed EXCEPT ![tx[w].on] = new] /\ tx[w].op \in {"edit", "bind"}
    BY <1>1, <1>3, <1>4, <1>10
  <1> QED BY <1>3, <1>6, <1>7, <1>11, <1>12, <1>13, <1>14, WrittenKeeps

\* A step of the toolkits keeps their invariant and the database's.
LEMMA ToolkitPartKeeps ==
    ASSUME ToolkitInv, DatabaseInv, db' = db, ToolkitPart
    PROVE  ToolkitInv' /\ DatabaseInv' /\ Within(ToolkitOps)
  <1>1. PICK w \in Workers : ToolkitStep(w)
    BY DEF ToolkitPart
  <1>2. CASE SmallStep(w)
    BY <1>2, SmallStepKeeps
  <1>3. CASE \E c \in Credentials : RemoveCredential(w, c)
    BY <1>3, RemoveCredentialKeeps
  <1>4. CASE \E c \in Credentials : BeginEdit(w, c) \/ BeginBind(w, c)
    BY <1>4, BeginEditKeeps
  <1>5. CASE DeleteToolkit(w)
    BY <1>5, DeleteToolkitKeeps
  <1>6. CASE \E l \in Lists : CommitBind(w, l) \/ CommitReplace(w, l)
    BY <1>6, CommitBindKeeps, CommitReplaceKeeps
  <1>7. CASE \E l \in Lists, gone \in SUBSET (1..MaxRules) : CommitPatch(w, gone, l)
    BY <1>7, CommitPatchKeeps
  <1>8. \/ SmallStep(w) \/ DeleteToolkit(w)
        \/ \E c \in Credentials : RemoveCredential(w, c)
        \/ \E c \in Credentials : BeginEdit(w, c) \/ BeginBind(w, c)
        \/ \E l \in Lists : CommitBind(w, l) \/ CommitReplace(w, l)
        \/ \E l \in Lists, gone \in SUBSET (1..MaxRules) : CommitPatch(w, gone, l)
    BY <1>1 DEF ToolkitStep, SmallStep
  <1> QED BY <1>2, <1>3, <1>4, <1>5, <1>6, <1>7, <1>8

LEMMA ToolkitElsewhere ==
    ASSUME ToolkitInv, db' = db, UNCHANGED toolkits,
           \A v \in Workers : tx[v].op \in ToolkitOps \/ tx'[v].op \in ToolkitOps => tx'[v] = tx[v]
    PROVE  ToolkitInv'
  <1>1. ASSUME NEW v \in Workers
        PROVE  RuleHeld(tx[v])'
    <2>1. CASE tx'[v].op \in {"edit", "bind"}
      <3>1. RuleHeld(tx[v]) /\ tx'[v] = tx[v]
        BY <2>1 DEF ToolkitInv, RuleWork, ToolkitOps
      <3> QED BY <3>1 DEF RuleHeld, Serial, toolkits
    <2>2. CASE tx'[v].op \notin {"edit", "bind"}
      BY <2>2 DEF RuleHeld
    <2> QED BY <2>1, <2>2
  <1>2. RuleWork'
    BY <1>1 DEF RuleWork
  <1>3. ToolkitTypes'
    BY DEF ToolkitInv, ToolkitTypes, toolkits
  <1> QED BY <1>2, <1>3, SameRows DEF toolkits

LEMMA ToolkitStarts ==
    ASSUME DatabaseInit, ToolkitsInit
    PROVE  ToolkitInv
  <1>1. RuleWork
    BY NoRequestFields DEF DatabaseInit, RuleWork, RuleHeld
  <1>2. ToolkitTypes
    BY EmptyInOrder DEF ToolkitsInit, ToolkitTypes
  <1>3. \A c \in Credentials : InOrder(rows[c], listed[c])
    <2>1. \A c \in Credentials : rows[c] = {} /\ listed[c] = <<>>
      BY DEF ToolkitsInit
    <2> QED BY <2>1, EmptyInOrder
  <1> QED BY <1>1, <1>2, <1>3 DEF ToolkitInv

\* The broker finds the effect of the first rule of the list that applies, and no other.
FirstFound(l, r) ==
    \/ (\A i \in DOMAIN l : ~Applies(l[i], r)) /\ FirstEffects(r) = {}
    \/ \E i \in DOMAIN l :
          /\ Applies(l[i], r) /\ \A j \in 1..i - 1 : ~Applies(l[j], r)
          /\ FirstEffects(r) = {l[i].effect}

LEMMA FirstIsFound ==
    ASSUME NEW l \in Lists, InOrder(BrokerRows, l), NEW r
    PROVE  FirstFound(l, r)
  <1>1. PICK s : RowsAre(BrokerRows, l, s)
    BY DEF InOrder
  <1> DEFINE row(i) == [seq |-> s[i], rule |-> l[i]]
             matching == {x \in BrokerRows : Applies(x.rule, r)}
             first == {x \in matching : \A y \in matching : x.seq <= y.seq}
             M == {i \in DOMAIN l : Applies(l[i], r)}
  <1>2. DOMAIN l \subseteq Nat /\ DOMAIN l = 1..Len(l) /\ Len(l) \in Nat
    BY ListFacts
  <1>3. /\ \A i \in DOMAIN l : s[i] \in Int
        /\ \A i, j \in DOMAIN l : i < j => s[i] < s[j]
    BY <1>1, RulesOK DEF RowsAre
  <1>4. \A x : x \in matching <=> \E i \in M : x = row(i)
    BY <1>1 DEF RowsAre
  <1>5. FirstEffects(r) = {x.rule.effect : x \in first}
    BY DEF FirstEffects
  <1>6. CASE M = {}
    <2>1. first = {}
      BY <1>4, <1>6
    <2>2. FirstEffects(r) = {}
      BY <1>5, <2>1
    <2> QED BY <1>6, <2>2 DEF FirstFound
  <1>7. CASE M # {}
    <2>1. M \in SUBSET Nat
      BY <1>2
    <2>2. PICK i \in M : \A j \in M : i <= j
      <3> HIDE DEF M
      <3> QED BY <1>7, <2>1, LeastNumber
    <2>3. \A j \in M : j # i => s[i] < s[j]
      BY <1>2, <1>3, <2>2
    <2>4. row(i) \in matching
      BY <1>4
    <2>5. \A x : x \in first <=> x = row(i)
      <3>1. \A j \in M : row(j).seq = s[j] /\ s[j] \in Int
        BY <1>3
      <3>2. ASSUME NEW x \in first
            PROVE  x = row(i)
        <4>1. PICK j \in M : x = row(j)
          BY <1>4
        <4>2. s[j] <= s[i]
          BY <2>4, <3>1, <4>1
        <4>3. j = i
          BY <2>3, <3>1, <4>2
        <4> QED BY <4>1, <4>3
      <3>3. row(i) \in first
        <4>1. ASSUME NEW y \in matching
              PROVE  row(i).seq <= y.seq
          <5>1. PICK j \in M : y = row(j)
            BY <1>4
          <5> QED BY <2>3, <3>1, <5>1
        <4> QED BY <2>4, <4>1
      <3> QED BY <3>2, <3>3
    <2>6. FirstEffects(r) = {l[i].effect}
      <3>1. row(i).rule.effect = l[i].effect
        OBVIOUS
      <3> HIDE DEF first, row
      <3> QED BY <1>5, <2>5, <3>1
    <2>7. \A j \in 1..i - 1 : ~Applies(l[j], r)
      <3>1. ASSUME NEW j \in 1..i - 1, Applies(l[j], r)
            PROVE  FALSE
        <4>1. j \in M /\ j < i
          BY <1>2, <3>1
        <4> QED BY <1>2, <2>2, <4>1
      <3> QED BY <3>1
    <2> QED BY <2>6, <2>7 DEF FirstFound
  <1> QED BY <1>6, <1>7

LEMMA FirstDecides ==
    ASSUME NEW l \in Lists, NEW r, FirstFound(l, r)
    PROVE  /\ "allow" \in FirstEffects(r) <=> ListAllows(l, r)
           /\ "allow" \in FirstEffects(r) <=> FirstEffects(r) = {"allow"}
  <1>1. DOMAIN l \subseteq Nat /\ DOMAIN l = 1..Len(l) /\ Len(l) \in Nat
    BY ListFacts
  <1>2. CASE (\A i \in DOMAIN l : ~Applies(l[i], r)) /\ FirstEffects(r) = {}
    BY <1>2 DEF ListAllows
  <1>3. CASE \E i \in DOMAIN l :
                /\ Applies(l[i], r) /\ \A j \in 1..i - 1 : ~Applies(l[j], r)
                /\ FirstEffects(r) = {l[i].effect}
    <2>1. PICK i \in DOMAIN l :
                /\ Applies(l[i], r) /\ \A j \in 1..i - 1 : ~Applies(l[j], r)
                /\ FirstEffects(r) = {l[i].effect}
      BY <1>3
    <2>2. ASSUME NEW k \in DOMAIN l, Applies(l[k], r), \A j \in 1..k - 1 : ~Applies(l[j], r)
          PROVE  k = i
      <3>1. ~(i \in 1..k - 1) /\ ~(k \in 1..i - 1)
        BY <2>1, <2>2
      <3> QED BY <1>1, <3>1
    <2>3. ListAllows(l, r) <=> l[i].effect = "allow"
      BY <2>1, <2>2 DEF ListAllows
    <2> QED BY <2>1, <2>3
  <1> QED BY <1>2, <1>3 DEF FirstFound

LEMMA ToolkitGives ==
    ASSUME ToolkitInv
    PROVE  ToolkitsTypeOK /\ DecisionAsListed
  <1>1. ToolkitsTypeOK
    BY DEF ToolkitInv, ToolkitTypes, ToolkitsTypeOK, Row
  <1>2. ASSUME Serial, NEW caller \in {"key", "agent"}, NEW r \in Requests
        PROVE  /\ toolkit = "deleted" => ~Permitted(caller, r)
               /\ \A c \in bindings : bindings = {c} /\ Selects(caller) =>
                     /\ Permitted(caller, r) <=> ListAllows(listed[c], r)
                     /\ Permitted(caller, r) <=> ~Denied(caller, r)
    <2>1. toolkit = "deleted" => ~Permitted(caller, r)
      BY DEF ToolkitInv, ToolkitTypes, Permitted, Selects, KeyActs, AgentActs
    <2>2. ASSUME NEW c \in bindings, bindings = {c}, Selects(caller)
          PROVE  /\ Permitted(caller, r) <=> ListAllows(listed[c], r)
                 /\ Permitted(caller, r) <=> ~Denied(caller, r)
      <3>1. BrokerRows = rows[c]
        BY <2>2 DEF BrokerRows
      <3>2. c \in Credentials /\ listed[c] \in Lists /\ InOrder(rows[c], listed[c])
        BY <1>2 DEF ToolkitInv, ToolkitTypes
      <3>3. /\ "allow" \in FirstEffects(r) <=> ListAllows(listed[c], r)
            /\ "allow" \in FirstEffects(r) <=> FirstEffects(r) = {"allow"}
        BY <3>1, <3>2, FirstIsFound, FirstDecides
      <3> QED BY <2>2, <3>3 DEF Permitted, Denied
    <2> QED BY <2>1, <2>2
  <1>3. DecisionAsListed
    BY <1>2 DEF DecisionAsListed
  <1> QED BY <1>1, <1>3
=============================================================================
