------------------------------- MODULE Notes -------------------------------
(***************************************************************************)
(* Notes on the registry's resources: their author reads one with its      *)
(* revision as the ETag, edits the text and writes it back, with If-Match  *)
(* or without.  A text is the set of the edits it contains.                *)
(***************************************************************************)
EXTENDS Database

CONSTANTS
    NoteIds,  \* notes, deleted for good
    MaxEdits  \* bound: edits of one note

ASSUME NotesOK == MaxEdits \in Nat \ {0}

VARIABLES
    note,   \* [state, text, revision]
    edits,  \* history: edits made so far
    lost    \* history: edits that a conditional request removed unread

notes == <<note, edits, lost>>

\* A change or a deletion: its note read by the author, then by the handler.
NoteOps == {"change", "drop", "update", "remove"}

NotesInit ==
    /\ note = [i \in NoteIds |-> [state |-> "none", text |-> {}, revision |-> 0]]
    /\ edits = [i \in NoteIds |-> 0]
    /\ lost = {}

Stored(i) == note[i].state = "stored"

CreateNote(w, i) ==
    /\ Short(w, "none") /\ note[i].state = "none"
    /\ note' = [note EXCEPT ![i] = [state |-> "stored", text |-> {1}, revision |-> 1]]
    /\ edits' = [edits EXCEPT ![i] = 1]
    /\ UNCHANGED lost

\* The author reads the note and may send its revision back, as If-Match: n, or nothing: 0.
ReadNote(w, i, op, n) ==
    /\ Stored(i) /\ n \in {0, note[i].revision} /\ edits[i] < MaxEdits
    /\ Look(w, op, i, note[i].text, n)
    /\ UNCHANGED notes

\* The transaction reads the row; a condition that does not hold is refused (412).
BeginNote(w, op, next) ==
    /\ tx[w].op = op /\ Stored(tx[w].on) /\ tx[w].n \in {0, note[tx[w].on].revision}
    /\ Open(w, op, next, {note[tx[w].on].revision})
    /\ UNCHANGED notes

\* What the note has and the author had not read.
Unread(w) == IF tx[w].n = 0 THEN {} ELSE {<<tx[w].on, x>> : x \in note[tx[w].on].text \ tx[w].by}

\* Wrong variant: the revision stays.
Unrevised(r) == r

\* update_fields writes one more than the revision it read.
Revised(r) == r + 1

UpdateNote(w) ==
    LET i == tx[w].on  e == edits[i] + 1 IN
    /\ tx[w].op = "update" /\ Stored(i) /\ e <= MaxEdits
    /\ note' = [note EXCEPT ![i].text = tx[w].by \cup {e},
                            ![i].revision = Revised(CHOOSE r \in tx[w].seen : TRUE)]
    /\ edits' = [edits EXCEPT ![i] = e]
    /\ lost' = lost \cup Unread(w)
    /\ End(w)

DeleteNote(w) ==
    /\ tx[w].op = "remove" /\ Stored(tx[w].on)
    /\ note' = [note EXCEPT ![tx[w].on].state = "deleted"]
    /\ lost' = lost \cup Unread(w)
    /\ End(w)
    /\ UNCHANGED edits

\* The condition fails, the note is gone, or the database or the author is.
AbandonNote(w) == tx[w].op \in NoteOps /\ End(w) /\ UNCHANGED notes

NoteStep(w) ==
    \/ \E i \in NoteIds :
          \/ CreateNote(w, i)
          \/ \E op \in {"change", "drop"}, n \in 0..MaxEdits : ReadNote(w, i, op, n)
    \/ BeginNote(w, "change", "update") \/ BeginNote(w, "drop", "remove")
    \/ UpdateNote(w) \/ DeleteNote(w) \/ AbandonNote(w)

NotesTypeOK ==
    /\ note \in [NoteIds -> [state : {"none", "stored", "deleted"}, text : SUBSET (1..MaxEdits),
                             revision : 0..MaxEdits]]
    /\ edits \in [NoteIds -> 0..MaxEdits]
    /\ lost \subseteq NoteIds \X (1..MaxEdits)

\* Where transactions are serial, a request with If-Match never overwrites or deletes an
\* edit its author had not read, whatever other requests came in between
\* (NoteService.update, NoteService.delete, NoteRepository.update_fields).
NoEditLost == Serial => lost = {}
=============================================================================
