------------------------------ MODULE Records ------------------------------
(***************************************************************************)
(* What people keep with the system, each in its own database: revisions   *)
(* of APIs and notes in the registry's, toolkits in the control plane's,   *)
(* events in the admin's.  db and tx stand for the database of each part.  *)
(***************************************************************************)
EXTENDS Revisions, Toolkits, Notes, EventStream

records == <<revisions, toolkits, notes, eventStream>>

RecordsInit == RevisionsInit /\ ToolkitsInit /\ NotesInit /\ EventStreamInit

RegistryPart ==
    /\ UNCHANGED <<toolkits, notes, eventStream>>
    /\ \E w \in Workers : RegistryStep(w)

ToolkitPart ==
    /\ UNCHANGED <<revisions, notes, eventStream>>
    /\ \E w \in Workers : ToolkitStep(w)

NotePart ==
    /\ UNCHANGED <<revisions, toolkits, eventStream>>
    /\ \E w \in Workers : NoteStep(w)

EventPart == UNCHANGED <<revisions, toolkits, notes>> /\ EventNext

RecordsTypeOK == RevisionsTypeOK /\ ToolkitsTypeOK /\ NotesTypeOK /\ EventStreamTypeOK
=============================================================================
