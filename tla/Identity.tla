------------------------------ MODULE Identity ------------------------------
(***************************************************************************)
(* Actors, their tokens, and users together, over one admin database:      *)
(* their requests are served by the same workers and wait for the same     *)
(* write lock where the database is SQLite.                                *)
(***************************************************************************)
EXTENDS Tokens, Users

vars == <<db, tx, actors, tokens, users>>

Init == DatabaseInit /\ ActorsInit /\ TokensInit /\ UsersInit

ActorPart == UNCHANGED <<db, tokens, users>> /\ \E w \in Workers : ActorStep(w)

TokenPart == UNCHANGED <<db, users>> /\ (Environment \/ \E w \in Workers : TokenStep(w))

UserPart ==
    /\ UNCHANGED <<db, actors, tokens>>
    /\ UsersClock \/ \E w \in Workers : UserStep(w)

\* A check, the database or the connection fails.
Failure == (\E w \in Workers : Rollback(w)) /\ UNCHANGED <<db, actors, tokens, users>>

Next == ActorPart \/ TokenPart \/ UserPart \/ Failure

Spec == Init /\ [][Next]_vars

\* Every variable has its type, and on SQLite at most one transaction is open.
TypeOK ==
    /\ ActorsTypeOK /\ TokensTypeOK /\ UsersTypeOK
    /\ Serial => \A v, w \in Workers : tx[v].open /\ tx[w].open => v = w
=============================================================================
