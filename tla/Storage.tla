------------------------------- MODULE Storage -------------------------------
(***************************************************************************)
(* What lies under the records: the schema of each database, which         *)
(* migrations bring from revision to revision, the sessions the services   *)
(* write in, the lists that clients page through while rows come and go,   *)
(* and the cached catalogue.                                               *)
(***************************************************************************)
EXTENDS Listings, SchemaMigrations, Catalogue, Sessions

vars == <<db, tx, listings, migrating, catalogue, sessions>>

Init == DatabaseInit /\ ListingsInit /\ MigrationsInit /\ CatalogueInit /\ SessionsInit

ListingPart == UNCHANGED <<migrating, catalogue, sessions>> /\ ListingNext

MigrationPart == UNCHANGED <<listings, catalogue, sessions>> /\ MigrationNext

CataloguePart == UNCHANGED <<listings, migrating, sessions>> /\ CatalogueNext

SessionPart == UNCHANGED <<listings, migrating, catalogue>> /\ SessionsNext

Next == UNCHANGED db /\ (ListingPart \/ MigrationPart \/ CataloguePart \/ SessionPart)

Spec == Init /\ [][Next]_vars

\* Every variable has its type.
TypeOK == ListingsTypeOK /\ MigrationsTypeOK /\ CatalogueTypeOK /\ SessionsTypeOK
=============================================================================
