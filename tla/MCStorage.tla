------------------------------ MODULE MCStorage ------------------------------
\* Instances of Storage for TLC.
EXTENDS Storage, TLC

CONSTANTS w1, w2

\* A behaviour is about the lists, the schema, the catalogue or the sessions, which
\* share no row.
CONSTANT Kinds
VARIABLE kind

\* The lists are the same on either database but for the search, whose ranks move on
\* SQLite; that is the one they are explored on.
MCInit ==
    /\ kind \in Kinds /\ Init
    /\ kind = "lists" => Serial
    /\ kind # "lists" => instant = 1 /\ entries = NoEntries
    /\ kind # "schema" => target = "admin" /\ version = 0 /\ schema = Nothing

\* A behaviour of the lists is one walk, from its first page to its last; which revision
\* is live matters to the walks that follow it.
OneWalk ==
    /\ ~walk.done /\ (walk.list = {} => walk' # walk)
    /\ promoted' # promoted => \E l \in walk.list : l.holds = "live"

MCNext ==
    /\ UNCHANGED <<kind, db>>
    /\ \/ kind = "lists" /\ ListingPart /\ OneWalk
       \/ kind = "schema" /\ MigrationPart
       \/ kind = "catalogue" /\ CataloguePart
       \/ kind = "sessions" /\ SessionPart

MCSpec == MCInit /\ [][MCNext]_<<vars, kind>>

Symmetry == Permutations({w1, w2})
=============================================================================
