------------------------------ MODULE MCGateway ------------------------------
\* Instances of Gateway for TLC.
EXTENDS Gateway, TLC

CONSTANTS w1, w2, l1, l2, l3, old, new, shared, added

\* Two specifications share a URL; the newer one adds another.
BothUrls == old :> {shared} @@ new :> {shared, added}

\* A rule that allows one request, one that denies both, and one without conditions.
SomeRules ==
    {[effect |-> "allow", on |-> {"get"}, blank |-> FALSE],
     [effect |-> "deny", on |-> {"get", "post"}, blank |-> TRUE],
     [effect |-> "allow", on |-> {"get", "post"}, blank |-> TRUE]}

\* A behaviour serves one part, so that the states of independent parts add up instead
\* of multiplying: the parts share no row.
CONSTANT Kinds
VARIABLE kind

\* Choices of one part are fixed in the others; those that do not depend on the database
\* are explored on one.
MCInit ==
    /\ kind \in Kinds /\ Init
    /\ kind = "caches" \/ cache = "rules"
    /\ kind = "admission" \/ store = "memory"
    /\ kind \in {"caches", "admission", "toolkits"} => Serial

Broker(k) ==
    \/ k = "credentials" /\ CredentialPart
    \/ k = "calls" /\ CallPart
    \/ k = "caches" /\ CachePart
    \/ k = "executions" /\ ExecutionPart
    \/ k = "admission" /\ AdmissionPart

Recording(k) ==
    \/ k = "registry" /\ RegistryPart
    \/ k = "toolkits" /\ ToolkitPart
    \/ k = "notes" /\ NotePart
    \/ k = "events" /\ EventPart

MCNext ==
    /\ UNCHANGED <<kind, db>>
    /\ \/ UNCHANGED records /\ Broker(kind)
       \/ UNCHANGED broker /\ Recording(kind)

MCSpec == MCInit /\ [][MCNext]_<<vars, kind>>

Symmetry == Permutations({w1, w2}) \cup Permutations({l1, l2, l3})
=============================================================================
