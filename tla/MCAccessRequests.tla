-------------------------- MODULE MCAccessRequests --------------------------
\* Instances of AccessRequests for TLC.
EXTENDS AccessRequests, TLC

CONSTANTS r1, i1, i2, t1, t2, s1, agent, owner, root

\* One request; the toolkits belong to the agent's owner.
MCRequestOf  == (i1 :> r1) @@ (i2 :> r1)
MCRequestOf1 == (i1 :> r1)
MCOwnerOf    == (t1 :> owner) @@ (t2 :> owner)

\* A behaviour has either two reviewers and one toolkit, or one reviewer and a catalogue
\* of two toolkits that changes twice.
CONSTANT Instances
VARIABLE instance

TwoReviewers ==
    /\ churn' <= 1 /\ serving' \subseteq {t1} /\ t2 \in live'
    /\ \A i \in Items : items'[i].target # t2

OneReviewer == \A d \in Reviewers \ {owner} : pc'[d] = "idle" /\ on'[d] = None

MCInit == instance \in Instances /\ Init

MCNext ==
    /\ UNCHANGED instance
    /\ Next
    /\ (instance = "reviewers" /\ TwoReviewers) \/ (instance = "catalogue" /\ OneReviewer)

MCSpec == MCInit /\ [][MCNext]_<<vars, instance>>

\* The two items of the request are interchangeable.
MCItemSymmetry == Permutations({i1, i2})
=============================================================================
