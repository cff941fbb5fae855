------------------------- MODULE MCAccessRequestsRC -------------------------
\* Instance of AccessRequestsRC for TLC.
EXTENDS AccessRequestsRC, TLC

CONSTANTS r1, i1, i2, t1, t2, s1, agent, owner, root

\* One request; the toolkits belong to the agent's owner.
MCRequestOf == (i1 :> r1) @@ (i2 :> r1)
MCOwnerOf   == (t1 :> owner) @@ (t2 :> owner)
=============================================================================
