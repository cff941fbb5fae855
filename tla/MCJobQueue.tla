----------------------------- MODULE MCJobQueue -----------------------------
\* Instance of JobQueue for TLC: one worker handles imports, one executions too.
EXTENDS JobQueue, TLC

CONSTANTS w1, w2

MCKindOf  == <<"import", "execution">>
MCHandles == (w1 :> {"import", "execution"}) @@ (w2 :> {"import"})
=============================================================================
