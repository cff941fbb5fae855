---------------------------- MODULE JobLifecycles ----------------------------
(***************************************************************************)
(* The life of a background job, without deadlines, transactions and       *)
(* processes: a job is in the hands of one worker at most, who delivers it *)
(* once he performed it, gives it back while it has attempts left, gives   *)
(* it up when it has none, or lets go of it and says nothing; others take  *)
(* it again until it is over.                                              *)
(***************************************************************************)
EXTENDS Naturals

CONSTANTS Jobs, Workers, MaxAttempts

VARIABLES
    status,     \* "none", "queued", "running", or how the job ended
    attempts,   \* how often it was taken
    performed,  \* the jobs whose work was done
    results,    \* the jobs whose result was delivered
    held        \* the job in each worker's hands, 0 for none

lives == <<status, attempts, performed, results, held>>

Init ==
    /\ status = [j \in Jobs |-> "none"] /\ attempts = [j \in Jobs |-> 0]
    /\ performed = {} /\ results = {}
    /\ held = [w \in Workers |-> 0]

Submit(j) ==
    /\ status[j] = "none"
    /\ status' = [status EXCEPT ![j] = "queued"]
    /\ UNCHANGED <<attempts, performed, results, held>>

\* Whoever has the job goes on with it.
Cancel(j) ==
    /\ status[j] \in {"queued", "running"}
    /\ status' = [status EXCEPT ![j] = "cancelled"]
    /\ UNCHANGED <<attempts, performed, results, held>>

\* A job that waits, or one its worker let go of, is taken by one who has none.
Take(w, j) ==
    /\ status[j] \in {"queued", "running"} /\ \A v \in Workers : held[v] # j
    /\ held[w] = 0 /\ held' = [held EXCEPT ![w] = j]
    /\ status' = [status EXCEPT ![j] = "running"]
    /\ attempts' = [attempts EXCEPT ![j] = @ + 1]
    /\ UNCHANGED <<performed, results>>

Perform(w) ==
    /\ held[w] # 0 /\ performed' = performed \cup {held[w]}
    /\ UNCHANGED <<status, attempts, results, held>>

\* The worker's hands are free, and his job, which was not over but for a cancellation, is
\* in the state he leaves it in.
Leave(w, s) ==
    /\ held[w] # 0 /\ status[held[w]] \in {"running", "cancelled"}
    /\ status' = [status EXCEPT ![held[w]] = s]
    /\ held' = [held EXCEPT ![w] = 0]
    /\ UNCHANGED <<attempts, performed>>

Deliver(w) ==
    /\ Leave(w, "completed") /\ held[w] \in performed \ results
    /\ results' = results \cup {held[w]}

GiveBack(w) == Leave(w, "queued") /\ attempts[held[w]] < MaxAttempts /\ UNCHANGED results

GiveUp(w) == Leave(w, "dead_letter") /\ attempts[held[w]] >= MaxAttempts /\ UNCHANGED results

LetGo(w) ==
    /\ held[w] # 0 /\ held' = [held EXCEPT ![w] = 0]
    /\ UNCHANGED <<status, attempts, performed, results>>

Next ==
    \/ \E j \in Jobs : Submit(j) \/ Cancel(j)
    \/ \E w \in Workers, j \in Jobs : Take(w, j)
    \/ \E w \in Workers : Perform(w) \/ Deliver(w) \/ GiveBack(w) \/ GiveUp(w) \/ LetGo(w)

Spec == Init /\ [][Next]_lives
=============================================================================
