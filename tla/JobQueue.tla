------------------------------ MODULE JobQueue ------------------------------
(***************************************************************************)
(* The background job queue: jobs are rows of admin.jobs, and worker loops *)
(* claim them, run their handler and record the outcome.                   *)
(*                                                                         *)
(* Time is abstract: a row's visible_at is null, in the future or past,    *)
(* and Elapse moves a deadline into the past.  Jobs are numbered in the    *)
(* order they were created.  A claim is a single UPDATE statement.  The    *)
(* transactions that record an outcome read the row and write it back by   *)
(* primary key: one step when transactions are serial (SQLite), two when   *)
(* ReadCommitted (PostgreSQL).                                             *)
(***************************************************************************)
EXTENDS Naturals, FiniteSets

CONSTANTS
    NumJobs,        \* jobs are 1 .. NumJobs, by created_at
    Workers,        \* worker loops, one a process
    KindOf,         \* the kind of each job
    Handles,        \* the kinds each worker has a handler for
    MaxAttempts,    \* WorkerConfig.max_attempts
    ReadCommitted,  \* TRUE: PostgreSQL; FALSE: SQLite
    SlowHandlers,   \* a claim's deadline may pass while its worker is alive
    MaxFaults       \* bound: crashes, drains and lost outcome writes

ASSUME ParametersOK ==
    /\ NumJobs \in Nat
    /\ MaxAttempts \in Nat \ {0}
    /\ MaxFaults \in Nat
    /\ ReadCommitted \in BOOLEAN /\ SlowHandlers \in BOOLEAN

VARIABLES
    status,     \* jobs.status, "none" before the job is enqueued
    visible,    \* jobs.visible_at: "null", "future" or "past"
    attempts,   \* jobs.attempts
    results,    \* job_results.job_id, which is UNIQUE
    performed,  \* jobs whose handler's own transaction committed
    pc,         \* where each worker is in _tick
    held,       \* the job it claimed, 0 for none
    count,      \* attempts as its claim returned it
    seen,       \* the status its open transaction read, "none" for none
    draining,   \* workers told to stop claiming
    drained,    \* workers whose drain() returned True
    faults      \* faults so far

Jobs    == 1 .. NumJobs
row     == <<status, visible, attempts>>
worker  == <<pc, held, count, seen>>
control == <<draining, drained, faults>>
vars    == <<status, visible, attempts, results, performed, pc, held, count, seen,
             draining, drained, faults>>

Active   == {"queued", "running"}
Terminal == {"completed", "failed", "cancelled", "dead_letter"}
\* In _tick with a job: the handler runs, it returned, or it raised.
Busy     == {"handler", "returned", "raised"}

Init ==
    /\ status = [j \in Jobs |-> "none"]
    /\ visible = [j \in Jobs |-> "null"]
    /\ attempts = [j \in Jobs |-> 0]
    /\ results = {}
    /\ performed = {}
    /\ pc = [w \in Workers |-> "poll"]
    /\ held = [w \in Workers |-> 0]
    /\ count = [w \in Workers |-> 0]
    /\ seen = [w \in Workers |-> "none"]
    /\ draining = {}
    /\ drained = {}
    /\ faults = 0

Holder(j) == {w \in Workers : held[w] = j}

-----------------------------------------------------------------------------
(* Requests: enqueue_job and JobService.cancel.                            *)

Enqueue(j) ==
    /\ status[j] = "none" /\ \A i \in 1 .. j - 1 : status[i] # "none"
    /\ status' = [status EXCEPT ![j] = "queued"]
    /\ UNCHANGED <<visible, attempts, results, performed, worker, control>>

\* Wrong variant: cancels whatever the status.
CancelAnyStatus(j) ==
    /\ status[j] # "none"
    /\ status' = [status EXCEPT ![j] = "cancelled"]
    /\ UNCHANGED <<visible, attempts, results, performed, worker, control>>

\* cancel_if_active: one conditional UPDATE; the deadline is left as it is.
Cancel(j) ==
    /\ status[j] \in Active
    /\ status' = [status EXCEPT ![j] = "cancelled"]
    /\ UNCHANGED <<visible, attempts, results, performed, worker, control>>

\* A deadline passes.  WorkerConfig asks for a visibility timeout above the
\* longest handler: without SlowHandlers only a dead worker's claim expires.
Elapse(j) ==
    /\ visible[j] = "future"
    /\ SlowHandlers \/ Holder(j) = {}
    /\ visible' = [visible EXCEPT ![j] = "past"]
    /\ UNCHANGED <<status, attempts, results, performed, worker, control>>

-----------------------------------------------------------------------------
(* The worker loop.                                                        *)

\* _tick checks that it is not draining, and only then awaits the claim.
StartTick(w) ==
    /\ pc[w] = "poll" /\ w \notin draining
    /\ pc' = [pc EXCEPT ![w] = "claim"]
    /\ UNCHANGED <<row, results, performed, held, count, seen, control>>

\* Wrong variant: takes a running job without looking at its deadline.
ClaimableRunning(w, j) ==
    /\ KindOf[j] \in Handles[w]
    /\ \/ status[j] = "queued" /\ visible[j] \in {"null", "past"}
       \/ status[j] = "running"

\* Wrong variant: takes any job whose deadline has passed.
ClaimableByDeadline(w, j) ==
    /\ KindOf[j] \in Handles[w]
    /\ \/ status[j] = "queued" /\ visible[j] = "null"
       \/ visible[j] = "past"

Claimable(w, j) ==
    /\ KindOf[j] \in Handles[w]
    /\ \/ status[j] = "queued" /\ visible[j] \in {"null", "past"}
       \/ status[j] = "running" /\ visible[j] = "past"

\* A row another worker's open transaction has read is not locked by it.
Oldest(w, j) == Claimable(w, j) /\ \A i \in 1 .. j - 1 : ~Claimable(w, i)

\* Wrong variant: does not count the claim.
ClaimUncounted(w, j) ==
    /\ pc[w] = "claim" /\ Oldest(w, j)
    /\ status' = [status EXCEPT ![j] = "running"]
    /\ visible' = [visible EXCEPT ![j] = "future"]
    /\ pc' = [pc EXCEPT ![w] = "handler"]
    /\ held' = [held EXCEPT ![w] = j]
    /\ count' = [count EXCEPT ![w] = attempts[j]]
    /\ UNCHANGED <<attempts, results, performed, seen, control>>

\* _claim_next
Claim(w, j) ==
    /\ pc[w] = "claim" /\ Oldest(w, j)
    /\ status' = [status EXCEPT ![j] = "running"]
    /\ visible' = [visible EXCEPT ![j] = "future"]
    /\ attempts' = [attempts EXCEPT ![j] = @ + 1]
    /\ pc' = [pc EXCEPT ![w] = "handler"]
    /\ held' = [held EXCEPT ![w] = j]
    /\ count' = [count EXCEPT ![w] = attempts[j] + 1]
    /\ UNCHANGED <<results, performed, seen, control>>

ClaimNothing(w) ==
    /\ pc[w] = "claim" /\ \A j \in Jobs : ~Claimable(w, j)
    /\ pc' = [pc EXCEPT ![w] = "poll"]
    /\ UNCHANGED <<row, results, performed, held, count, seen, control>>

\* _execute_handler: the handler's transaction commits, or it raises.
HandlerReturns(w) ==
    /\ pc[w] = "handler"
    /\ performed' = performed \cup {held[w]}
    /\ pc' = [pc EXCEPT ![w] = "returned"]
    /\ UNCHANGED <<row, results, held, count, seen, control>>

HandlerRaises(w) ==
    /\ pc[w] = "handler"
    /\ pc' = [pc EXCEPT ![w] = "raised"]
    /\ UNCHANGED <<row, results, performed, held, count, seen, control>>

\* session.get(Job, job_id) of an outcome transaction of PostgreSQL.
ReadRow(w) ==
    /\ ReadCommitted
    /\ pc[w] \in {"returned", "raised"} /\ seen[w] = "none"
    /\ seen' = [seen EXCEPT ![w] = status[held[w]]]
    /\ UNCHANGED <<row, results, performed, pc, held, count, control>>

\* The status an outcome transaction acts on when it commits.
Known(w)      == IF ReadCommitted THEN seen[w] ELSE status[held[w]]
HasRead(w)    == ReadCommitted => seen[w] # "none"

\* The tick is over: the loop polls again.
EndTick(w) ==
    /\ pc' = [pc EXCEPT ![w] = "poll"]
    /\ held' = [held EXCEPT ![w] = 0]
    /\ count' = [count EXCEPT ![w] = 0]
    /\ seen' = [seen EXCEPT ![w] = "none"]

\* _complete_job: nothing for a cancelled job, else the status and the result.
Complete(w) ==
    /\ pc[w] = "returned" /\ HasRead(w)
    /\ IF Known(w) = "cancelled" THEN UNCHANGED <<row, results>>
       ELSE /\ held[w] \notin results
            /\ status' = [status EXCEPT ![held[w]] = "completed"]
            /\ visible' = [visible EXCEPT ![held[w]] = "null"]
            /\ results' = results \cup {held[w]}
            /\ UNCHANGED attempts
    /\ EndTick(w)
    /\ UNCHANGED <<performed, control>>

\* The commit fails, for one because the job has a result already (UNIQUE): _tick
\* treats it as a failure of the job.
CompleteRaises(w) ==
    /\ pc[w] = "returned" /\ HasRead(w)
    /\ pc' = [pc EXCEPT ![w] = "raised"]
    /\ seen' = [seen EXCEPT ![w] = "none"]
    /\ UNCHANGED <<row, results, performed, held, count, control>>

\* Wrong variant: a status the model of jobs does not have.
DeadLetterMisnamed(w) ==
    /\ status' = [status EXCEPT ![held[w]] = "dead"]
    /\ visible' = [visible EXCEPT ![held[w]] = "null"]

\* _terminal_job, whatever the job's status is.
DeadLetter(w) ==
    /\ status' = [status EXCEPT ![held[w]] = "dead_letter"]
    /\ visible' = [visible EXCEPT ![held[w]] = "null"]

\* The requeue of _handle_failure: back in the queue after the backoff delay.
Requeue(w) ==
    IF Known(w) = "cancelled" THEN UNCHANGED <<status, visible>>
    ELSE /\ status' = [status EXCEPT ![held[w]] = "queued"]
         /\ visible' = [visible EXCEPT ![held[w]] = "future"]

\* Wrong variant: one attempt too many.
HandleFailureLate(w) ==
    /\ pc[w] = "raised" /\ HasRead(w)
    /\ IF count[w] > MaxAttempts THEN DeadLetter(w) ELSE Requeue(w)
    /\ EndTick(w)
    /\ UNCHANGED <<attempts, results, performed, control>>

\* _handle_failure, on the number of claims the claim returned.
HandleFailure(w) ==
    /\ pc[w] = "raised" /\ HasRead(w)
    /\ IF count[w] >= MaxAttempts THEN DeadLetter(w) ELSE Requeue(w)
    /\ EndTick(w)
    /\ UNCHANGED <<attempts, results, performed, control>>

-----------------------------------------------------------------------------
(* Faults, and shutting a process down.                                    *)

Fault == faults < MaxFaults /\ faults' = faults + 1

\* The outcome of a failed job cannot be written: the loop logs it and goes on.
FailureLost(w) ==
    /\ Fault
    /\ pc[w] = "raised"
    /\ EndTick(w)
    /\ UNCHANGED <<row, results, performed, draining, drained>>

\* The process dies; what its transactions had not committed is gone.
Crash(w) ==
    /\ Fault
    /\ pc[w] # "off"
    /\ pc' = [pc EXCEPT ![w] = "off"]
    /\ held' = [held EXCEPT ![w] = 0]
    /\ count' = [count EXCEPT ![w] = 0]
    /\ seen' = [seen EXCEPT ![w] = "none"]
    /\ draining' = draining \ {w}
    /\ drained' = drained \ {w}
    /\ UNCHANGED <<row, results, performed>>

Restart(w) ==
    /\ pc[w] = "off"
    /\ pc' = [pc EXCEPT ![w] = "poll"]
    /\ UNCHANGED <<row, results, performed, held, count, seen, control>>

\* drain(): no new claims ...
Drain(w) ==
    /\ Fault
    /\ pc[w] # "off" /\ w \notin draining
    /\ draining' = draining \cup {w}
    /\ UNCHANGED <<row, results, performed, worker, drained>>

\* ... it returns True once no job is being processed (_idle is set) ...
DrainReturns(w) ==
    /\ w \in draining \ drained /\ pc[w] \notin Busy
    /\ drained' = drained \cup {w}
    /\ UNCHANGED <<row, results, performed, worker, draining, faults>>

\* ... and then, or at its timeout, _stop_worker cancels the loop.
Stop(w) ==
    /\ w \in draining
    /\ pc' = [pc EXCEPT ![w] = "off"]
    /\ held' = [held EXCEPT ![w] = 0]
    /\ count' = [count EXCEPT ![w] = 0]
    /\ seen' = [seen EXCEPT ![w] = "none"]
    /\ draining' = draining \ {w}
    /\ drained' = drained \ {w}
    /\ UNCHANGED <<row, results, performed, faults>>

-----------------------------------------------------------------------------
WorkerStep(w) ==
    \/ StartTick(w) \/ (\E j \in Jobs : Claim(w, j)) \/ ClaimNothing(w)
    \/ HandlerReturns(w) \/ HandlerRaises(w) \/ ReadRow(w)
    \/ Complete(w) \/ CompleteRaises(w) \/ HandleFailure(w)

ProcessStep(w) ==
    FailureLost(w) \/ Crash(w) \/ Restart(w) \/ Drain(w) \/ DrainReturns(w) \/ Stop(w)

Next ==
    \/ \E j \in Jobs : Enqueue(j) \/ Cancel(j) \/ Elapse(j)
    \/ \E w \in Workers : WorkerStep(w) \/ ProcessStep(w)

Spec == Init /\ [][Next]_vars

\* The loop keeps ticking, handlers return or raise (their upstream calls have
\* timeouts), deadlines pass, a stopped process is started again.
FairSpec ==
    /\ Spec
    /\ \A w \in Workers : WF_vars(WorkerStep(w)) /\ WF_vars(Restart(w) \/ Stop(w))
    /\ \A j \in Jobs : WF_vars(Elapse(j))

-----------------------------------------------------------------------------
(* Properties.                                                             *)

\* Every variable has its type, and a worker has a job exactly while it is busy.
TypeOK ==
    /\ status \in [Jobs -> {"none"} \cup Active \cup Terminal]
    /\ visible \in [Jobs -> {"null", "future", "past"}]
    /\ attempts \in [Jobs -> Nat]
    /\ results \subseteq Jobs /\ performed \subseteq Jobs
    /\ pc \in [Workers -> {"off", "poll", "claim"} \cup Busy]
    /\ held \in [Workers -> 0 .. NumJobs]
    /\ \A w \in Workers : held[w] \in Jobs <=> pc[w] \in Busy
    /\ count \in [Workers -> Nat]
    /\ seen \in [Workers -> {"none"} \cup Active \cup Terminal]
    /\ draining \subseteq Workers /\ drained \subseteq draining
    /\ faults \in 0 .. MaxFaults

\* Two workers never process the same job at once: the visibility deadline gives
\* a job to another worker only when its own is gone.
ExclusiveProcessing ==
    \A v, w \in Workers : held[v] = held[w] /\ held[v] # 0 => v = w

\* A job with a result is completed and stays so: it is not cancelled, requeued or
\* dead-lettered after it delivered.
ResultsFinal ==
    /\ [](\A j \in results : status[j] = "completed")
    /\ [][\A j \in results : j \in results']_vars

\* A job waits in the queue only while it has claims left: the claim that uses the
\* last one up ends in a result, a cancellation or the dead-letter status.
QueuedWithinBudget ==
    \A j \in Jobs : status[j] = "queued" => attempts[j] < MaxAttempts

\* A cancelled job no worker is processing stays cancelled and unclaimed: nothing
\* puts it back in the queue.
CancelledStaysUnclaimed ==
    [][\A j \in Jobs : status[j] = "cancelled" /\ Holder(j) = {}
          => status'[j] = "cancelled" /\ Holder(j)' = {}]_vars

\* Completed jobs did their work: the handler's own transaction had committed.
CompletedWasPerformed == \A j \in Jobs : status[j] = "completed" => j \in performed

\* Every job somebody handles ends: its retries, crashes and restarts included.
EveryJobEnds ==
    \A j \in Jobs : (status[j] = "queued" /\ \E w \in Workers : KindOf[j] \in Handles[w])
                        ~> (status[j] \in Terminal)

\* The abstract life of a job, of this state.
Lifecycles == INSTANCE JobLifecycles

\* Whatever is cancelled, fails, is drained, crashes or is restarted, every step is one in
\* the life of a job, and only its worker's when it is in somebody's hands (WorkerLoop).
LifecyclesKept == Lifecycles!Spec
=============================================================================
