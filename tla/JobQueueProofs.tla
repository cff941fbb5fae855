--------------------------- MODULE JobQueueProofs ---------------------------
(***************************************************************************)
(* What JobQueue guarantees for any number of jobs and workers, provided a *)
(* claim never outlives its visibility deadline while its worker is alive  *)
(* (SlowHandlers is FALSE, the sizing WorkerConfig asks for).              *)
(***************************************************************************)
EXTENDS JobQueue, TLAPS

\* A job in a worker's hands is running or was cancelled meanwhile, its deadline
\* has not passed, it has no result yet, and its worker knows how often it was
\* claimed.  With this, no claim can take it from its worker.
HeldJobs ==
    \A w \in Workers : pc[w] \in Busy =>
        /\ status[held[w]] \in {"running", "cancelled"}
        /\ visible[held[w]] = "future"
        /\ held[w] \notin results
        /\ count[w] = attempts[held[w]]
        /\ pc[w] = "returned" => held[w] \in performed

\* The state half of ResultsFinal.
ResultsCompleted == \A j \in results : status[j] = "completed"

\* No claim before the job is enqueued.
FreshJobs == \A j \in Jobs : status[j] = "none" => attempts[j] = 0

IInv == /\ TypeOK
        /\ HeldJobs
        /\ ExclusiveProcessing
        /\ FreshJobs
        /\ ResultsCompleted
        /\ QueuedWithinBudget
        /\ CompletedWasPerformed

-----------------------------------------------------------------------------
\* The initial state has the invariant: no job, every worker polling.
LEMMA InitIInv == Init => IInv
  <1> SUFFICES ASSUME Init PROVE IInv OBVIOUS
  <1> USE ParametersOK DEF Init, Jobs, Busy, Active, Terminal
  <1>1. TypeOK BY DEF TypeOK
  <1>2. HeldJobs BY DEF HeldJobs
  <1>3. ExclusiveProcessing BY DEF ExclusiveProcessing
  <1>4. FreshJobs /\ ResultsCompleted /\ QueuedWithinBudget /\ CompletedWasPerformed
    BY DEF FreshJobs, ResultsCompleted, QueuedWithinBudget, CompletedWasPerformed
  <1> QED BY <1>1, <1>2, <1>3, <1>4 DEF IInv

\* The conjuncts of TypeOK about the worker loops.
WorkerTypes ==
    /\ pc \in [Workers -> {"off", "poll", "claim"} \cup Busy]
    /\ held \in [Workers -> 0 .. NumJobs]
    /\ \A w \in Workers : held[w] \in Jobs <=> pc[w] \in Busy
    /\ count \in [Workers -> Nat]
    /\ seen \in [Workers -> {"none"} \cup Active \cup Terminal]

\* Worker w has let its job go and is at p.
LetGo(w, p) ==
    /\ pc' = [pc EXCEPT ![w] = p]
    /\ held' = [held EXCEPT ![w] = 0]
    /\ count' = [count EXCEPT ![w] = 0]
    /\ seen' = [seen EXCEPT ![w] = "none"]

\* A worker that lets its job go, by ending its tick or its process, keeps its types.
LEMMA LetGoTypes ==
  ASSUME WorkerTypes, NEW w \in Workers, NEW p \in {"off", "poll"}, LetGo(w, p)
  PROVE  WorkerTypes'
  <1> USE ParametersOK DEF Jobs, Busy, Active, Terminal
  <1>1. \A v \in Workers : held'[v] \in Jobs <=> pc'[v] \in Busy
    BY DEF WorkerTypes, LetGo
  <1> QED BY <1>1 DEF WorkerTypes, LetGo

\* Types are preserved by every step, whatever SlowHandlers is.
LEMMA TypePreserved == TypeOK /\ [Next]_vars => TypeOK'
  <1> SUFFICES ASSUME TypeOK, [Next]_vars PROVE TypeOK' OBVIOUS
  <1>0. WorkerTypes BY DEF TypeOK, WorkerTypes
  <1> USE ParametersOK DEF Jobs, Busy, Active, Terminal
  <1>1. ASSUME NEW j \in Jobs, Enqueue(j) \/ Cancel(j) \/ Elapse(j) PROVE TypeOK'
    <2>1. CASE Enqueue(j) BY ZenonT(60), <2>1 DEF TypeOK, Enqueue, worker, control
    <2>2. CASE Cancel(j) BY ZenonT(60), <2>2 DEF TypeOK, Cancel, worker, control
    <2>3. CASE Elapse(j) BY ZenonT(60), <2>3 DEF TypeOK, Elapse, worker, control
    <2> QED BY <1>1, <2>1, <2>2, <2>3
  <1>2. ASSUME NEW w \in Workers, StartTick(w) \/ ClaimNothing(w) PROVE TypeOK'
    <2>1. CASE StartTick(w) BY ZenonT(60), <2>1 DEF TypeOK, StartTick, row, control
    <2>2. CASE ClaimNothing(w) BY ZenonT(60), <2>2 DEF TypeOK, ClaimNothing, row, control
    <2> QED BY <1>2, <2>1, <2>2
  <1>3. ASSUME NEW w \in Workers, NEW j \in Jobs, Claim(w, j) PROVE TypeOK'
    BY SMTT(60), <1>3 DEF TypeOK, Claim, control
  <1>4. ASSUME NEW w \in Workers, HandlerReturns(w) \/ HandlerRaises(w) PROVE TypeOK'
    <2>1. CASE HandlerReturns(w) BY ZenonT(60), <2>1 DEF TypeOK, HandlerReturns, row, control
    <2>2. CASE HandlerRaises(w) BY ZenonT(60), <2>2 DEF TypeOK, HandlerRaises, row, control
    <2> QED BY <1>4, <2>1, <2>2
  <1>5. ASSUME NEW w \in Workers, ReadRow(w) \/ CompleteRaises(w) PROVE TypeOK'
    <2>1. CASE ReadRow(w) BY ZenonT(60), <2>1 DEF TypeOK, ReadRow, row, control
    <2>2. CASE CompleteRaises(w) BY ZenonT(60), <2>2 DEF TypeOK, CompleteRaises, row, control
    <2> QED BY <1>5, <2>1, <2>2
  <1>6. ASSUME NEW w \in Workers, Complete(w) PROVE TypeOK'
    <2>1. held[w] \in Jobs BY <1>6 DEF TypeOK, Complete
    <2>2. WorkerTypes' BY <1>0, <1>6, LetGoTypes DEF Complete, EndTick, LetGo
    <2>3. CASE Known(w) = "cancelled"
      BY ZenonT(60), <1>6, <2>2, <2>3 DEF TypeOK, WorkerTypes, Complete, row, control
    <2>4. CASE Known(w) # "cancelled"
      <3>1. status' \in [Jobs -> {"none"} \cup Active \cup Terminal]
        BY ZenonT(60), <1>6, <2>4 DEF TypeOK, Complete
      <3>2. visible' \in [Jobs -> {"null", "future", "past"}]
        BY <1>6, <2>4 DEF TypeOK, Complete
      <3>3. results' \subseteq Jobs /\ attempts' = attempts
        <4>1. results' = results \cup {held[w]} /\ attempts' = attempts
          BY <1>6, <2>4 DEF Complete
        <4>2. results \subseteq Jobs BY DEF TypeOK
        <4> HIDE DEF Jobs
        <4> QED BY <2>1, <4>1, <4>2
      <3>4. UNCHANGED <<performed, draining, drained, faults>>
        BY <1>6 DEF Complete, control
      <3> QED BY <2>2, <3>1, <3>2, <3>3, <3>4 DEF TypeOK, WorkerTypes
    <2> QED BY <2>3, <2>4
  <1>7. ASSUME NEW w \in Workers, HandleFailure(w) PROVE TypeOK'
    <2>1. held[w] \in Jobs BY <1>7 DEF TypeOK, HandleFailure
    <2>2. WorkerTypes' BY <1>0, <1>7, LetGoTypes DEF HandleFailure, EndTick, LetGo
    <2>3. \/ UNCHANGED <<status, visible>>
          \/ \E s \in {"dead_letter", "queued"}, d \in {"null", "future"} :
                /\ status' = [status EXCEPT ![held[w]] = s]
                /\ visible' = [visible EXCEPT ![held[w]] = d]
      BY <1>7 DEF HandleFailure, DeadLetter, Requeue
    <2>4. status' \in [Jobs -> {"none"} \cup Active \cup Terminal]
      BY <2>1, <2>3 DEF TypeOK
    <2>5. visible' \in [Jobs -> {"null", "future", "past"}]
      BY <2>1, <2>3 DEF TypeOK
    <2> QED BY <1>7, <2>2, <2>4, <2>5 DEF TypeOK, WorkerTypes, HandleFailure, control
  <1>8. ASSUME NEW w \in Workers, FailureLost(w) \/ Crash(w) \/ Stop(w) PROVE TypeOK'
    <2>1. WorkerTypes'
      BY <1>0, <1>8, LetGoTypes DEF FailureLost, Crash, Stop, EndTick, LetGo
    <2>2. draining' \subseteq Workers /\ drained' \subseteq draining'
      BY <1>8 DEF TypeOK, FailureLost, Crash, Stop
    <2>3. faults' \in 0 .. MaxFaults
      BY <1>8 DEF TypeOK, FailureLost, Crash, Stop, Fault
    <2>4. UNCHANGED <<status, visible, attempts, results, performed>>
      BY <1>8 DEF FailureLost, Crash, Stop, row
    <2> QED BY <2>1, <2>2, <2>3, <2>4 DEF TypeOK, WorkerTypes
  <1>9. ASSUME NEW w \in Workers, Restart(w) \/ Drain(w) \/ DrainReturns(w) PROVE TypeOK'
    <2>1. CASE Restart(w) BY <2>1 DEF TypeOK, Restart, row, control
    <2>2. CASE Drain(w) BY <2>2 DEF TypeOK, Drain, Fault, row, worker
    <2>3. CASE DrainReturns(w) BY <2>3 DEF TypeOK, DrainReturns, row, worker
    <2> QED BY <1>9, <2>1, <2>2, <2>3
  <1>10. CASE UNCHANGED vars BY <1>10 DEF TypeOK, vars
  <1> QED
    BY <1>1, <1>2, <1>3, <1>4, <1>5, <1>6, <1>7, <1>8, <1>9, <1>10
       DEF Next, WorkerStep, ProcessStep

-----------------------------------------------------------------------------
(* The invariant is inductive.  The steps fall into four groups by what    *)
(* they change: rows nobody holds, only where a worker is, a worker that   *)
(* lets go and leaves the rows alone, and a worker that records an outcome *)
(* of the job it held.                                                     *)

\* The part of the invariant about rows and results.
RowInv == /\ FreshJobs
          /\ ResultsCompleted
          /\ QueuedWithinBudget
          /\ CompletedWasPerformed

\* A request or a passing deadline changes no row in a way a worker relies on.
LEMMA RequestStep ==
  ASSUME IInv, SlowHandlers = FALSE, NEW j \in Jobs, Enqueue(j) \/ Cancel(j) \/ Elapse(j)
  PROVE  HeldJobs' /\ ExclusiveProcessing' /\ RowInv'
  <1> USE ParametersOK DEF IInv, TypeOK, Active, Busy
  <1>1. \A w \in Workers : pc[w] \in Busy => held[w] \in Jobs OBVIOUS
  <1>2. ExclusiveProcessing'
    BY DEF ExclusiveProcessing, Enqueue, Cancel, Elapse, worker
  <1>3. HeldJobs'
    <2>1. CASE Enqueue(j) BY <1>1, <2>1 DEF HeldJobs, Enqueue, worker
    <2>2. CASE Cancel(j) BY <1>1, <2>2 DEF HeldJobs, Cancel, worker
    <2>3. CASE Elapse(j) BY <1>1, <2>3 DEF HeldJobs, Elapse, worker, Holder
    <2> QED BY <2>1, <2>2, <2>3
  <1>4. RowInv'
    <2> USE DEF RowInv, FreshJobs, ResultsCompleted, QueuedWithinBudget, CompletedWasPerformed
    <2>1. CASE Enqueue(j) BY <2>1 DEF Enqueue
    <2>2. CASE Cancel(j) BY <2>2 DEF Cancel
    <2>3. CASE Elapse(j) BY <2>3 DEF Elapse
    <2> QED BY <2>1, <2>2, <2>3
  <1> QED BY <1>2, <1>3, <1>4

\* A claim takes a job no worker has: a held one is running with its deadline in the
\* future, or cancelled.
LEMMA ClaimStep ==
  ASSUME IInv, NEW w \in Workers, NEW j \in Jobs, Claim(w, j)
  PROVE  HeldJobs' /\ ExclusiveProcessing' /\ RowInv'
  <1> USE DEF IInv, TypeOK, Busy
  <1>1. status[j] = "queued" \/ (status[j] = "running" /\ visible[j] = "past")
    BY DEF Claim, Oldest, Claimable
  <1>2. pc[w] = "claim" /\ 0 \notin Jobs BY DEF Claim, Jobs
  <1>3. \A v \in Workers : v # w /\ pc[v] \in Busy => held[v] \in Jobs /\ held[v] # j
    BY <1>1 DEF HeldJobs
  <1>4. \A v \in Workers : held[v] # j
    BY <1>2, <1>3
  <1>5. j \notin results
    BY <1>1 DEF ResultsCompleted
  <1>6. ExclusiveProcessing'
    BY <1>4 DEF ExclusiveProcessing, Claim
  <1>7. HeldJobs'
    <2> SUFFICES ASSUME NEW v \in Workers, pc'[v] \in Busy
                 PROVE  /\ status'[held'[v]] \in {"running", "cancelled"}
                        /\ visible'[held'[v]] = "future"
                        /\ held'[v] \notin results'
                        /\ count'[v] = attempts'[held'[v]]
                        /\ pc'[v] = "returned" => held'[v] \in performed'
      BY DEF HeldJobs
    <2>1. CASE v = w BY <1>5, <2>1 DEF Claim
    <2>2. CASE v # w BY <1>3, <2>2 DEF HeldJobs, Claim
    <2> QED BY <2>1, <2>2
  <1>8. RowInv'
    BY <1>1, <1>5
       DEF Claim, RowInv, FreshJobs, ResultsCompleted, QueuedWithinBudget, CompletedWasPerformed
  <1> QED BY <1>6, <1>7, <1>8

\* A step that only moves a worker: to poll, through its handler, or out of a failed
\* outcome transaction.
LEMMA MoveStep ==
  ASSUME IInv, NEW w \in Workers,
         \/ StartTick(w) \/ ClaimNothing(w) \/ HandlerReturns(w) \/ HandlerRaises(w)
         \/ ReadRow(w) \/ CompleteRaises(w)
         \/ Restart(w) \/ Drain(w) \/ DrainReturns(w)
  PROVE  HeldJobs' /\ ExclusiveProcessing' /\ RowInv'
  <1> USE DEF IInv, TypeOK, Busy
  <1>1. UNCHANGED <<status, visible, attempts, results, held, count>>
    BY DEF StartTick, ClaimNothing, HandlerReturns, HandlerRaises, ReadRow, CompleteRaises,
           Restart, Drain, DrainReturns, row, worker
  <1>2. performed \subseteq performed'
    BY DEF StartTick, ClaimNothing, HandlerReturns, HandlerRaises, ReadRow, CompleteRaises,
           Restart, Drain, DrainReturns
  <1>3. \A v \in Workers : pc'[v] \in Busy =>
           pc[v] \in Busy /\ (pc'[v] = "returned" => pc[v] = "returned" \/ held[v] \in performed')
    BY DEF StartTick, ClaimNothing, HandlerReturns, HandlerRaises, ReadRow, CompleteRaises,
           Restart, Drain, DrainReturns, worker
  <1>4. HeldJobs' BY <1>1, <1>2, <1>3 DEF HeldJobs
  <1>5. ExclusiveProcessing' BY <1>1 DEF ExclusiveProcessing
  <1>6. RowInv'
    BY <1>1, <1>2
       DEF RowInv, FreshJobs, ResultsCompleted, QueuedWithinBudget, CompletedWasPerformed
  <1> QED BY <1>4, <1>5, <1>6

\* A worker lets its job go; of the rows, at most that of its job changed.
LEMMA LetGoStep ==
  ASSUME IInv, NEW w \in Workers, NEW p \in {"off", "poll"}, LetGo(w, p),
         performed' = performed, attempts' = attempts,
         \A j \in Jobs : j # held[w] =>
             status'[j] = status[j] /\ visible'[j] = visible[j] /\ (j \in results' => j \in results)
  PROVE  HeldJobs' /\ ExclusiveProcessing'
  <1> USE DEF IInv, TypeOK, Busy
  <1>1. ExclusiveProcessing'
    BY DEF ExclusiveProcessing, LetGo
  <1>2. \A v \in Workers : pc'[v] \in Busy =>
           v # w /\ pc'[v] = pc[v] /\ held'[v] = held[v] /\ count'[v] = count[v]
    BY DEF LetGo
  <1>3. 0 \notin Jobs BY DEF Jobs
  <1>4. \A v \in Workers : pc'[v] \in Busy => held[v] \in Jobs /\ held[v] # held[w]
    BY <1>2, <1>3 DEF ExclusiveProcessing
  <1>5. HeldJobs' BY <1>2, <1>4 DEF HeldJobs
  <1> QED BY <1>1, <1>5

\* A worker that stops or dies leaves its job's row for the deadline to free.
LEMMA DropStep ==
  ASSUME IInv, NEW w \in Workers, FailureLost(w) \/ Crash(w) \/ Stop(w)
  PROVE  HeldJobs' /\ ExclusiveProcessing' /\ RowInv'
  <1>1. UNCHANGED <<status, visible, attempts, results, performed>>
    BY DEF FailureLost, Crash, Stop, row
  <1>2. HeldJobs' /\ ExclusiveProcessing'
    <2>1. LetGo(w, "poll") \/ LetGo(w, "off")
      BY DEF FailureLost, Crash, Stop, EndTick, LetGo
    <2> QED BY <1>1, <2>1, LetGoStep
  <1>3. RowInv'
    BY <1>1
       DEF IInv, RowInv, FreshJobs, ResultsCompleted, QueuedWithinBudget, CompletedWasPerformed
  <1> QED BY <1>2, <1>3

\* Recording a result: the job had none, and its handler performed it.
LEMMA CompleteStep ==
  ASSUME IInv, NEW w \in Workers, Complete(w)
  PROVE  HeldJobs' /\ ExclusiveProcessing' /\ RowInv'
  <1> USE DEF IInv, TypeOK, Busy
  <1>1. held[w] \in Jobs /\ held[w] \in performed /\ performed' = performed
    BY DEF HeldJobs, Complete
  <1>2. \/ UNCHANGED <<status, visible, attempts, results>>
        \/ /\ status' = [status EXCEPT ![held[w]] = "completed"]
           /\ visible' = [visible EXCEPT ![held[w]] = "null"]
           /\ results' = results \cup {held[w]}
           /\ attempts' = attempts
    BY DEF Complete, row
  <1>3. LetGo(w, "poll") BY DEF Complete, EndTick, LetGo
  <1>4. attempts' = attempts
        /\ \A j \in Jobs : j # held[w] =>
             status'[j] = status[j] /\ visible'[j] = visible[j] /\ (j \in results' => j \in results)
    BY <1>2
  <1>5. HeldJobs' /\ ExclusiveProcessing'
    <2> HIDE DEF IInv, TypeOK, Busy
    <2> QED BY <1>1, <1>3, <1>4, LetGoStep
  <1>6. RowInv'
    <2> USE DEF RowInv, FreshJobs, ResultsCompleted, QueuedWithinBudget, CompletedWasPerformed
    <2>1. CASE UNCHANGED <<status, visible, attempts, results>> BY <1>1, <2>1
    <2>2. CASE /\ status' = [status EXCEPT ![held[w]] = "completed"]
               /\ results' = results \cup {held[w]}
               /\ attempts' = attempts
      BY <1>1, <2>2
    <2> QED BY <1>2, <2>1, <2>2
  <1> QED BY <1>5, <1>6

\* Recording a failure: requeued only with a claim left, since the worker's count is
\* the row's.
LEMMA FailureStep ==
  ASSUME IInv, NEW w \in Workers, HandleFailure(w)
  PROVE  HeldJobs' /\ ExclusiveProcessing' /\ RowInv'
  <1> USE DEF IInv, TypeOK, Busy
  <1>1. /\ held[w] \in Jobs /\ held[w] \notin results /\ count[w] = attempts[held[w]]
        /\ UNCHANGED <<attempts, results, performed>>
    BY DEF HeldJobs, HandleFailure
  <1>2. \/ UNCHANGED <<status, visible>>
        \/ \E s \in {"dead_letter", "queued"}, d \in {"null", "future"} :
              /\ s = "queued" => count[w] < MaxAttempts
              /\ status' = [status EXCEPT ![held[w]] = s]
              /\ visible' = [visible EXCEPT ![held[w]] = d]
    <2>1. CASE count[w] >= MaxAttempts BY <2>1 DEF HandleFailure, DeadLetter
    <2>2. CASE ~(count[w] >= MaxAttempts)
      <3>1. count[w] < MaxAttempts BY <2>2, ParametersOK
      <3> QED BY <2>2, <3>1 DEF HandleFailure, Requeue
    <2> QED BY <2>1, <2>2
  <1>3. LetGo(w, "poll") BY DEF HandleFailure, EndTick, LetGo
  <1>4. \A j \in Jobs : j # held[w] => status'[j] = status[j] /\ visible'[j] = visible[j]
    BY <1>2
  <1>5. HeldJobs' /\ ExclusiveProcessing'
    <2> HIDE DEF IInv, TypeOK, Busy
    <2> QED BY <1>1, <1>3, <1>4, LetGoStep
  <1>6. RowInv'
    <2> USE DEF RowInv, FreshJobs, ResultsCompleted, QueuedWithinBudget, CompletedWasPerformed
    <2>1. CASE UNCHANGED <<status, visible>> BY <1>1, <2>1
    <2>2. ASSUME NEW s \in {"dead_letter", "queued"},
                 s = "queued" => count[w] < MaxAttempts,
                 status' = [status EXCEPT ![held[w]] = s]
          PROVE  RowInv'
      BY <1>1, <2>2
    <2> QED BY <1>2, <2>1, <2>2
  <1> QED BY <1>5, <1>6

\* The invariant is preserved by every step.
LEMMA StepIInv == SlowHandlers = FALSE /\ IInv /\ [Next]_vars => IInv'
  <1> SUFFICES ASSUME SlowHandlers = FALSE, IInv, [Next]_vars PROVE IInv' OBVIOUS
  <1>1. TypeOK' BY TypePreserved DEF IInv
  <1>2. HeldJobs' /\ ExclusiveProcessing' /\ RowInv'
    <2>1. CASE UNCHANGED vars
      BY <2>1 DEF vars, IInv, TypeOK, HeldJobs, ExclusiveProcessing, RowInv, FreshJobs,
                  ResultsCompleted, QueuedWithinBudget, CompletedWasPerformed
    <2>2. ASSUME NEW j \in Jobs, Enqueue(j) \/ Cancel(j) \/ Elapse(j)
          PROVE  HeldJobs' /\ ExclusiveProcessing' /\ RowInv'
      BY <2>2, RequestStep
    <2>3. ASSUME NEW w \in Workers, WorkerStep(w)
          PROVE  HeldJobs' /\ ExclusiveProcessing' /\ RowInv'
      BY <2>3, ClaimStep, MoveStep, CompleteStep, FailureStep DEF WorkerStep
    <2>4. ASSUME NEW w \in Workers, ProcessStep(w)
          PROVE  HeldJobs' /\ ExclusiveProcessing' /\ RowInv'
      BY <2>4, MoveStep, DropStep DEF ProcessStep
    <2> QED BY <2>1, <2>2, <2>3, <2>4 DEF Next
  <1> QED BY <1>1, <1>2 DEF IInv, RowInv

-----------------------------------------------------------------------------
\* Every variable of every job queue keeps its type, on either database and whether
\* or not handlers outlive their deadlines.
THEOREM TypeCorrect == Spec => []TypeOK
  <1>1. Init => TypeOK BY InitIInv DEF IInv
  <1> QED BY <1>1, TypePreserved, PTL DEF Spec

\* The inductive invariant holds in every reachable state.
LEMMA Invariance == SlowHandlers = FALSE /\ Spec => []IInv
  <1> SUFFICES ASSUME SlowHandlers = FALSE PROVE Spec => []IInv OBVIOUS
  <1>1. IInv /\ [Next]_vars => IInv' BY StepIInv
  <1> QED BY <1>1, InitIInv, PTL DEF Spec

\* With deadlines longer than handlers, _claim_next gives no job to two workers.
THEOREM Exclusion == SlowHandlers = FALSE /\ Spec => []ExclusiveProcessing
  <1>1. IInv => ExclusiveProcessing BY DEF IInv
  <1> QED BY <1>1, Invariance, PTL

\* With deadlines longer than handlers, _handle_failure requeues a job only while it
\* has a claim left.
THEOREM QueueBudget == SlowHandlers = FALSE /\ Spec => []QueuedWithinBudget
  <1>1. IInv => QueuedWithinBudget BY DEF IInv
  <1> QED BY <1>1, Invariance, PTL

\* With deadlines longer than handlers, _complete_job records only work that was performed.
THEOREM WorkPerformed == SlowHandlers = FALSE /\ Spec => []CompletedWasPerformed
  <1>1. IInv => CompletedWasPerformed BY DEF IInv
  <1> QED BY <1>1, Invariance, PTL

\* A step never takes a result back.
LEMMA ResultsKept == [Next]_vars => \A j \in results : j \in results'
  <1> SUFFICES ASSUME [Next]_vars PROVE results \subseteq results' OBVIOUS
  <1>1. ASSUME NEW w \in Workers, WorkerStep(w) PROVE results \subseteq results'
    BY <1>1 DEF WorkerStep, StartTick, Claim, ClaimNothing, HandlerReturns, HandlerRaises,
                ReadRow, Complete, CompleteRaises, HandleFailure
  <1>2. ASSUME NEW w \in Workers, ProcessStep(w) PROVE results \subseteq results'
    BY <1>2 DEF ProcessStep, FailureLost, Crash, Restart, Drain, DrainReturns, Stop
  <1>3. ASSUME NEW j \in Jobs, Enqueue(j) \/ Cancel(j) \/ Elapse(j)
        PROVE  results \subseteq results'
    BY <1>3 DEF Enqueue, Cancel, Elapse
  <1>4. CASE UNCHANGED vars BY <1>4 DEF vars
  <1> QED BY <1>1, <1>2, <1>3, <1>4 DEF Next

\* With deadlines longer than handlers, a delivered result is final: its job stays
\* completed through every later cancellation, failure, crash and claim.
THEOREM ResultFinality == SlowHandlers = FALSE /\ Spec => ResultsFinal
  <1>1. IInv => \A j \in results : status[j] = "completed" BY DEF IInv, ResultsCompleted
  <1>2. [Next]_vars => [\A j \in results : j \in results']_vars BY ResultsKept
  <1> QED BY <1>1, <1>2, Invariance, PTL DEF Spec, ResultsFinal

\* A cancelled job nobody is processing is out of reach of every step: of the claim, by
\* its status, and of the outcomes, because only a job in somebody's hands has one.
LEMMA CancelledStep ==
    ASSUME TypeOK, Next, NEW j \in Jobs, status[j] = "cancelled", Holder(j) = {}
    PROVE  status'[j] = "cancelled" /\ Holder(j)' = {}
  <1> USE DEF Holder
  <1>1. ASSUME NEW i \in Jobs, Enqueue(i) \/ Cancel(i) \/ Elapse(i)
        PROVE  status'[j] = "cancelled" /\ Holder(j)' = {}
    BY <1>1 DEF Enqueue, Cancel, Elapse, worker, TypeOK, Active
  <1>2. ASSUME NEW w \in Workers, WorkerStep(w)
        PROVE  status'[j] = "cancelled" /\ Holder(j)' = {}
    <2>0. held[w] # j /\ 0 \notin Jobs /\ status \in [Jobs -> {"none"} \cup Active \cup Terminal]
          /\ held \in [Workers -> 0 .. NumJobs] /\ j # 0
      BY DEF TypeOK, Jobs
    <2>1. CASE StartTick(w) \/ ClaimNothing(w) \/ HandlerReturns(w) \/ HandlerRaises(w)
               \/ ReadRow(w) \/ CompleteRaises(w)
      BY <2>0, <2>1 DEF StartTick, ClaimNothing, HandlerReturns, HandlerRaises, ReadRow,
                        CompleteRaises, row
    <2>2. ASSUME NEW i \in Jobs, Claim(w, i)
          PROVE  status'[j] = "cancelled" /\ Holder(j)' = {}
      <3>1. i # j BY <2>2 DEF Claim, Oldest, Claimable
      <3> QED BY <2>0, <2>2, <3>1 DEF Claim
    <2>3. CASE Complete(w)
      BY <2>0, <2>3 DEF Complete, EndTick, row
    <2>4. CASE HandleFailure(w)
      BY <2>0, <2>4 DEF HandleFailure, DeadLetter, Requeue, EndTick
    <2> QED BY <1>2, <2>1, <2>2, <2>3, <2>4 DEF WorkerStep
  <1>3. ASSUME NEW w \in Workers, ProcessStep(w)
        PROVE  status'[j] = "cancelled" /\ Holder(j)' = {}
    <2>0. held \in [Workers -> 0 .. NumJobs] /\ j # 0
      BY DEF TypeOK, Jobs
    <2> QED BY <1>3, <2>0 DEF ProcessStep, FailureLost, Crash, Restart, Drain, DrainReturns,
                Stop, EndTick, row, worker
  <1> QED BY <1>1, <1>2, <1>3 DEF Next

\* A cancelled job no worker holds stays cancelled and unclaimed, on either database and
\* however long handlers run (JobService.cancel, _claim_next).
THEOREM Cancellation == Spec => CancelledStaysUnclaimed
  <1>1. TypeOK /\ [Next]_vars
          => [\A j \in Jobs : status[j] = "cancelled" /\ Holder(j) = {}
                => status'[j] = "cancelled" /\ Holder(j)' = {}]_vars
    BY CancelledStep
  <1> QED BY <1>1, TypeCorrect, PTL DEF Spec, CancelledStaysUnclaimed

-----------------------------------------------------------------------------
(* The job queue implements JobLifecycles.                                 *)

\* A request is one in the life of its job: it is submitted or cancelled, or only its
\* deadline passes.
LEMMA RequestRefines ==
  ASSUME NEW j \in Jobs, Enqueue(j) \/ Cancel(j) \/ Elapse(j)
  PROVE  [Lifecycles!Next]_Lifecycles!lives
  <1>1. CASE Enqueue(j)
    <2>1. Lifecycles!Submit(j) BY <1>1 DEF Enqueue, worker, Lifecycles!Submit
    <2> QED BY <2>1 DEF Lifecycles!Next
  <1>2. CASE Cancel(j)
    <2>1. Lifecycles!Cancel(j) BY <1>2 DEF Cancel, Active, worker, Lifecycles!Cancel
    <2> QED BY <2>1 DEF Lifecycles!Next
  <1>3. CASE Elapse(j)
    BY <1>3 DEF Elapse, worker, Lifecycles!lives
  <1> QED BY <1>1, <1>2, <1>3

\* A claim takes a job that is in nobody's hands: its deadline tells so.
LEMMA ClaimRefines ==
  ASSUME IInv, NEW w \in Workers, NEW j \in Jobs, Claim(w, j)
  PROVE  Lifecycles!Next
  <1>1. status[j] = "queued" \/ (status[j] = "running" /\ visible[j] = "past")
    BY DEF Claim, Oldest, Claimable
  <1>2. \A v \in Workers : held[v] # j
    <2> SUFFICES ASSUME NEW v \in Workers, held[v] = j PROVE FALSE OBVIOUS
    <2>1. pc[v] \in Busy BY DEF IInv, TypeOK
    <2>2. status[j] # "queued" /\ visible[j] = "future" BY <2>1 DEF IInv, HeldJobs
    <2> QED BY <1>1, <2>2
  <1>3. held[w] = 0
    <2>1. pc[w] \notin Busy BY DEF Claim, Busy
    <2>2. held[w] \in 0 .. NumJobs /\ held[w] \notin Jobs BY <2>1 DEF IInv, TypeOK
    <2> QED BY <2>2, ParametersOK DEF Jobs
  <1>4. Lifecycles!Take(w, j)
    BY <1>1, <1>2, <1>3 DEF Claim, Lifecycles!Take
  <1> QED BY <1>4 DEF Lifecycles!Next

\* A step that only moves a worker shows in no job's life, but for the handler's own commit.
LEMMA MoveRefines ==
  ASSUME IInv, NEW w \in Workers,
         \/ StartTick(w) \/ ClaimNothing(w) \/ HandlerReturns(w) \/ HandlerRaises(w)
         \/ ReadRow(w) \/ CompleteRaises(w)
         \/ Restart(w) \/ Drain(w) \/ DrainReturns(w)
  PROVE  [Lifecycles!Next]_Lifecycles!lives
  <1>1. CASE HandlerReturns(w)
    <2>1. held[w] # 0
      BY <1>1 DEF HandlerReturns, IInv, TypeOK, Busy, Jobs
    <2>2. Lifecycles!Perform(w)
      BY <1>1, <2>1 DEF HandlerReturns, row, Lifecycles!Perform
    <2> QED BY <2>2 DEF Lifecycles!Next
  <1>2. CASE ~HandlerReturns(w)
    BY <1>2 DEF StartTick, ClaimNothing, HandlerRaises, ReadRow, CompleteRaises,
                Restart, Drain, DrainReturns, row, worker, Lifecycles!lives
  <1> QED BY <1>1, <1>2

\* A worker whose hands get free and who changes no job lets go, if he had one.
LEMMA DropRefines ==
  ASSUME IInv, NEW w \in Workers, held' = [held EXCEPT ![w] = 0],
         UNCHANGED <<status, attempts, performed, results>>
  PROVE  [Lifecycles!Next]_Lifecycles!lives
  <1>1. CASE held[w] = 0
    <2>1. held' = held BY <1>1 DEF IInv, TypeOK
    <2> QED BY <2>1 DEF Lifecycles!lives
  <1>2. CASE held[w] # 0
    <2>1. Lifecycles!LetGo(w) BY <1>2 DEF Lifecycles!LetGo
    <2> QED BY <2>1 DEF Lifecycles!Next
  <1> QED BY <1>1, <1>2

\* A recorded result is delivered by the one who has the job and performed it.
LEMMA CompleteRefines ==
  ASSUME IInv, NEW w \in Workers, Complete(w)
  PROVE  [Lifecycles!Next]_Lifecycles!lives
  <1>1. held' = [held EXCEPT ![w] = 0] /\ performed' = performed
    BY DEF Complete, EndTick
  <1>2. /\ held[w] # 0 /\ held[w] \in performed
        /\ status[held[w]] \in {"running", "cancelled"}
    BY DEF Complete, IInv, TypeOK, HeldJobs, Busy, Jobs
  <1>3. CASE Known(w) = "cancelled"
    <2>1. UNCHANGED <<status, attempts, results>> BY <1>3 DEF Complete, row
    <2> QED BY <1>1, <2>1, DropRefines
  <1>4. CASE Known(w) # "cancelled"
    <2>1. Lifecycles!Deliver(w)
      BY <1>1, <1>2, <1>4 DEF Complete, Lifecycles!Deliver, Lifecycles!Leave
    <2> QED BY <2>1 DEF Lifecycles!Next
  <1> QED BY <1>3, <1>4

\* A failure gives the job up or back by its attempts, which the claim's count still is.
LEMMA FailureRefines ==
  ASSUME IInv, NEW w \in Workers, HandleFailure(w)
  PROVE  [Lifecycles!Next]_Lifecycles!lives
  <1>1. held' = [held EXCEPT ![w] = 0] /\ UNCHANGED <<attempts, performed, results>>
    BY DEF HandleFailure, EndTick
  <1>2. /\ held[w] # 0
        /\ status[held[w]] \in {"running", "cancelled"} /\ count[w] = attempts[held[w]]
    BY DEF HandleFailure, IInv, TypeOK, HeldJobs, Busy, Jobs
  <1>3. CASE count[w] >= MaxAttempts
    <2>1. status' = [status EXCEPT ![held[w]] = "dead_letter"]
      BY <1>3 DEF HandleFailure, DeadLetter
    <2>2. Lifecycles!GiveUp(w)
      BY <1>1, <1>2, <1>3, <2>1 DEF Lifecycles!GiveUp, Lifecycles!Leave
    <2> QED BY <2>2 DEF Lifecycles!Next
  <1>4. CASE ~(count[w] >= MaxAttempts) /\ Known(w) = "cancelled"
    <2>1. UNCHANGED status BY <1>4 DEF HandleFailure, Requeue
    <2> QED BY <1>1, <2>1, DropRefines
  <1>5. CASE ~(count[w] >= MaxAttempts) /\ Known(w) # "cancelled"
    <2>1. status' = [status EXCEPT ![held[w]] = "queued"]
      BY <1>5 DEF HandleFailure, Requeue
    <2>2. count[w] < MaxAttempts
      BY <1>5, ParametersOK DEF IInv, TypeOK
    <2>3. Lifecycles!GiveBack(w)
      BY <1>1, <1>2, <2>1, <2>2 DEF Lifecycles!GiveBack, Lifecycles!Leave
    <2> QED BY <2>3 DEF Lifecycles!Next
  <1> QED BY <1>3, <1>4, <1>5

\* Every step of the queue is one in a job's life or shows in none.
LEMMA StepRefines == IInv /\ [Next]_vars => [Lifecycles!Next]_Lifecycles!lives
  <1> SUFFICES ASSUME IInv, [Next]_vars PROVE [Lifecycles!Next]_Lifecycles!lives OBVIOUS
  <1>1. CASE UNCHANGED vars BY <1>1 DEF vars, Lifecycles!lives
  <1>2. ASSUME NEW j \in Jobs, Enqueue(j) \/ Cancel(j) \/ Elapse(j)
        PROVE  [Lifecycles!Next]_Lifecycles!lives
    BY <1>2, RequestRefines
  <1>3. ASSUME NEW w \in Workers, WorkerStep(w)
        PROVE  [Lifecycles!Next]_Lifecycles!lives
    BY <1>3, ClaimRefines, MoveRefines, CompleteRefines, FailureRefines DEF WorkerStep
  <1>4. ASSUME NEW w \in Workers, ProcessStep(w)
        PROVE  [Lifecycles!Next]_Lifecycles!lives
    <2>1. CASE FailureLost(w) \/ Crash(w) \/ Stop(w)
      <3>1. held' = [held EXCEPT ![w] = 0]
            /\ UNCHANGED <<status, attempts, performed, results>>
        BY <2>1 DEF FailureLost, Crash, Stop, EndTick, row
      <3> QED BY <3>1, DropRefines
    <2>2. CASE Restart(w) \/ Drain(w) \/ DrainReturns(w) BY <2>2, MoveRefines
    <2> QED BY <1>4, <2>1, <2>2 DEF ProcessStep
  <1> QED BY <1>1, <1>2, <1>3, <1>4 DEF Next

\* With deadlines longer than handlers, the queue is the abstract life of its jobs: a job is
\* in one worker's hands at a time, only he ends or returns it, and what he says of it is
\* true, through every cancellation, lost write, crash, drain and restart, on either
\* database (WorkerLoop, JobService.cancel).
THEOREM JobsLiveTheirLives == SlowHandlers = FALSE /\ Spec => LifecyclesKept
  <1> SUFFICES ASSUME SlowHandlers = FALSE PROVE Spec => LifecyclesKept OBVIOUS
  <1>1. Init => Lifecycles!Init BY DEF Init, Lifecycles!Init
  <1>2. IInv /\ [Next]_vars => [Lifecycles!Next]_Lifecycles!lives BY StepRefines
  <1> QED BY <1>1, <1>2, Invariance, PTL DEF Spec, LifecyclesKept, Lifecycles!Spec
=============================================================================
