----------------------------- MODULE Executions -----------------------------
(***************************************************************************)
(* How the broker executes one call and accounts for it.  Buffered, the    *)
(* record is stored in the transaction around the call, before the reply;  *)
(* streamed, in the background after the body; asynchronous, by the        *)
(* handler of a job that may be delivered again.  A record's primary key   *)
(* is the id of the execution.  Claims of jobs are modelled in JobQueue:   *)
(* here a job is queued, running or lapsed, and an outcome is one step.    *)
(***************************************************************************)
EXTENDS Database

CONSTANTS
    Executions,   \* execution ids
    MaxAttempts,  \* WorkerConfig.max_attempts
    MaxClaims     \* bound: claims of one job

ASSUME ExecutionsOK == MaxClaims \in Nat

VARIABLES
    mode,       \* how the caller asked for it; "none" before
    record,     \* executions.status, "none" without a row
    reported,   \* the statuses its lifecycle events gave
    told,       \* the outcome its caller was answered, for a streamed body: received in full
    job,        \* jobs: [state, attempts]
    result      \* job_results: the status in the body, "none" without a row

executions == <<mode, record, reported, told, job, result>>

Outcomes == {"completed", "failed"}
NoJob == [state |-> "none", attempts |-> 0]

\* How far a request or a job is that executes.
ExecutionOps ==
    {"accepted", "executing", "responded", "broken", "escaped", "accounted", "raised",
     "streaming", "streamed"}

ExecutionsInit ==
    /\ mode = [e \in Executions |-> "none"]
    /\ record = [e \in Executions |-> "none"]
    /\ reported = [e \in Executions |-> {}]
    /\ told = [e \in Executions |-> "none"]
    /\ job = [e \in Executions |-> NoJob]
    /\ result = [e \in Executions |-> "none"]

Outcome(w) == CHOOSE o \in tx[w].seen : TRUE
Becomes(w, op, o) == tx' = [tx EXCEPT ![w].op = op, ![w].seen = {o}, ![w].open = FALSE]

\* _handle: the operation is found, the toolkit selected and the call permitted.
Accepted(e, m) ==
    /\ mode[e] = "none" /\ mode' = [mode EXCEPT ![e] = m]
    /\ UNCHANGED <<record, reported, told, result>>

\* It is executed now, its credentials injected,
AcceptBuffered(w, e) == Accepted(e, "buffered") /\ Look(w, "accepted", e, {}, 0) /\ UNCHANGED job

\* its body passed through,
AcceptStream(w, e) == Accepted(e, "stream") /\ Look(w, "streaming", e, {}, 0) /\ UNCHANGED job

\* or it is left to a job, enqueued by a transaction of its own (202).
AcceptAsync(w, e) ==
    /\ Accepted(e, "async") /\ Short(w, "none")
    /\ job' = [job EXCEPT ![e].state = "queued"]

\* The transaction around the call begins,
BeginUpstream(w) ==
    /\ Open(w, "accepted", "executing", {}) /\ mode[tx[w].on] = "buffered"
    /\ UNCHANGED executions

\* or the one of a job's handler, which resolves the credentials of its caller again.
BeginHandler(w) ==
    /\ Open(w, "accepted", "executing", {}) /\ mode[tx[w].on] = "async"
    /\ UNCHANGED executions

\* The pipeline runs: an upstream response, failed from status 400 on, a BrokerError, or an
\* error that is none, before or after the upstream answered: of the store of the breaker, of
\* the choice of a runner, of the URL.  run_execution records the first two only.
Call(w) ==
    /\ tx[w].op = "executing"
    /\ \/ \E o \in Outcomes : tx' = [tx EXCEPT ![w].op = "responded", ![w].seen = {o}]
       \/ \E op \in {"broken", "escaped"} :
             tx' = [tx EXCEPT ![w].op = op, ![w].seen = {"failed"}]
    /\ UNCHANGED executions

Recorded(w) ==
    /\ record' = [record EXCEPT ![tx[w].on] = Outcome(w)]
    /\ reported' = [reported EXCEPT ![tx[w].on] = @ \cup {Outcome(w)}]

\* record_execution inserts; the row of an earlier delivery is in its way.
IsNew(e) == record[e] = "none"

\* The record and its event are committed with the transaction.
RecordOutcome(w) ==
    /\ tx[w].op = "responded" /\ IsNew(tx[w].on)
    /\ Recorded(w) /\ Becomes(w, "accounted", Outcome(w))
    /\ UNCHANGED <<mode, told, job, result>>

\* Wrong variant: the error is raised through the transaction, which rolls back.
RecordErrorUncommitted(w) ==
    /\ tx[w].op = "broken" /\ IsNew(tx[w].on)
    /\ Becomes(w, "accounted", "failed") /\ UNCHANGED executions

\* A BrokerError: the FAILED record is committed before the error is raised again.
RecordError(w) ==
    /\ tx[w].op = "broken" /\ IsNew(tx[w].on)
    /\ Recorded(w) /\ Becomes(w, "accounted", "failed")
    /\ UNCHANGED <<mode, told, job, result>>

\* The insert fails: the handler takes that for a failed call, and the commit raises.
Conflict(w) ==
    /\ tx[w].op \in {"responded", "broken"} /\ ~IsNew(tx[w].on)
    /\ Becomes(w, "raised", "failed") /\ UNCHANGED executions

\* The handler of a job takes such an error for a failed execution: it reports one and
\* returns, and its transaction commits the event without a record.
HandlerCatches(w) ==
    /\ tx[w].op = "escaped" /\ mode[tx[w].on] = "async"
    /\ reported' = [reported EXCEPT ![tx[w].on] = @ \cup {"failed"}]
    /\ Becomes(w, "accounted", "failed")
    /\ UNCHANGED <<mode, record, told, job, result>>

\* The response of the call, or its error as problem+json.
Answer(w) ==
    /\ tx[w].op = "accounted" /\ mode[tx[w].on] = "buffered"
    /\ told' = [told EXCEPT ![tx[w].on] = Outcome(w)]
    /\ End(w)
    /\ UNCHANGED <<mode, record, reported, job, result>>

\* open_streaming_response failed, or the body raised for a deadline or an upstream
\* error: the caller sees a broken response, and no background task runs.
StreamBreaks(w) == tx[w].op = "streaming" /\ End(w) /\ UNCHANGED executions

\* What the background task will record: failed for an error or a status from 400 on.
WillRecord(w, o) == Becomes(w, "streamed", o)

\* The whole body was sent ...
StreamEnds(w) ==
    /\ tx[w].op = "streaming"
    /\ \E o \in Outcomes :
          /\ told' = [told EXCEPT ![tx[w].on] = o]
          /\ WillRecord(w, o)
    /\ UNCHANGED <<mode, record, reported, job, result>>

\* ... or its client disconnected: while the next chunk was awaited, which marks the
\* outcome, or while one was sent, which leaves it as the status of the response.
StreamCut(w) ==
    /\ tx[w].op = "streaming"
    /\ \E o \in Outcomes : WillRecord(w, o)
    /\ UNCHANGED executions

\* The background task persists the outcome in a transaction of its own.
PersistStream(w) ==
    /\ Short(w, "streamed") /\ Recorded(w)
    /\ UNCHANGED <<mode, told, job, result>>

\* _claim_next counts the attempt; a lapsed job may still be with its first worker.
ClaimJob(w, e) ==
    /\ MayBegin
    /\ job[e].state \in {"queued", "lapsed"} /\ job[e].attempts < MaxClaims
    /\ job' = [job EXCEPT ![e] = [state |-> "running", attempts |-> @.attempts + 1]]
    /\ Look(w, "accepted", e, {}, job[e].attempts + 1)
    /\ UNCHANGED <<mode, record, reported, told, result>>

Lapse(e) ==
    /\ job[e].state = "running" /\ job' = [job EXCEPT ![e].state = "lapsed"]
    /\ UNCHANGED <<tx, mode, record, reported, told, result>>

CancelJob(e) ==
    /\ job[e].state \in {"queued", "running", "lapsed"}
    /\ job' = [job EXCEPT ![e].state = "cancelled"]
    /\ UNCHANGED <<tx, mode, record, reported, told, result>>

\* _complete_job: the result of the handler, unless the job was cancelled.
CompleteJob(w) ==
    LET e == tx[w].on IN
    /\ Short(w, "accounted") /\ mode[e] = "async" /\ result[e] = "none"
    /\ IF job[e].state = "cancelled" THEN UNCHANGED <<job, result>>
       ELSE /\ job' = [job EXCEPT ![e].state = "completed"]
            /\ result' = [result EXCEPT ![e] = Outcome(w)]
    /\ UNCHANGED <<mode, record, reported, told>>

\* The handler raised, before the call (invalid input, no credential) or a programming
\* error after it, or its transaction or the one of the outcome failed in the database.
HandlerRaises(w) ==
    /\ tx[w].op \in {"accepted", "executing", "responded", "broken", "escaped", "accounted"}
    /\ mode[tx[w].on] = "async"
    /\ Becomes(w, "raised", "failed") /\ UNCHANGED executions

\* _handle_failure: dead letter at the last attempt whatever the state of the job, else
\* queued again unless cancelled.
FailJob(w) ==
    LET e == tx[w].on IN
    /\ Short(w, "raised")
    /\ job' = [job EXCEPT ![e].state = IF tx[w].n >= MaxAttempts THEN "dead_letter"
                                       ELSE IF @ = "cancelled" THEN @ ELSE "queued"]
    /\ UNCHANGED <<mode, record, reported, told, result>>

\* A check, a credential or the database fails, an error escapes the pipeline of a buffered
\* call (500, rolled back), the client is gone, or a process dies.
AbandonExecution(w) == tx[w].op \in ExecutionOps /\ End(w) /\ UNCHANGED executions

ExecutionStep(w) ==
    \/ \E e \in Executions :
          AcceptBuffered(w, e) \/ AcceptStream(w, e) \/ AcceptAsync(w, e) \/ ClaimJob(w, e)
    \/ BeginUpstream(w) \/ BeginHandler(w) \/ Call(w)
    \/ RecordOutcome(w) \/ RecordError(w) \/ Conflict(w) \/ HandlerCatches(w) \/ Answer(w)
    \/ StreamBreaks(w) \/ StreamEnds(w) \/ StreamCut(w) \/ PersistStream(w)
    \/ CompleteJob(w) \/ HandlerRaises(w) \/ FailJob(w) \/ AbandonExecution(w)

ExecutionClock == \E e \in Executions : Lapse(e) \/ CancelJob(e)

ExecutionsTypeOK ==
    /\ mode \in [Executions -> {"none", "buffered", "stream", "async"}]
    /\ record \in [Executions -> Outcomes \cup {"none"}]
    /\ reported \in [Executions -> SUBSET Outcomes]
    /\ told \in [Executions -> Outcomes \cup {"none"}]
    /\ job \in [Executions -> [state : {"none", "queued", "running", "lapsed", "completed",
                                        "cancelled", "dead_letter"}, attempts : 0..MaxClaims]]
    /\ result \in [Executions -> Outcomes \cup {"none"}]

\* What stands of an execution, and was said of it.  Success is reported, and is the result
\* of a job, only where it is on record; whatever is on record was reported; the caller of a
\* buffered call is answered what is on record, and a body streamed in full is never recorded
\* otherwise.  Only a job may be reported failed without a record that says so, and one
\* delivered once is never reported, nor has a result, against its record.
Accounted(e) ==
    /\ mode[e] = "buffered" => told[e] \in {"none", record[e]}
    /\ mode[e] = "stream" /\ told[e] # "none" => record[e] \in {"none", told[e]}
    /\ "completed" \in reported[e] \cup {result[e]} => record[e] = "completed"
    /\ record[e] # "none" => record[e] \in reported[e]
    /\ mode[e] # "async" => reported[e] = {record[e]} \ {"none"}
    /\ record[e] # "none" /\ job[e].attempts <= 1 =>
          reported[e] = {record[e]} /\ result[e] \in {"none", record[e]}

\* No reply, event or result of a job claims a success that is not on record, none is missing
\* for what is on record, and none contradicts the record but the failures of jobs delivered
\* again (run_execution, record_execution, ExecutionHandler.execute, _complete_job).
ExecutionsAccounted == \A e \in Executions : Accounted(e)
=============================================================================
