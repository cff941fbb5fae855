---------------------------- MODULE UpstreamCalls ----------------------------
(***************************************************************************)
(* The broker's execution envelope around one upstream host:               *)
(* DeadlineRunner(RetryRunner(CircuitBreakerRunner(HttpRunner))).  Calls    *)
(* run concurrently, on one or several broker instances, and share the     *)
(* breaker's counters and latch through the state backend, where every     *)
(* operation is atomic and every key expires.                              *)
(*                                                                         *)
(* Time is what is left of each key's TTL; Tick lets one unit pass.        *)
(* Backoff delays and the deadline have no length: a sleeping call wakes   *)
(* at any time, and the deadline may cut a call off at any time.           *)
(***************************************************************************)
EXTENDS Naturals, FiniteSets

CONSTANTS
    Calls,           \* callers, each with one call at a time
    Idempotent,      \* those whose method or Idempotency-Key makes a retry safe
    Streams,         \* those that stream: never retried
    MaxAttempts,     \* RetryConfig.max_attempts
    MinCalls,        \* CircuitBreakerConfig.min_calls
    FailurePercent,  \* CircuitBreakerConfig.failure_ratio, in percent
    Window,          \* window_s
    Cooldown,        \* cooldown_s
    Blocking,        \* enforcement_mode is "blocking"
    MaxCount         \* bound: calls counted in one window

ASSUME ParametersOK ==
    /\ Idempotent \subseteq Calls /\ Streams \subseteq Calls
    /\ MaxAttempts \in Nat \ {0}
    /\ MinCalls \in Nat /\ FailurePercent \in 1 .. 100
    /\ Window \in Nat \ {0} /\ Cooldown \in Nat \ {0}
    /\ Blocking \in BOOLEAN /\ MaxCount \in Nat

VARIABLES
    pc,       \* where each call is
    attempt,  \* attempts it has begun
    outcome,  \* how its current attempt ended
    counted,  \* what record() has read of the counters
    sends,    \* attempts whose bytes may have reached the upstream
    total,    \* cb:total:<host>: value and TTL
    fails,    \* cb:fail:<host>
    latch     \* cb:open:<host>: its TTL, 0 when absent

call  == <<pc, attempt, outcome, counted, sends>>
store == <<total, fails, latch>>
vars  == <<pc, attempt, outcome, counted, sends, total, fails, latch>>

\* ok: below 500 and final; limited: 429; down: 502-504; error: another 5xx;
\* refused: no byte was sent; lost: it failed after the send; open: circuit open.
Sent     == {"ok", "limited", "down", "error", "lost"}
Outcomes == Sent \cup {"none", "refused", "open"}
Failures == {"down", "error", "refused", "lost"}

Active == {"allow", "admitted", "flight", "total", "fail", "trip", "judge", "sleep"}
NoKey  == [n |-> 0, ttl |-> 0]
Nothing == [total |-> 0, fails |-> 0]

Init ==
    /\ pc = [c \in Calls |-> "idle"]
    /\ attempt = [c \in Calls |-> 0]
    /\ outcome = [c \in Calls |-> "none"]
    /\ counted = [c \in Calls |-> Nothing]
    /\ sends = [c \in Calls |-> 0]
    /\ total = NoKey /\ fails = NoKey /\ latch = 0

-----------------------------------------------------------------------------
(* The state backend.                                                      *)

\* incr_with_ttl: a counter keeps the deadline it was created with.
Incr(key) == [n |-> key.n + 1, ttl |-> IF key.n = 0 THEN Window ELSE key.ttl]

\* Wrong variant: a key that is gone goes on ageing.
AgedBelow(key) == [key EXCEPT !.ttl = @ - 1]

Aged(key) == IF key.ttl <= 1 THEN NoKey ELSE [key EXCEPT !.ttl = @ - 1]

Tick ==
    /\ total.ttl > 0 \/ fails.ttl > 0 \/ latch > 0
    /\ total' = Aged(total)
    /\ fails' = Aged(fails)
    /\ latch' = IF latch = 0 THEN 0 ELSE latch - 1
    /\ UNCHANGED call

-----------------------------------------------------------------------------
(* One call.                                                               *)

Goto(c, p) == pc' = [pc EXCEPT ![c] = p]

\* A request arrives: attempt 1.
Start(c) ==
    /\ pc[c] = "idle"
    /\ total.n + Cardinality({d \in Calls : pc[d] \in Active}) < MaxCount
    /\ Goto(c, "allow")
    /\ attempt' = [attempt EXCEPT ![c] = 1]
    /\ UNCHANGED <<outcome, counted, sends, store>>

\* CircuitBreaker.allow and the admission of the runner: an open circuit sheds the
\* attempt in blocking mode, without recording anything.
Allow(c) ==
    /\ pc[c] = "allow"
    /\ IF latch > 0 /\ Blocking
       THEN Goto(c, "judge") /\ outcome' = [outcome EXCEPT ![c] = "open"]
       ELSE Goto(c, "admitted") /\ UNCHANGED outcome
    /\ UNCHANGED <<attempt, counted, sends, store>>

\* Wrong variant: admitted again without asking the breaker.
WakeAdmitted(c) ==
    /\ pc[c] = "sleep"
    /\ Goto(c, "admitted")
    /\ attempt' = [attempt EXCEPT ![c] = @ + 1]
    /\ UNCHANGED <<outcome, counted, sends, store>>

\* HttpRunner connects; once it sends, the upstream may act.
Connect(c) ==
    /\ pc[c] = "admitted"
    /\ \/ Goto(c, "flight") /\ sends' = [sends EXCEPT ![c] = @ + 1] /\ UNCHANGED outcome
       \/ Goto(c, "total") /\ outcome' = [outcome EXCEPT ![c] = "refused"] /\ UNCHANGED sends
    /\ UNCHANGED <<attempt, counted, store>>

\* The upstream answers, or the transport fails.
Answer(c) ==
    /\ pc[c] = "flight"
    /\ \E o \in Sent : outcome' = [outcome EXCEPT ![c] = o]
    /\ Goto(c, "total")
    /\ UNCHANGED <<attempt, counted, sends, store>>

\* record(): the total; a success ends there ...
CountTotal(c) ==
    /\ pc[c] = "total"
    /\ total' = Incr(total)
    /\ IF outcome[c] \in Failures
       THEN Goto(c, "fail") /\ counted' = [counted EXCEPT ![c].total = total'.n]
       ELSE Goto(c, "judge") /\ UNCHANGED counted
    /\ UNCHANGED <<attempt, outcome, sends, fails, latch>>

\* The ratio reaches the threshold, over enough calls.
Crossed(t, f) == t >= MinCalls /\ 100 * f >= FailurePercent * t

\* ... a failure is counted too ...
CountFailure(c) ==
    /\ pc[c] = "fail"
    /\ fails' = Incr(fails)
    /\ IF Crossed(counted[c].total, fails'.n)
       THEN Goto(c, "trip") /\ counted' = [counted EXCEPT ![c].fails = fails'.n]
       ELSE Goto(c, "judge") /\ counted' = [counted EXCEPT ![c] = Nothing]
    /\ UNCHANGED <<attempt, outcome, sends, total, latch>>

\* Wrong variant: every tripping call starts the cooldown again.
TripAgain(c) ==
    /\ pc[c] = "trip"
    /\ latch' = Cooldown
    /\ Goto(c, "judge")
    /\ counted' = [counted EXCEPT ![c] = Nothing]
    /\ UNCHANGED <<attempt, outcome, sends, total, fails>>

\* ... and may open the circuit: set_if_absent.
Trip(c) ==
    /\ pc[c] = "trip"
    /\ latch' = IF latch = 0 THEN Cooldown ELSE latch
    /\ Goto(c, "judge")
    /\ counted' = [counted EXCEPT ![c] = Nothing]
    /\ UNCHANGED <<attempt, outcome, sends, total, fails>>

\* Wrong variant: every transient failure is retried.
RetryableAny(c) == outcome[c] \in {"refused", "lost", "open", "limited", "down"}

\* _should_retry_error and _should_retry_status; streams are passed through.
Retryable(c) ==
    /\ c \notin Streams
    /\ \/ outcome[c] = "refused"
       \/ c \in Idempotent /\ outcome[c] \in {"lost", "open", "limited", "down"}

\* Retry while attempts and deadline allow (_has_budget).
Retry(c) ==
    /\ pc[c] = "judge" /\ Retryable(c) /\ attempt[c] < MaxAttempts
    /\ Goto(c, "sleep")
    /\ UNCHANGED <<attempt, outcome, counted, sends, store>>

\* Wrong variant: the loop does not count its attempts.
WakeUncounted(c) ==
    /\ pc[c] = "sleep"
    /\ Goto(c, "allow")
    /\ UNCHANGED <<attempt, outcome, counted, sends, store>>

\* The backoff is over: the next attempt goes through the breaker like the first.
Wake(c) ==
    /\ pc[c] = "sleep"
    /\ Goto(c, "allow")
    /\ attempt' = [attempt EXCEPT ![c] = @ + 1]
    /\ outcome' = [outcome EXCEPT ![c] = "none"]
    /\ UNCHANGED <<counted, sends, store>>

\* The call is over, with whatever it has.
End(c) ==
    /\ Goto(c, "idle")
    /\ attempt' = [attempt EXCEPT ![c] = 0]
    /\ outcome' = [outcome EXCEPT ![c] = "none"]
    /\ counted' = [counted EXCEPT ![c] = Nothing]
    /\ sends' = [sends EXCEPT ![c] = 0]
    /\ UNCHANGED store

\* The result or the error is the caller's: final, or no deadline left for a sleep.
Finish(c) == pc[c] = "judge" /\ End(c)

\* DeadlineRunner: the whole envelope is cancelled where it stands; an outcome not
\* yet recorded stays unrecorded.
Deadline(c) == pc[c] \in Active /\ End(c)

-----------------------------------------------------------------------------
Progress(c) ==
    \/ Allow(c) \/ Connect(c) \/ Answer(c) \/ CountTotal(c) \/ CountFailure(c)
    \/ Trip(c) \/ Retry(c) \/ Wake(c) \/ Finish(c)

Next == Tick \/ \E c \in Calls : Start(c) \/ Progress(c) \/ Deadline(c)

Spec == Init /\ [][Next]_vars

\* Tasks are scheduled, the upstream answers or its timeouts fire, time passes.
FairSpec == Spec /\ WF_vars(Tick) /\ \A c \in Calls : WF_vars(Progress(c))

-----------------------------------------------------------------------------
(* Properties.                                                             *)

\* Every variable has its type; a counter that is gone counts nothing.
TypeOK ==
    /\ pc \in [Calls -> Active \cup {"idle"}]
    /\ attempt \in [Calls -> 0 .. MaxAttempts]
    /\ outcome \in [Calls -> Outcomes]
    /\ counted \in [Calls -> [total : Nat, fails : Nat]]
    /\ sends \in [Calls -> Nat]
    /\ total \in [n : Nat, ttl : 0 .. Window] /\ (total.n = 0 <=> total.ttl = 0)
    /\ fails \in [n : Nat, ttl : 0 .. Window] /\ (fails.n = 0 <=> fails.ttl = 0)
    /\ latch \in 0 .. Cooldown

\* A request that is not safe to repeat reaches the upstream at most once, through
\* retries after refused connections, open circuits and lost answers; any other at
\* most max_attempts times, and a stream once.
SendsBounded ==
    \A c \in Calls : sends[c] <= IF c \in Idempotent \ Streams THEN MaxAttempts ELSE 1

\* While the circuit is open no attempt joins those already admitted, retries of
\* calls admitted before it opened included.
Admitted == {c \in Calls : pc[c] \in {"admitted", "flight"}}
OpenIsQuiet == [][Blocking /\ latch > 0 /\ latch' > 0 => Admitted' \subseteq Admitted]_vars

\* Calls that cross the threshold at the same time do not prolong the cooldown that
\* the first of them began.
CooldownNotExtended == [][latch > 0 => latch' <= latch]_vars

\* Every call gets a result or an error, whatever the upstream does.
EveryCallEnds == \A c \in Calls : pc[c] = "allow" ~> pc[c] = "idle"

\* The failures a tripping call sees are among the calls it sees (CircuitBreaker.record:
\* "the ratio is always over the same rolling window").
RatioOverOneWindow ==
    \A c \in Calls : pc[c] = "trip" => counted[c].fails <= counted[c].total
=============================================================================
