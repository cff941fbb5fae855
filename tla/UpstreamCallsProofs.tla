------------------------- MODULE UpstreamCallsProofs -------------------------
(***************************************************************************)
(* What UpstreamCalls promises for any callers, attempts, thresholds and    *)
(* windows: types, the number of sends, and the two properties of the       *)
(* breaker's latch.                                                         *)
(***************************************************************************)
EXTENDS UpstreamCalls, TLAPS

\* Calls that nothing makes safe to send twice.
Single == Calls \ (Idempotent \ Streams)

\* A repeatable call has sent at most once per attempt, and not yet in an attempt
\* whose bytes have not left.
SendsPerAttempt ==
    \A c \in Calls :
      /\ sends[c] <= attempt[c]
      /\ pc[c] = "idle" => sends[c] = 0
      /\ pc[c] \in {"allow", "admitted"} => sends[c] < attempt[c]
      /\ pc[c] = "sleep" => attempt[c] < MaxAttempts

\* Any other call has sent nothing while it can still send: it only comes back to
\* the breaker after an attempt that was refused before the send.
SingleSends ==
    \A c \in Single :
      /\ sends[c] <= 1
      /\ pc[c] \in {"idle", "allow", "admitted", "sleep"} => sends[c] = 0
      /\ pc[c] \in {"total", "fail", "trip", "judge"} /\ outcome[c] = "refused"
           => sends[c] = 0

IInv == TypeOK /\ SendsPerAttempt /\ SingleSends

-----------------------------------------------------------------------------
\* A fresh system satisfies the invariant.
LEMMA InitIInv == Init => IInv
BY ParametersOK DEF Init, IInv, TypeOK, SendsPerAttempt, SingleSends, Single, NoKey,
    Nothing, Outcomes, Sent, Active

\* A counter that is created or raised, or ages, is a counter.
LEMMA KeyTypes ==
    ASSUME NEW key \in [n : Nat, ttl : 0 .. Window], key.n = 0 <=> key.ttl = 0
    PROVE  /\ Incr(key) \in [n : Nat, ttl : 0 .. Window]
           /\ Incr(key).n # 0 /\ Incr(key).ttl # 0
           /\ Aged(key) \in [n : Nat, ttl : 0 .. Window]
           /\ Aged(key).n = 0 <=> Aged(key).ttl = 0
BY ParametersOK DEF Incr, Aged, NoKey

\* Time passes: only keys change.
LEMMA TickStep == IInv /\ Tick => IInv'
<1> SUFFICES ASSUME IInv, Tick PROVE IInv'
  OBVIOUS
<1>1. TypeOK'
  <2>1. /\ total' \in [n : Nat, ttl : 0 .. Window] /\ (total'.n = 0 <=> total'.ttl = 0)
        /\ fails' \in [n : Nat, ttl : 0 .. Window] /\ (fails'.n = 0 <=> fails'.ttl = 0)
    BY KeyTypes DEF IInv, TypeOK, Tick
  <2>2. latch' \in 0 .. Cooldown
    BY ParametersOK DEF IInv, TypeOK, Tick
  <2> QED BY <2>1, <2>2 DEF IInv, TypeOK, Tick, call
<1>2. SendsPerAttempt' /\ SingleSends'
  BY DEF IInv, Tick, call, SendsPerAttempt, SingleSends
<1> QED BY <1>1, <1>2 DEF IInv

\* A request arrives, or an attempt asks the breaker.
LEMMA AdmissionStep ==
    ASSUME NEW c \in Calls, IInv, Start(c) \/ Allow(c)
    PROVE  IInv'
<1>1. CASE Start(c)
  <2>1. TypeOK'
    <3>1. attempt' \in [Calls -> 0 .. MaxAttempts]
      BY <1>1, ParametersOK DEF IInv, TypeOK, Start
    <3> QED BY <1>1, <3>1 DEF IInv, TypeOK, Start, Goto, store, Active
  <2>2. pc[c] = "idle" /\ UNCHANGED sends /\ pc' = [pc EXCEPT ![c] = "allow"]
        /\ attempt' = [attempt EXCEPT ![c] = 1] /\ UNCHANGED outcome
    BY <1>1 DEF Start, Goto
  <2>3. SendsPerAttempt'
    BY <2>2 DEF IInv, TypeOK, SendsPerAttempt
  <2>4. SingleSends'
    BY <2>2 DEF IInv, TypeOK, SingleSends, Single
  <2> QED BY <2>1, <2>3, <2>4 DEF IInv
<1>2. CASE Allow(c)
  <2>1. /\ pc[c] = "allow" /\ UNCHANGED <<attempt, sends>>
        /\ \/ pc' = [pc EXCEPT ![c] = "admitted"] /\ UNCHANGED outcome
           \/ pc' = [pc EXCEPT ![c] = "judge"] /\ outcome' = [outcome EXCEPT ![c] = "open"]
    BY <1>2 DEF Allow, Goto
  <2>2. TypeOK'
    BY ZenonT(60), <1>2, <2>1 DEF IInv, TypeOK, Allow, store, Active, Outcomes
  <2>3. SendsPerAttempt'
    BY <2>1 DEF IInv, TypeOK, SendsPerAttempt
  <2>4. SingleSends'
    BY <2>1 DEF IInv, TypeOK, SingleSends, Single
  <2> QED BY <2>2, <2>3, <2>4 DEF IInv
<1> QED BY <1>1, <1>2

\* An attempt connects and is answered.
LEMMA TransportStep ==
    ASSUME NEW c \in Calls, IInv, Connect(c) \/ Answer(c)
    PROVE  IInv'
<1>1. CASE Connect(c)
  <2>1. TypeOK'
    <3>1. sends' \in [Calls -> Nat] /\ outcome' \in [Calls -> Outcomes]
      BY <1>1 DEF IInv, TypeOK, Connect, Outcomes
    <3>2. pc' \in [Calls -> Active \cup {"idle"}]
      BY <1>1 DEF IInv, TypeOK, Connect, Goto, Active
    <3> QED BY <1>1, <3>1, <3>2 DEF IInv, TypeOK, Connect, store
  <2>2. SendsPerAttempt'
    BY <1>1 DEF IInv, TypeOK, SendsPerAttempt, Connect, Goto
  <2>3. SingleSends'
    BY <1>1 DEF IInv, TypeOK, SingleSends, Single, Connect, Goto
  <2> QED BY <2>1, <2>2, <2>3 DEF IInv
<1>2. CASE Answer(c)
  BY <1>2 DEF IInv, TypeOK, SendsPerAttempt, SingleSends, Single, Answer, Goto,
      store, Active, Outcomes, Sent
<1> QED BY <1>1, <1>2

\* The breaker records an outcome, and may open.
LEMMA RecordStep ==
    ASSUME NEW c \in Calls, IInv, CountTotal(c) \/ CountFailure(c) \/ Trip(c)
    PROVE  IInv'
<1>1. /\ Incr(total) \in [n : Nat, ttl : 0 .. Window]
      /\ Incr(total).n # 0 /\ Incr(total).ttl # 0
      /\ Incr(fails) \in [n : Nat, ttl : 0 .. Window]
      /\ Incr(fails).n # 0 /\ Incr(fails).ttl # 0
  BY KeyTypes DEF IInv, TypeOK
<1>2. Nothing \in [total : Nat, fails : Nat]
  BY DEF Nothing
<1>3. TypeOK'
  <2>1. CASE CountTotal(c)
    <3>1. counted' \in [Calls -> [total : Nat, fails : Nat]]
      BY <1>1, <2>1 DEF IInv, TypeOK, CountTotal
    <3>2. pc' \in [Calls -> Active \cup {"idle"}]
      BY <2>1 DEF IInv, TypeOK, CountTotal, Goto, Active
    <3>3. /\ total' \in [n : Nat, ttl : 0 .. Window] /\ (total'.n = 0 <=> total'.ttl = 0)
      BY <1>1, <2>1 DEF CountTotal
    <3> QED BY <2>1, <3>1, <3>2, <3>3 DEF IInv, TypeOK, CountTotal
  <2>2. CASE CountFailure(c)
    <3>1. counted' \in [Calls -> [total : Nat, fails : Nat]]
      <4>1. fails'.n \in Nat
        BY <1>1, <2>2 DEF CountFailure
      <4>2. \/ counted' = [counted EXCEPT ![c].fails = fails'.n]
            \/ counted' = [counted EXCEPT ![c] = Nothing]
        BY <2>2 DEF CountFailure
      <4>3. counted \in [Calls -> [total : Nat, fails : Nat]]
        BY DEF IInv, TypeOK
      <4> QED BY <1>2, <4>1, <4>2, <4>3
    <3>2. pc' \in [Calls -> Active \cup {"idle"}]
      BY <2>2 DEF IInv, TypeOK, CountFailure, Goto, Active
    <3> QED BY <1>1, <2>2, <3>1, <3>2 DEF IInv, TypeOK, CountFailure
  <2>3. CASE Trip(c)
    BY <1>2, <2>3, ParametersOK DEF IInv, TypeOK, Trip, Goto, Active
  <2> QED BY <2>1, <2>2, <2>3
<1>4. SendsPerAttempt' /\ SingleSends'
  BY DEF IInv, TypeOK, SendsPerAttempt, SingleSends, Single, CountTotal, CountFailure,
      Trip, Goto
<1> QED BY <1>3, <1>4 DEF IInv

\* The retry loop goes round, or the call ends.
LEMMA LoopStep ==
    ASSUME NEW c \in Calls, IInv, Retry(c) \/ Wake(c) \/ Finish(c) \/ Deadline(c)
    PROVE  IInv'
<1>1. CASE Retry(c)
  BY <1>1 DEF IInv, TypeOK, SendsPerAttempt, SingleSends, Single, Retry, Retryable,
      Goto, store, Active
<1>2. CASE Wake(c)
  <2>1. TypeOK'
    <3>1. attempt' \in [Calls -> 0 .. MaxAttempts]
      BY <1>2, ParametersOK DEF IInv, TypeOK, SendsPerAttempt, Wake
    <3> QED BY <1>2, <3>1 DEF IInv, TypeOK, Wake, Goto, store, Active, Outcomes
  <2>2. pc[c] = "sleep" /\ UNCHANGED sends /\ pc' = [pc EXCEPT ![c] = "allow"]
        /\ attempt' = [attempt EXCEPT ![c] = @ + 1]
        /\ outcome' = [outcome EXCEPT ![c] = "none"]
    BY <1>2 DEF Wake, Goto
  <2>3. SendsPerAttempt'
    BY <2>2 DEF IInv, TypeOK, SendsPerAttempt
  <2>4. SingleSends'
    BY <2>2 DEF IInv, TypeOK, SingleSends, Single
  <2> QED BY <2>1, <2>3, <2>4 DEF IInv
<1>3. CASE Finish(c) \/ Deadline(c)
  <2>0. End(c)
    BY <1>3 DEF Finish, Deadline
  <2>1. TypeOK'
    <3>1. pc' \in [Calls -> Active \cup {"idle"}] /\ outcome' \in [Calls -> Outcomes]
      BY <2>0 DEF IInv, TypeOK, End, Goto, Outcomes
    <3>2. attempt' \in [Calls -> 0 .. MaxAttempts] /\ sends' \in [Calls -> Nat]
      BY <2>0, ParametersOK DEF IInv, TypeOK, End
    <3>3. counted' \in [Calls -> [total : Nat, fails : Nat]]
      BY <2>0 DEF IInv, TypeOK, End, Nothing
    <3> QED BY <2>0, <3>1, <3>2, <3>3 DEF IInv, TypeOK, End, store
  <2>2. SendsPerAttempt' /\ SingleSends'
    BY <2>0 DEF IInv, TypeOK, SendsPerAttempt, SingleSends, Single, End, Goto
  <2> QED BY <2>1, <2>2 DEF IInv
<1> QED BY <1>1, <1>2, <1>3

\* Every step keeps the invariant.
LEMMA StepIInv == IInv /\ [Next]_vars => IInv'
<1> SUFFICES ASSUME IInv, [Next]_vars PROVE IInv'
  OBVIOUS
<1>1. CASE Tick
  BY <1>1, TickStep
<1>2. ASSUME NEW c \in Calls, Start(c) \/ Progress(c) \/ Deadline(c)
      PROVE  IInv'
  BY <1>2, AdmissionStep, TransportStep, RecordStep, LoopStep DEF Progress
<1>3. CASE UNCHANGED vars
  BY <1>3 DEF IInv, TypeOK, SendsPerAttempt, SingleSends, vars
<1> QED BY <1>1, <1>2, <1>3 DEF Next

\* The invariant holds of every behaviour.
LEMMA Invariance == Spec => []IInv
BY InitIInv, StepIInv, PTL DEF Spec

-----------------------------------------------------------------------------
\* Every variable of the envelope keeps its type, and a counter that expired counts
\* nothing (MemoryStateBackend, CircuitBreaker).
THEOREM TypeCorrect == Spec => []TypeOK
<1>1. IInv => TypeOK
  BY DEF IInv
<1> QED BY <1>1, Invariance, PTL

\* A request that is not safe to repeat reaches the upstream at most once, and any
\* other at most max_attempts times, whatever fails and whenever the circuit opens
\* (RetryRunner.run, _should_retry_error, HttpRunner._run).
THEOREM Sends == Spec => []SendsBounded
<1>1. IInv => SendsBounded
  BY ParametersOK DEF IInv, TypeOK, SendsPerAttempt, SingleSends, Single, SendsBounded
<1> QED BY <1>1, Invariance, PTL

\* Nothing joins the attempts in flight while the circuit stays open
\* (CircuitBreakerRunner.run inside RetryRunner.run).
THEOREM OpenCircuit == Spec => OpenIsQuiet
<1>1. IInv /\ [Next]_vars
        => [Blocking /\ latch > 0 /\ latch' > 0 => Admitted' \subseteq Admitted]_vars
  <2> SUFFICES ASSUME IInv, Next, Blocking, latch > 0
               PROVE  Admitted' \subseteq Admitted
    OBVIOUS
  <2>1. CASE Tick
    BY <2>1 DEF Tick, call, Admitted
  <2>2. ASSUME NEW c \in Calls, Start(c) \/ Progress(c) \/ Deadline(c)
        PROVE  Admitted' \subseteq Admitted
    BY <2>2 DEF IInv, TypeOK, Admitted, Goto, Start, Progress, Allow, Connect, Answer,
        CountTotal, CountFailure, Trip, Retry, Wake, Finish, Deadline, End
  <2> QED BY <2>1, <2>2 DEF Next
<1> QED BY <1>1, Invariance, PTL DEF Spec, OpenIsQuiet

\* A cooldown that has begun only shortens: concurrent trippers do not extend it
\* (CircuitBreaker.record, set_if_absent).
THEOREM Cooldowns == Spec => CooldownNotExtended
<1>1. IInv /\ [Next]_vars => [latch > 0 => latch' <= latch]_vars
  <2> SUFFICES ASSUME IInv, Next, latch > 0
               PROVE  latch' <= latch
    OBVIOUS
  <2>0. latch \in Nat
    BY ParametersOK DEF IInv, TypeOK
  <2>1. CASE Tick
    BY <2>0, <2>1 DEF Tick
  <2>2. ASSUME NEW c \in Calls, Start(c) \/ Progress(c) \/ Deadline(c)
        PROVE  latch' <= latch
    BY <2>0, <2>2 DEF store, Start, Progress, Allow, Connect, Answer, CountTotal,
        CountFailure, Trip, Retry, Wake, Finish, Deadline, End
  <2> QED BY <2>1, <2>2 DEF Next
<1> QED BY <1>1, Invariance, PTL DEF Spec, CooldownNotExtended
=============================================================================
