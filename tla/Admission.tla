----------------------------- MODULE Admission -----------------------------
(***************************************************************************)
(* What stands before a call of the broker: the gate of an instance, which *)
(* holds a request until its response is over, and the token bucket of its *)
(* caller.  In memory each instance has its own bucket; with Redis they    *)
(* share one, and an instance reads Redis' clock before its script runs.   *)
(* Time is counted in refills of one token.                                *)
(***************************************************************************)
EXTENDS Database, FiniteSetsExt, Functions

CONSTANTS
    Instances,    \* broker processes
    MaxInFlight,  \* requests one holds at a time
    Burst,        \* the capacity of a bucket
    MaxTime       \* bound: the clock

ASSUME AdmissionOK ==
    /\ Burst \in Nat /\ MaxInFlight \in Nat /\ MaxTime \in Nat
    /\ 0 \notin Instances /\ IsFiniteSet(Workers)  \* instances are numbered from 1

VARIABLES
    store,     \* the configured backend of shared state; it never changes
    gate,      \* requests each instance counts in flight
    bucket,    \* the caller's buckets: [tokens, at]
    now,       \* the clock
    admitted,  \* history: for each bucket, requests admitted up to each time
    lag        \* history: for each bucket, time between readings of the clock and their use

admission == <<store, gate, bucket, now, admitted, lag>>

\* The bucket the instances share.
Shared == 0
Buckets == Instances \cup {Shared}

AdmissionInit ==
    /\ store \in {"memory", "redis"}
    /\ gate = [i \in Instances |-> 0]
    /\ bucket = [b \in Buckets |-> [tokens |-> Burst, at |-> 0]]
    /\ now = 0
    /\ admitted = [b \in Buckets |-> [t \in 0..MaxTime |-> 0]]
    /\ lag = [b \in Buckets |-> 0]

BucketOf(w) == IF store = "memory" THEN tx[w].on ELSE Shared

Held(w) == tx[w].op \in {"arrived", "timed", "inside"}

\* AdmissionControlMiddleware: past the cap a request is shed with 503.
Arrive(w, i) ==
    /\ gate[i] < MaxInFlight
    /\ gate' = [gate EXCEPT ![i] = @ + 1]
    /\ Look(w, "arrived", i, {}, 0)
    /\ UNCHANGED <<store, bucket, now, admitted, lag>>

\* Redis' clock is read in a call of its own.
ReadClock(w) ==
    /\ tx[w].op = "arrived" /\ store = "redis"
    /\ tx' = [tx EXCEPT ![w].op = "timed", ![w].n = now]
    /\ UNCHANGED admission

Time(w) == IF store = "memory" THEN now ELSE tx[w].n

\* Wrong variant: a bucket found dry keeps the time of its last refill.
RefillFrom(b, t) ==
    LET full == Min({Burst, b.tokens + Max({0, t - b.at})}) IN
    [tokens |-> full, at |-> b.at]

\* Elapsed time refills the bucket up to its capacity; its time is the request's, even
\* when another request has set a later one.
Refilled(b, t) ==
    LET full == Min({Burst, b.tokens + Max({0, t - b.at})}) IN
    [tokens |-> full, at |-> t]

\* token_bucket, atomic on either backend: a token is spent, or the request denied (429).
Spend(w) ==
    LET b == BucketOf(w)
        full == Refilled(bucket[b], Time(w))
    IN
    /\ tx[w].op = (IF store = "memory" THEN "arrived" ELSE "timed")
    /\ lag' = [lag EXCEPT ![b] = @ + now - Time(w)]
    /\ IF full.tokens >= 1
       THEN /\ bucket' = [bucket EXCEPT ![b] = [full EXCEPT !.tokens = @ - 1]]
            /\ admitted' = [admitted EXCEPT ![b] =
                              [t \in 0..MaxTime |-> IF t < now THEN @[t] ELSE @[t] + 1]]
            /\ tx' = [tx EXCEPT ![w].op = "inside"]
            /\ UNCHANGED gate
       ELSE /\ bucket' = [bucket EXCEPT ![b] = full]
            /\ gate' = [gate EXCEPT ![tx[w].on] = @ - 1]
            /\ End(w)
            /\ UNCHANGED admitted
    /\ UNCHANGED <<store, now>>

\* The response is over, or the request was refused or failed: the slot is released.
Leave(w) ==
    /\ Held(w)
    /\ gate' = [gate EXCEPT ![tx[w].on] = @ - 1]
    /\ End(w)
    /\ UNCHANGED <<store, bucket, now, admitted, lag>>

TimePasses ==
    /\ now < MaxTime /\ now' = now + 1
    /\ UNCHANGED <<tx, store, gate, bucket, admitted, lag>>

AdmissionStep(w) ==
    \/ tx[w].op = "none" /\ \E i \in Instances : Arrive(w, i)
    \/ ReadClock(w) \/ Spend(w) \/ Leave(w)

AdmissionTypeOK ==
    /\ store \in {"memory", "redis"} /\ now \in 0..MaxTime
    /\ gate \in [Instances -> 0..MaxInFlight]
    /\ bucket \in [Buckets -> [tokens : 0..Burst, at : 0..MaxTime]]
    /\ lag \in [Buckets -> Nat] /\ admitted \in [Buckets -> [0..MaxTime -> Nat]]

\* What a bucket with this history admitted from time s on, up to time t.
AdmittedIn(history, s, t) == history[t] - (IF s = 0 THEN 0 ELSE history[s - 1])

\* The requests an instance counts are those it holds, refused ones included; and in any
\* stretch of time a bucket admits no more than its burst, the refill of that time, and
\* the refill of the time requests spent between reading the clock and using it, which is
\* none in memory (_AdmissionGate, token_bucket of either backend).
AdmittedWithinLimits ==
    /\ \A i \in Instances :
          gate[i] = Cardinality({w \in Workers : Held(w) /\ tx[w].on = i})
    /\ \A b \in Buckets, s, t \in 0..MaxTime :
          s <= t /\ t <= now => AdmittedIn(admitted[b], s, t) <= Burst + (t - s) + lag[b]
=============================================================================
