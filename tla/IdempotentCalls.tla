--------------------------- MODULE IdempotentCalls ---------------------------
(***************************************************************************)
(* The broker's buffered calls that carry an Idempotency-Key: a short      *)
(* pending claim in the shared store, the upstream call inside a           *)
(* transaction of the admin database that also stores its execution        *)
(* record, and the response promoted to the long replay window.  One slot  *)
(* per caller and key; requests differ by fingerprint.                     *)
(***************************************************************************)
EXTENDS Database, Sequences, FiniteSets

CONSTANTS
    Slots,         \* pairs of a caller and an Idempotency-Key
    Fingerprints,  \* what requests may ask under one key
    MaxRuns,       \* bound: upstream calls per slot
    MaxExpiries    \* bound: slots expired, pending or done

ASSUME CallsOK == MaxRuns \in Nat /\ MaxExpiries \in Nat /\ IsFiniteSet(Workers)

VARIABLES
    slot,      \* the shared store: [phase, fp, run]
    runs,      \* history: the fingerprints sent upstream under each slot, in order
    recorded,  \* the executions table: pairs of a slot and an index into runs
    expiries   \* history: how often each slot's entry expired, or was lost by a restart

idempotentCalls == <<slot, runs, recorded, expiries>>

Free == [phase |-> "free", fp |-> 0, run |-> 0]
Pending(f) == [phase |-> "pending", fp |-> f, run |-> 0]
Done(f, n) == [phase |-> "done", fp |-> f, run |-> n]

\* How far a request is that came with a key.
CallOps == {"claimed", "refused", "replayed", "calling", "answered", "failed", "recorded"}

IdempotentCallsInit ==
    /\ slot = [s \in Slots |-> Free]
    /\ runs = [s \in Slots |-> <<>>]
    /\ recorded = {}
    /\ expiries = [s \in Slots |-> 0]

Fingerprint(w) == CHOOSE f \in tx[w].by : TRUE

\* begin: set_if_absent claims the slot, atomically, or finds it taken.
Claim(w, s, f) ==
    /\ tx[w].op = "none"
    /\ \/ slot[s].phase = "free" /\ slot' = [slot EXCEPT ![s] = Pending(f)]
          /\ Look(w, "claimed", s, {f}, 0)
       \/ slot[s].phase # "free" /\ Look(w, "refused", s, {f}, 0) /\ UNCHANGED slot
    /\ UNCHANGED <<runs, recorded, expiries>>

\* A refused claim reads what is there by now: a done record of the same request is
\* replayed; expired meanwhile, pending, or of another request, the call is refused (409).
Replays(w) == slot[tx[w].on].phase = "done" /\ slot[tx[w].on].fp = Fingerprint(w)

Classify(w) ==
    /\ tx[w].op = "refused"
    /\ \/ Replays(w) /\ tx' = [tx EXCEPT ![w].op = "replayed", ![w].n = slot[tx[w].on].run]
       \/ ~Replays(w) /\ End(w)
    /\ UNCHANGED idempotentCalls

Reply(w) == tx[w].op = "replayed" /\ End(w) /\ UNCHANGED idempotentCalls

\* Credentials were injected; the transaction around the call begins.
BeginCall(w) == Open(w, "claimed", "calling", {}) /\ UNCHANGED idempotentCalls

\* The pipeline runs: an upstream response, whatever its status, or a BrokerError.
Send(w) ==
    LET s == tx[w].on IN
    /\ tx[w].op = "calling" /\ Len(runs[s]) < MaxRuns
    /\ runs' = [runs EXCEPT ![s] = Append(@, Fingerprint(w))]
    /\ \E outcome \in {"answered", "failed"} :
          tx' = [tx EXCEPT ![w].op = outcome, ![w].n = Len(runs[s]) + 1]
    /\ UNCHANGED <<slot, recorded, expiries>>

\* A FAILED record is committed before the error is raised; the claim stays pending.
RecordFailure(w) ==
    /\ tx[w].op = "failed"
    /\ recorded' = recorded \cup {<<tx[w].on, tx[w].n>>}
    /\ End(w)
    /\ UNCHANGED <<slot, runs, expiries>>

\* The record of an answered call is committed with the transaction.
Record(w) ==
    /\ tx[w].op = "answered"
    /\ recorded' = recorded \cup {<<tx[w].on, tx[w].n>>}
    /\ tx' = [tx EXCEPT ![w].op = "recorded", ![w].open = FALSE]
    /\ UNCHANGED <<slot, runs, expiries>>

\* Wrong variant: the slot is overwritten while the transaction of the call is still open.
CompleteEarly(w) ==
    /\ tx[w].op \in {"answered", "recorded"}
    /\ slot' = [slot EXCEPT ![tx[w].on] = Done(Fingerprint(w), tx[w].n)]
    /\ End(w)
    /\ UNCHANGED <<runs, recorded, expiries>>

\* complete: the slot is overwritten, whoever holds it by now.
Complete(w) ==
    /\ tx[w].op = "recorded"
    /\ slot' = [slot EXCEPT ![tx[w].on] = Done(Fingerprint(w), tx[w].n)]
    /\ End(w)
    /\ UNCHANGED <<runs, recorded, expiries>>

\* No credential, a database error, a store error, a disconnected client, a crash: the
\* claim is left to its TTL.
AbandonCall(w) == tx[w].op \in CallOps /\ End(w) /\ UNCHANGED idempotentCalls

\* A TTL runs out, or a restart loses the store in memory.
Expire(s) ==
    /\ slot[s].phase # "free" /\ expiries[s] < MaxExpiries
    /\ slot' = [slot EXCEPT ![s] = Free]
    /\ expiries' = [expiries EXCEPT ![s] = @ + 1]
    /\ UNCHANGED <<tx, runs, recorded>>

CallStep(w) ==
    \/ \E s \in Slots, f \in Fingerprints : Claim(w, s, f)
    \/ Classify(w) \/ Reply(w) \/ BeginCall(w) \/ Send(w) \/ RecordFailure(w) \/ Record(w)
    \/ Complete(w) \/ AbandonCall(w)

IdempotentCallsTypeOK ==
    /\ slot \in [Slots -> [phase : {"free", "pending", "done"}, fp : Fingerprints \cup {0},
                           run : 0..MaxRuns]]
    /\ \A s \in Slots : runs[s] \in Seq(Fingerprints) /\ Len(runs[s]) <= MaxRuns
    /\ recorded \subseteq Slots \X (1..MaxRuns)
    /\ expiries \in [Slots -> 0..MaxExpiries]

\* Under one key the upstream is called at most once, however many requests and retries
\* carry it, plus once for every time the entry of the key expired: failures and crashes
\* by themselves never free a key (SharedStateIdempotencyStore.begin).
OnePerClaim == \A s \in Slots : Len(runs[s]) <= 1 + expiries[s]

\* A replayed response was given to the very request that asks again, and its execution
\* record is in the database: nothing replays a call that was rolled back
\* (execute.py _handle, SharedStateIdempotencyStore.complete).
ReplayFaithful ==
    \A w \in Workers : tx[w].op = "replayed" =>
        /\ runs[tx[w].on][tx[w].n] = Fingerprint(w)
        /\ <<tx[w].on, tx[w].n>> \in recorded

\* Both: what a client may rely on that sends a request again under its key.
CallsIdempotent == OnePerClaim /\ ReplayFaithful

\* What this state is of the abstract promise: how many more calls a key allows, the run it
\* would answer with, and the answers that are on their way to those who asked again.
CallsLeft == [s \in Slots |-> 1 + expiries[s] - Len(runs[s])]
AnswerKept == [s \in Slots |-> IF slot[s].phase = "done" THEN slot[s].run ELSE 0]
ReplyTo(q) ==
    IF q.op = "replayed" THEN [key |-> q.on, asks |-> CHOOSE f \in q.by : TRUE, call |-> q.n]
                         ELSE [key |-> 0, asks |-> 0, call |-> 0]
RepliesDue == [w \in Workers |-> ReplyTo(tx[w])]

Keys == INSTANCE IdempotencyKeys WITH calls <- runs, left <- CallsLeft, kept <- recorded,
                                      answer <- AnswerKept, replies <- RepliesDue

\* Every step keeps the promise of a key: a claim, its call, record and answer, and the
\* replays, with whatever fails in between (SharedStateIdempotencyStore, execute.py).
KeysPromise == Keys!Spec
=============================================================================
