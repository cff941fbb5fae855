--------------------------- MODULE IdempotencyKeys ---------------------------
(***************************************************************************)
(* What an Idempotency-Key promises, without its protocol: under one key   *)
(* the upstream is called once, and once more for each time the key's      *)
(* entry was lost; only a call that is on record is remembered as the      *)
(* key's answer, and only the request it was made for is answered with it. *)
(***************************************************************************)
EXTENDS Naturals, Sequences

CONSTANTS Slots, Fingerprints, Workers

VARIABLES
    calls,    \* the calls made under each key, by what they asked
    left,     \* how many more each key allows
    kept,     \* the calls that are on record: pairs of a key and an index into its calls
    answer,   \* the call each key remembers as its answer, 0 for none
    replies   \* the replay each worker is about to send: [key, asks, call]

promised == <<calls, left, kept, answer, replies>>

NoReply == [key |-> 0, asks |-> 0, call |-> 0]

Init ==
    /\ calls = [s \in Slots |-> <<>>]
    /\ left = [s \in Slots |-> 1]
    /\ kept = {}
    /\ answer = [s \in Slots |-> 0]
    /\ replies = [w \in Workers |-> NoReply]

\* The upstream is called.
Execute(s, f) ==
    /\ left[s] > 0
    /\ calls' = [calls EXCEPT ![s] = Append(@, f)]
    /\ left' = [left EXCEPT ![s] = @ - 1]
    /\ UNCHANGED <<kept, answer, replies>>

\* A call is put on record.
Keep(s, n) ==
    /\ kept' = kept \cup {<<s, n>>}
    /\ UNCHANGED <<calls, left, answer, replies>>

\* A call on record becomes the key's answer.
Remember(s, n) ==
    /\ <<s, n>> \in kept
    /\ answer' = [answer EXCEPT ![s] = n]
    /\ UNCHANGED <<calls, left, kept, replies>>

\* The entry is lost, to its TTL or a restart: the key is as good as new.
Lose(s) ==
    /\ left' = [left EXCEPT ![s] = @ + 1]
    /\ answer' = [answer EXCEPT ![s] = 0]
    /\ UNCHANGED <<calls, kept, replies>>

\* A request that asks the same again is going to be sent the answer ...
Replay(w, s, f) ==
    /\ answer[s] # 0 /\ calls[s][answer[s]] = f
    /\ replies' = [replies EXCEPT ![w] = [key |-> s, asks |-> f, call |-> answer[s]]]
    /\ UNCHANGED <<calls, left, kept, answer>>

\* ... and was, or went away.
Replied(w) ==
    /\ replies' = [replies EXCEPT ![w] = NoReply]
    /\ UNCHANGED <<calls, left, kept, answer>>

Next ==
    \/ \E s \in Slots : Lose(s)
    \/ \E s \in Slots, f \in Fingerprints : Execute(s, f)
    \/ \E s \in Slots : \E n \in DOMAIN calls[s] : Keep(s, n) \/ Remember(s, n)
    \/ \E w \in Workers, s \in Slots, f \in Fingerprints : Replay(w, s, f)
    \/ \E w \in Workers : Replied(w)

Spec == Init /\ [][Next]_promised
=============================================================================
