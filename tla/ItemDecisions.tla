--------------------------- MODULE ItemDecisions ----------------------------
(***************************************************************************)
(* What access requests promise, whatever the transactions behind them:    *)
(* an item is decided at most once, an effect exists only because an       *)
(* approved item asked for it, and an approval is confirmed at most once.  *)
(***************************************************************************)
CONSTANTS Items,    \* request items
          Effects   \* what an approval can give an agent

VARIABLES verdicts,   \* status of each item
          asks,       \* the effects each item would allow
          effects,    \* the effects in force
          confirmed   \* items whose effect was acknowledged

vars == <<verdicts, asks, effects, confirmed>>

TypeOK ==
    /\ verdicts \in [Items -> {"none", "pending", "approved", "denied", "withdrawn"}]
    /\ asks \in [Items -> SUBSET Effects]
    /\ effects \subseteq Effects
    /\ confirmed \subseteq Items

Init ==
    /\ verdicts = [i \in Items |-> "none"]
    /\ asks = [i \in Items |-> {}]
    /\ effects = {}
    /\ confirmed = {}

\* Only the items of S change status, from a status in From to one in To.
Moves(S, From, To) ==
    /\ \A i \in S : verdicts[i] \in From
    /\ verdicts' \in [Items -> {"none", "pending", "approved", "denied", "withdrawn"}]
    /\ \A i \in Items : IF i \in S THEN verdicts'[i] \in To ELSE verdicts'[i] = verdicts[i]

File(S) ==
    /\ Moves(S, {"none"}, {"pending"})
    /\ asks' \in [Items -> SUBSET Effects]
    /\ \A i \in Items \ S : asks'[i] = asks[i]
    /\ UNCHANGED <<effects, confirmed>>

Amend(i) ==
    /\ verdicts[i] = "pending"
    /\ \E e \in SUBSET Effects : asks' = [asks EXCEPT ![i] = e]
    /\ UNCHANGED <<verdicts, effects, confirmed>>

\* Items are decided together; some approvals take effect in the same transaction.
Decide(S) ==
    /\ Moves(S, {"pending"}, {"approved", "denied"})
    /\ \E T \in SUBSET S : /\ \A i \in T : verdicts'[i] = "approved"
                           /\ confirmed' = confirmed \cup T
    /\ UNCHANGED <<asks, effects>>

Withdraw(S) ==
    /\ Moves(S, {"pending"}, {"withdrawn"})
    /\ UNCHANGED <<asks, effects, confirmed>>

Apply(i, e) ==
    /\ verdicts[i] = "approved" /\ e \in asks[i]
    /\ effects' = effects \cup {e}
    /\ UNCHANGED <<verdicts, asks, confirmed>>

Confirm(i) ==
    /\ verdicts[i] = "approved"
    /\ confirmed' = confirmed \cup {i}
    /\ UNCHANGED <<verdicts, asks, effects>>

Remove(e) ==
    /\ effects' = effects \ {e}
    /\ UNCHANGED <<verdicts, asks, confirmed>>

Next ==
    \/ \E S \in SUBSET Items : File(S) \/ Decide(S) \/ Withdraw(S)
    \/ \E i \in Items : Amend(i) \/ Confirm(i) \/ (\E e \in asks[i] : Apply(i, e))
    \/ \E e \in effects : Remove(e)

Spec == Init /\ [][Next]_vars
=============================================================================
