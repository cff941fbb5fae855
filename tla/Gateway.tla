------------------------------- MODULE Gateway -------------------------------
(***************************************************************************)
(* What a request of the broker goes through and rests on: the gate and    *)
(* the rate limit, the cached decisions about what it may do, the tokens   *)
(* of its credential, the key that keeps it from being executed twice, its *)
(* execution and the record of it; and the records of the other databases, *)
(* among them the operation its URL means and the rules of its toolkit.    *)
(* db and tx stand for the database each part uses.                        *)
(***************************************************************************)
EXTENDS Admission, LookupCaches, CredentialTokens, IdempotentCalls, Executions, Records

broker == <<admission, lookupCaches, credentialTokens, idempotentCalls, executions>>
vars == <<db, tx, broker, records>>

Init ==
    /\ DatabaseInit /\ RecordsInit
    /\ AdmissionInit /\ LookupCachesInit /\ CredentialTokensInit /\ IdempotentCallsInit
    /\ ExecutionsInit

AdmissionPart ==
    /\ UNCHANGED <<lookupCaches, credentialTokens, idempotentCalls, executions>>
    /\ TimePasses \/ \E w \in Workers : AdmissionStep(w)

CachePart ==
    /\ UNCHANGED <<tx, admission, credentialTokens, idempotentCalls, executions>>
    /\ LookupNext

CredentialPart ==
    /\ UNCHANGED <<admission, lookupCaches, idempotentCalls, executions>>
    /\ Age \/ \E w \in Workers : CredentialStep(w)

CallPart ==
    /\ UNCHANGED <<admission, lookupCaches, credentialTokens, executions>>
    /\ (\E s \in Slots : Expire(s)) \/ \E w \in Workers : CallStep(w)

ExecutionPart ==
    /\ UNCHANGED <<admission, lookupCaches, credentialTokens, idempotentCalls>>
    /\ ExecutionClock \/ \E w \in Workers : ExecutionStep(w)

BrokerPart ==
    UNCHANGED records /\ (AdmissionPart \/ CachePart \/ CredentialPart \/ CallPart \/ ExecutionPart)

RecordPart ==
    UNCHANGED broker /\ (RegistryPart \/ ToolkitPart \/ NotePart \/ EventPart)

Next == UNCHANGED db /\ (BrokerPart \/ RecordPart)

Spec == Init /\ [][Next]_vars

\* Every variable has its type, and on SQLite at most one transaction is open.
TypeOK ==
    /\ AdmissionTypeOK /\ LookupCachesTypeOK /\ CredentialTokensTypeOK /\ IdempotentCallsTypeOK
    /\ ExecutionsTypeOK /\ RecordsTypeOK
    /\ Serial => \A v, w \in Workers : tx[v].open /\ tx[w].open => v = w
=============================================================================
