-------------------------- MODULE CredentialTokens --------------------------
(***************************************************************************)
(* The OAuth tokens of one credential in the control database: the         *)
(* broker's lazy refresh, single-flighted by an advisory lock (PostgreSQL) *)
(* or by a process lock and the only write lock (SQLite), the connect      *)
(* callback that exchanges a code once per nonce, deletion, and the sweep  *)
(* that announces an expiry.  Refresh tokens are pairs <<nonce, n>>: the   *)
(* n-th token of the grant which that connection's consent gave.           *)
(***************************************************************************)
EXTENDS Database

CONSTANTS
    Nonces,     \* connect states signed by begin
    MaxTokens,  \* bound: refresh tokens the provider issues per grant
    MaxLapses   \* bound: announcements whose marker is lost

ASSUME GrantsOK == MaxTokens \in Nat \ {0} /\ MaxLapses \in Nat

VARIABLES
    row,        \* the oauth_tokens row: [refresh, phase, marks]
    accepted,   \* provider (external): the refresh tokens it would accept
    exchanged,  \* provider (external): the codes already exchanged
    nonces,     \* the connect_nonces rows
    spoiled,    \* history: stored tokens rotated by a refresh that could not commit
    announced,  \* the expiry events in the admin database, by kind
    lapses      \* history: events whose marker was not committed

credentialTokens == <<row, accepted, exchanged, nonces, spoiled, announced, lapses>>

\* The time to a stored expires_at: outside the warning window, inside it, inside the
\* refresher's skew, past.  The row is absent until a connection completes, and gone
\* with its credential.
Phases == <<"fresh", "soon", "stale", "expired">>
Live == {Phases[i] : i \in 1..4}

\* The kinds of expiry events.
ExpiringSoon == 1
Expired == 2
ExpiryKinds == {ExpiringSoon, Expired}

NoToken == <<>>
Unconnected == [refresh |-> NoToken, phase |-> "absent", marks |-> {}]
Deleted == [refresh |-> NoToken, phase |-> "gone", marks |-> {}]
RefreshTokens == Nonces \X (1..MaxTokens)

CredentialTokensInit ==
    /\ row = Unconnected
    /\ accepted = {} /\ exchanged = {} /\ nonces = {} /\ spoiled = {}
    /\ announced = [k \in ExpiryKinds |-> 0] /\ lapses = [k \in ExpiryKinds |-> 0]

Usable == row.phase \in {"fresh", "soon"}

\* A transaction that updates or deletes the row waits while a sweep holds it.
RowFree(w) == ~LockedByOther(w, {"scanned", "emitted"}, 0)

\* ensure_fresh of a call: the token was resolved, with its row, in an earlier session.
\* A usable access token is served without more.
Resolve(w) ==
    /\ row.phase # "gone" /\ ~Usable
    /\ Look(w, "resolved", 0, {row.refresh}, 0)
    /\ UNCHANGED credentialTokens

Presented(w) == CHOOSE t \in tx[w].by : TRUE

\* One refresh of a credential at a time; the row is read again under the lock, and a
\* usable token found there is served.
Acquire(w) ==
    /\ \A v \in Workers : tx[v].op \notin {"asking", "rotated"}
    /\ IF Usable THEN Short(w, "resolved") ELSE Open(w, "resolved", "asking", {})
    /\ UNCHANGED credentialTokens

\* The next refresh token of a grant.
Successor(t) == <<t[1], t[2] + 1>>

\* The provider refreshes: it may rotate the token or keep it.  What is presented is the
\* token resolved before the lock.
Rotate(w) ==
    /\ tx[w].op = "asking"
    /\ Presented(w) \in accepted
    /\ \/ /\ Successor(Presented(w)) \in RefreshTokens
          /\ accepted' = (accepted \ {Presented(w)}) \cup {Successor(Presented(w))}
          /\ tx' = [tx EXCEPT ![w].op = "rotated", ![w].seen = {Successor(Presented(w))}]
       \/ tx' = [tx EXCEPT ![w].op = "rotated"] /\ UNCHANGED accepted
    /\ UNCHANGED <<row, exchanged, nonces, spoiled, announced, lapses>>

\* update_tokens: a provider that sent no refresh token leaves the stored one.
Updated(sent, phase) ==
    [row EXCEPT !.refresh = IF sent = {} THEN @ ELSE CHOOSE t \in sent : TRUE, !.phase = phase]

\* The new pair is stored and the transaction commits, if the row is still there.
StoreRefresh(w) ==
    /\ tx[w].op = "rotated" /\ RowFree(w)
    /\ IF row.phase \notin Live THEN UNCHANGED row
       ELSE \E p \in Live : row' = Updated(tx[w].seen, p)
    /\ End(w)
    /\ UNCHANGED <<accepted, exchanged, nonces, spoiled, announced, lapses>>

\* invalid_grant, a provider or database error, a cancelled request or a crash: the
\* transaction rolls back.  Tokens nobody holds any more are not followed further.
AbandonRefresh(w) ==
    /\ tx[w].op \in {"resolved", "asking", "rotated"}
    /\ accepted' = accepted \ tx[w].seen
    /\ spoiled' = IF tx[w].seen # {} THEN spoiled \cup tx[w].by ELSE spoiled
    /\ End(w)
    /\ UNCHANGED <<row, exchanged, nonces, announced, lapses>>

\* Wrong variant: the nonce is not looked up before the code is exchanged.
ConsumeNonceAgain(w) ==
    /\ tx[w].op = "none" /\ MayBegin
    /\ \E n \in Nonces :
          /\ nonces' = nonces \cup {n}
          /\ tx' = [tx EXCEPT ![w] = Request("consumed", 0, {<<n, 1>>}, {}, 0, FALSE)]
    /\ UNCHANGED <<row, accepted, exchanged, spoiled, announced, lapses>>

\* The callback of a connection: its first transaction inserts the nonce, or finds it.
ConsumeNonce(w) ==
    /\ tx[w].op = "none" /\ MayBegin
    /\ \E n \in Nonces \ nonces :
          /\ nonces' = nonces \cup {n}
          /\ tx' = [tx EXCEPT ![w] = Request("consumed", 0, {<<n, 1>>}, {}, 0, FALSE)]
    /\ UNCHANGED <<row, accepted, exchanged, spoiled, announced, lapses>>

\* The provider exchanges the code, with or without a refresh token.  Presented twice,
\* it refuses and revokes what the code gave.
Exchange(w) ==
    /\ tx[w].op = "consumed"
    /\ LET t == Presented(w) IN
       IF t[1] \in exchanged
       THEN /\ accepted' = {u \in accepted : u[1] # t[1]}
            /\ End(w) /\ UNCHANGED exchanged
       ELSE /\ exchanged' = exchanged \cup {t[1]}
            /\ \E sent \in {{t}, {}} :
                  /\ accepted' = accepted \cup sent
                  /\ tx' = [tx EXCEPT ![w].op = "exchanged", ![w].seen = sent]
    /\ UNCHANGED <<row, nonces, spoiled, announced, lapses>>

\* The second transaction of the callback creates the row or updates it; it takes no
\* advisory lock.
StoreConnection(w) ==
    /\ tx[w].op = "exchanged" /\ row.phase # "gone" /\ RowFree(w)
    /\ \E p \in Live : row' = Updated(tx[w].seen, p)
    /\ Short(w, "exchanged")
    /\ UNCHANGED <<accepted, exchanged, nonces, spoiled, announced, lapses>>

AbandonConnection(w) ==
    /\ tx[w].op \in {"consumed", "exchanged"}
    /\ accepted' = accepted \ tx[w].seen
    /\ End(w)
    /\ UNCHANGED <<row, exchanged, nonces, spoiled, announced, lapses>>

\* Deleting the credential deletes the row with it.
DeleteCredential(w) ==
    /\ tx[w].op = "none" /\ MayBegin /\ RowFree(w)
    /\ row.phase # "gone"
    /\ row' = Deleted
    /\ UNCHANGED <<tx, accepted, exchanged, nonces, spoiled, announced, lapses>>

\* The event that is due for the row: list_expiry_candidates.
Due(k) ==
    /\ k \notin row.marks
    /\ \/ k = Expired /\ row.phase = "expired"
       \/ k = ExpiringSoon /\ row.phase \in {"soon", "stale"}

\* Wrong variant: candidates are read without locking their rows.
BeginSweepUnlocked(w) ==
    /\ tx[w].op = "none" /\ MayBegin
    /\ \E k \in ExpiryKinds :
          Due(k) /\ tx' = [tx EXCEPT ![w] = Request("scanned", 0, {}, {}, k, TRUE)]
    /\ UNCHANGED credentialTokens

\* A sweep locks the rows that are due and not marked; it skips rows locked by others.
BeginSweep(w) ==
    /\ tx[w].op = "none" /\ MayBegin /\ RowFree(w)
    /\ \E k \in ExpiryKinds :
          Due(k) /\ tx' = [tx EXCEPT ![w] = Request("scanned", 0, {}, {}, k, TRUE)]
    /\ UNCHANGED credentialTokens

\* The event is committed to the admin database ...
Announce(w) ==
    /\ tx[w].op = "scanned"
    /\ announced' = [announced EXCEPT ![tx[w].n] = @ + 1]
    /\ tx' = [tx EXCEPT ![w].op = "emitted"]
    /\ UNCHANGED <<row, accepted, exchanged, nonces, spoiled, lapses>>

\* ... and then the marker to the control database.
Mark(w) ==
    /\ tx[w].op = "emitted"
    /\ row' = [row EXCEPT !.marks = @ \cup {tx[w].n}]
    /\ End(w)
    /\ UNCHANGED <<accepted, exchanged, nonces, spoiled, announced, lapses>>

AbandonSweep(w) ==
    /\ \/ tx[w].op = "scanned" /\ UNCHANGED lapses
       \/ /\ tx[w].op = "emitted" /\ lapses[tx[w].n] < MaxLapses
          /\ lapses' = [lapses EXCEPT ![tx[w].n] = @ + 1]
    /\ End(w)
    /\ UNCHANGED <<row, accepted, exchanged, nonces, spoiled, announced>>

\* Time passes for the stored access token.
Age ==
    /\ \E i \in 1..3 : row.phase = Phases[i] /\ row' = [row EXCEPT !.phase = Phases[i + 1]]
    /\ UNCHANGED <<tx, accepted, exchanged, nonces, spoiled, announced, lapses>>

CredentialStep(w) ==
    \/ Resolve(w) \/ Acquire(w) \/ Rotate(w) \/ StoreRefresh(w) \/ AbandonRefresh(w)
    \/ ConsumeNonce(w) \/ Exchange(w) \/ StoreConnection(w) \/ AbandonConnection(w)
    \/ DeleteCredential(w)
    \/ BeginSweep(w) \/ Announce(w) \/ Mark(w) \/ AbandonSweep(w)

CredentialTokensTypeOK ==
    /\ row.refresh \in RefreshTokens \cup {NoToken}
    /\ row.phase \in Live \cup {"absent", "gone"} /\ row.marks \subseteq ExpiryKinds
    /\ accepted \cup spoiled \subseteq RefreshTokens
    /\ exchanged \subseteq Nonces /\ nonces \subseteq Nonces
    /\ announced \in [ExpiryKinds -> Nat] /\ lapses \in [ExpiryKinds -> 0..MaxLapses]

\* The stored refresh token is never lost by the code's own doing: it is one the provider
\* accepts, or one that a refresh rotated and is about to replace, or could not replace.
\* A row without one is a row no connection has brought one to (TokenRefresher,
\* ConnectService.complete, OAuthTokenRepository.update_tokens).
RefreshKept ==
    row.phase \in Live =>
        IF row.refresh = NoToken
        THEN spoiled = {} /\ accepted \subseteq UNION {tx[w].seen : w \in Workers}
        ELSE row.refresh \in accepted \cup spoiled
                 \cup UNION {tx[w].by : w \in {v \in Workers : tx[v].op = "rotated"}}

\* An expiry is announced once, however many scanners sweep, and again only when the
\* marker of the earlier announcement was lost (CredentialExpiryScanner.sweep).
AnnouncedOnce == \A k \in ExpiryKinds : announced[k] <= 1 + lapses[k]
=============================================================================
