------------------------------- MODULE Tokens -------------------------------
(***************************************************************************)
(* Opaque tokens: pairs of an access and a refresh token in families,      *)
(* issued for an authorization code, a JWT assertion or client             *)
(* credentials, rotated with reuse detection, revoked; and access tokens   *)
(* minted for a task.  Tokens are rows in order of insertion; a secret is  *)
(* its row.  A row another transaction has not committed is not there yet. *)
(***************************************************************************)
EXTENDS Actors, Sequences

CONSTANTS
    Codes,       \* authorization codes
    Assertions,  \* JWT assertions an agent has signed (their jti)
    IssuerOf,    \* the agent that signs each
    MaxTtl,      \* assertion_max_ttl_seconds, in units of Tick
    MaxFamilies, MaxRefresh, MaxRestarts  \* bounds

ASSUME TokensOK ==
    IssuerOf \in [Assertions -> Agents] /\ MaxTtl \in Nat \ {0} /\ MaxRestarts \in Nat

VARIABLES
    family,     \* the actor of each token family, and how it authenticated
    refresh,    \* refresh token rows
    access,     \* access token rows
    code,       \* authorization_codes: "none", "fresh", "used", "expired"
    assertion,  \* of each jti: lifetime left, time left in the replay cache, exchanges
    restarts    \* restarts of the process so far

rows   == <<family, refresh, access>>
tokens == <<family, refresh, access, code, assertion, restarts>>

TokensInit ==
    /\ family = <<>> /\ refresh = <<>> /\ access = <<>>
    /\ code = [c \in Codes |-> "none"]
    /\ assertion = [j \in Assertions |-> [life |-> 0, cached |-> 0, used |-> 0]]
    /\ restarts = 0

NewRefresh(f) == [family |-> f, consumed |-> FALSE, revoked |-> FALSE, expired |-> FALSE]
NewAccess(f, S) == [family |-> f, scopes |-> S, revoked |-> FALSE, expired |-> FALSE]

-----------------------------------------------------------------------------
(* Issuing.                                                                *)

\* issue_pair: a new family with one token of each kind.  What the actor may do is
\* read live from its grants, so the scopes of the row are left out.
IssuePair(actor, via) ==
    /\ Len(family) < MaxFamilies /\ Len(refresh) < MaxRefresh
    /\ family' = Append(family, [actor |-> actor, via |-> via])
    /\ refresh' = Append(refresh, NewRefresh(Len(family')))
    /\ access' = Append(access, NewAccess(Len(family'), {}))

\* issue_access_only: an access token in a family of its own, with frozen scopes.
IssueAccessOnly(actor, S) ==
    /\ Len(family) < MaxFamilies
    /\ family' = Append(family, [actor |-> actor, via |-> "mint"])
    /\ access' = Append(access, NewAccess(Len(family'), S))
    /\ UNCHANGED refresh

\* authenticate_client_credentials reads status, secret and grants in one session ...
CheckClient(w, s) ==
    /\ s \in ServiceAccounts /\ status[s] = "active" /\ "secret" \in keys[s]
    /\ Look(w, "client", s, {}, 0)
    /\ UNCHANGED <<actors, tokens>>

\* ... and issues the pair in its own transaction.
IssueToClient(w) ==
    /\ IssuePair(tx[w].on, "client")
    /\ Short(w, "client")
    /\ UNCHANGED <<actors, code, assertion, restarts>>

\* mint_task_token: scopes within those of the service account whose key it called with
\* (a verified access token of a service account carries none), nonempty, for any agent.
CheckMint(w, s, a, S) ==
    /\ s \in ServiceAccounts /\ a \in Agents
    /\ S # {} /\ S \subseteq KeyPermissions(s)
    /\ Look(w, "mint", a, S, 0)
    /\ UNCHANGED <<actors, tokens>>

IssueMinted(w) ==
    /\ IssueAccessOnly(tx[w].on, tx[w].by)
    /\ Short(w, "mint")
    /\ UNCHANGED <<actors, code, assertion, restarts>>

-----------------------------------------------------------------------------
(* Authorization codes.                                                    *)

IssueCode(w, c) ==
    /\ code[c] = "none"
    /\ tx[w].op = "none" /\ MayBegin
    /\ code' = [code EXCEPT ![c] = "fresh"]
    /\ UNCHANGED <<tx, actors, rows, assertion, restarts>>

CodeExpires(c) ==
    /\ code[c] = "fresh"
    /\ code' = [code EXCEPT ![c] = "expired"]
    /\ UNCHANGED <<tx, actors, rows, assertion, restarts>>

\* Wrong variant: the code is read without locking its row.
BeginExchangeUnlocked(w, c) ==
    /\ code[c] = "fresh"
    /\ Begin(w, "exchange", c, {}, {})
    /\ UNCHANGED <<actors, tokens>>

\* exchange_code locks the row of a code that is neither used nor expired, for the
\* client, redirect and verifier it was issued for ...
BeginExchange(w, c) ==
    /\ code[c] = "fresh"
    /\ ~LockedByOther(w, {"exchange"}, c)
    /\ Begin(w, "exchange", c, {}, {})
    /\ UNCHANGED <<actors, tokens>>

\* ... commits that it is used (it may meanwhile have expired) ...
ConsumeCode(w) ==
    /\ tx[w].op = "exchange"
    /\ code' = [code EXCEPT ![tx[w].on] = "used"]
    /\ tx' = [tx EXCEPT ![w].op = "redeemed", ![w].open = FALSE]
    /\ UNCHANGED <<actors, rows, assertion, restarts>>

\* ... and only then issues the pair: a failure in between costs the user the code.
IssueForCode(w) ==
    /\ IssuePair(tx[w].on, "code")
    /\ Short(w, "redeemed")
    /\ UNCHANGED <<actors, code, assertion, restarts>>

-----------------------------------------------------------------------------
(* Assertions.                                                             *)

\* An agent signs an assertion; one that expires too late is refused until it does not.
Sign(j) ==
    /\ assertion[j].life = 0 /\ assertion[j].used = 0
    /\ \E life \in 1 .. MaxTtl + 1 : assertion' = [assertion EXCEPT ![j].life = life]
    /\ UNCHANGED <<tx, actors, rows, code, restarts>>

\* _JTICache remembers a jti for the longest lifetime an assertion may have.
Remembered(j) == MaxTtl

\* Wrong variant: the agent's row is read without a lock.
BeginAssertUnlocked(w, j) ==
    LET a == IssuerOf[j] IN
    /\ status[a] = "active" /\ "jwks" \in keys[a]
    /\ assertion[j].life \in 1 .. MaxTtl /\ assertion[j].cached = 0
    /\ assertion' = [assertion EXCEPT ![j].cached = Remembered(j), ![j].used = @ + 1]
    /\ Begin(w, "verify", a, {j}, {})
    /\ UNCHANGED <<actors, rows, code, restarts>>

\* verify_and_exchange locks the row of an active agent, checks signature and lifetime
\* and burns the jti.
BeginAssert(w, j) ==
    LET a == IssuerOf[j] IN
    /\ status[a] = "active" /\ "jwks" \in keys[a]
    /\ ~LockedByOther(w, RowLocks, a)
    /\ assertion[j].life \in 1 .. MaxTtl /\ assertion[j].cached = 0
    /\ assertion' = [assertion EXCEPT ![j].cached = Remembered(j), ![j].used = @ + 1]
    /\ Begin(w, "assert", a, {j}, {})
    /\ UNCHANGED <<actors, rows, code, restarts>>

\* The pair is issued by a second transaction, inside the first.  It begins as any other:
\* on SQLite it never does, because the first is the one writer.
IssueForAssertion(w) ==
    /\ tx[w].op \in {"assert", "verify"} /\ MayBegin
    /\ IssuePair(tx[w].on, "assertion")
    /\ End(w)
    /\ UNCHANGED <<actors, code, assertion, restarts>>

\* Time passes for assertions and for the replay cache.
Tick ==
    /\ \E j \in Assertions : assertion[j].life > 0 \/ assertion[j].cached > 0
    /\ assertion' = [j \in Assertions |->
            [life |-> IF assertion[j].life = 0 THEN 0 ELSE assertion[j].life - 1,
             cached |-> IF assertion[j].cached = 0 THEN 0 ELSE assertion[j].cached - 1,
             used |-> assertion[j].used]]
    /\ UNCHANGED <<tx, actors, rows, code, restarts>>

\* The process starts again, without its requests and its replay cache.
Restart ==
    /\ restarts < MaxRestarts
    /\ restarts' = restarts + 1
    /\ tx' = [w \in Workers |-> NoRequest]
    /\ assertion' = [j \in Assertions |-> [assertion[j] EXCEPT !.cached = 0]]
    /\ UNCHANGED <<actors, rows, code>>

-----------------------------------------------------------------------------
(* Rotation and reuse.                                                     *)

RefreshLocks == {"rotate", "reuse"}

\* refresh locks the token's row and looks at it: revoked and expired tokens are
\* refused, one already consumed is reuse, any other is rotated.
BeginRefresh(w, i) ==
    /\ i \in DOMAIN refresh
    /\ ~refresh[i].revoked /\ ~refresh[i].expired
    /\ ~LockedByOther(w, RefreshLocks, i)
    /\ Begin(w, IF refresh[i].consumed THEN "reuse" ELSE "rotate", i, {}, {})
    /\ UNCHANGED <<actors, tokens>>

\* Wrong variant: the token that was presented stays usable.
RotateKeeping(w) ==
    LET i == tx[w].on IN
    /\ tx[w].op = "rotate"
    /\ Len(refresh) < MaxRefresh
    /\ refresh' = Append(refresh, NewRefresh(refresh[i].family))
    /\ access' = Append(access, NewAccess(refresh[i].family, {}))
    /\ End(w)
    /\ UNCHANGED <<actors, family, code, assertion, restarts>>

\* The new pair, and the consumption of the old token, become visible together.
Rotate(w) ==
    LET i == tx[w].on IN
    /\ tx[w].op = "rotate"
    /\ Len(refresh) < MaxRefresh
    /\ refresh' = Append([refresh EXCEPT ![i].consumed = TRUE], NewRefresh(refresh[i].family))
    /\ access' = Append(access, NewAccess(refresh[i].family, {}))
    /\ End(w)
    /\ UNCHANGED <<actors, family, code, assertion, restarts>>

\* revoke() with a refresh token: a plain read.
BeginRevoke(w, i) ==
    /\ i \in DOMAIN refresh /\ ~refresh[i].revoked
    /\ Begin(w, "revoke", i, {}, {})
    /\ UNCHANGED <<actors, tokens>>

\* The UPDATE of revoke_family begins: it sees the rows committed by now ...
StartRevoke(w) ==
    /\ tx[w].op \in {"reuse", "revoke"} /\ tx[w].seen = {}
    /\ tx' = [tx EXCEPT ![w].seen = DOMAIN refresh]
    /\ UNCHANGED <<actors, tokens>>

Siblings(i) == {k \in DOMAIN refresh : refresh[k].family = refresh[i].family}

\* Wrong variant: only the tokens that can still be rotated are revoked.
RevokeConsumed(f, seen) ==
    [k \in DOMAIN refresh |->
        IF k \in seen /\ refresh[k].family = f /\ refresh[k].consumed
        THEN [refresh[k] EXCEPT !.revoked = TRUE] ELSE refresh[k]]

\* revoke_family over the refresh rows the statement saw.
RevokeRows(f, seen) ==
    [k \in DOMAIN refresh |->
        IF k \in seen /\ refresh[k].family = f
        THEN [refresh[k] EXCEPT !.revoked = TRUE] ELSE refresh[k]]

\* ... waits for those others have locked, and revokes them; a second UPDATE revokes
\* every access token the family has by then.
FinishRevoke(w) ==
    LET i == tx[w].on
        f == refresh[i].family
    IN  /\ tx[w].op \in {"reuse", "revoke"} /\ tx[w].seen # {}
        /\ \A k \in Siblings(i) \cap tx[w].seen : ~LockedByOther(w, RefreshLocks, k)
        /\ refresh' = RevokeRows(f, tx[w].seen)
        /\ access' = [k \in DOMAIN access |->
               IF access[k].family = f THEN [access[k] EXCEPT !.revoked = TRUE] ELSE access[k]]
        /\ End(w)
        /\ UNCHANGED <<actors, family, code, assertion, restarts>>

\* revoke() with an access token revokes that token alone.
RevokeAccess(w, k) ==
    /\ k \in DOMAIN access /\ ~access[k].revoked
    /\ tx[w].op = "none" /\ MayBegin
    /\ access' = [access EXCEPT ![k].revoked = TRUE]
    /\ UNCHANGED <<tx, actors, family, refresh, code, assertion, restarts>>

\* A token outlives its lifetime.
RefreshExpires(i) ==
    /\ i \in DOMAIN refresh /\ ~refresh[i].expired
    /\ refresh' = [refresh EXCEPT ![i].expired = TRUE]
    /\ UNCHANGED <<tx, actors, family, access, code, assertion, restarts>>

AccessExpires(k) ==
    /\ k \in DOMAIN access /\ ~access[k].expired
    /\ access' = [access EXCEPT ![k].expired = TRUE]
    /\ UNCHANGED <<tx, actors, family, refresh, code, assertion, restarts>>

-----------------------------------------------------------------------------
CodeStep(w) ==
    \/ \E c \in Codes : IssueCode(w, c) \/ BeginExchange(w, c)
    \/ ConsumeCode(w) \/ IssueForCode(w)

RotationStep(w) ==
    \/ \E i \in 1 .. MaxRefresh : BeginRefresh(w, i) \/ BeginRevoke(w, i)
    \/ Rotate(w) \/ StartRevoke(w) \/ FinishRevoke(w)
    \/ \E k \in DOMAIN access : RevokeAccess(w, k)

AssertionStep(w) == IssueForAssertion(w) \/ \E j \in Assertions : BeginAssert(w, j)

ClientStep(w) ==
    \/ \E s \in ServiceAccounts : CheckClient(w, s)
    \/ \E s \in ServiceAccounts, a \in Agents, S \in SUBSET Scopes : CheckMint(w, s, a, S)
    \/ IssueToClient(w) \/ IssueMinted(w)

TokenStep(w) == CodeStep(w) \/ RotationStep(w) \/ AssertionStep(w) \/ ClientStep(w)

Lifetimes ==
    \/ \E c \in Codes : CodeExpires(c)
    \/ \E i \in DOMAIN refresh : RefreshExpires(i)
    \/ \E k \in DOMAIN access : AccessExpires(k)

Environment == Lifetimes \/ Tick \/ Restart \/ \E j \in Assertions : Sign(j)

TokensTypeOK ==
    /\ family \in Seq([actor : ActorIds \cup Codes, via : {"code", "assertion", "client", "mint"}])
    /\ \A i \in DOMAIN refresh : refresh[i] \in
          [family : DOMAIN family, consumed : BOOLEAN, revoked : BOOLEAN, expired : BOOLEAN]
    /\ \A k \in DOMAIN access : access[k] \in
          [family : DOMAIN family, scopes : SUBSET Scopes, revoked : BOOLEAN, expired : BOOLEAN]
    /\ code \in [Codes -> {"none", "fresh", "used", "expired"}]
    /\ assertion \in [Assertions -> [life : 0 .. MaxTtl + 1, cached : 0 .. MaxTtl, used : Nat]]
    /\ restarts \in 0 .. MaxRestarts

\* The tokens of a family that can still be rotated.
Rotatable(f) ==
    {i \in DOMAIN refresh : refresh[i].family = f /\ ~refresh[i].consumed /\ ~refresh[i].revoked}

\* However refreshes, revocations and failures interleave, on either database, a
\* family never has two refresh tokens that can be rotated: a chain, never a tree.
OneRotatable == \A f \in DOMAIN family : Cardinality(Rotatable(f)) <= 1

\* Reuse detection and revocation leave nothing of the family (TokenService.refresh:
\* "the entire token family is revoked"), and no refresh already begun revives it.
FamilyRevokedWhole ==
    \A i \in DOMAIN refresh : refresh[i].revoked =>
        /\ \A k \in Siblings(i) : refresh[k].revoked
        /\ \A k \in DOMAIN access : access[k].family = refresh[i].family => access[k].revoked

\* It holds where transactions are serial.
FamilyRevokedWholeSerial == Serial => FamilyRevokedWhole

\* When reuse is detected, the whole family is revoked, on either database.
ReuseRevokesFamily ==
    [][\A w \in Workers :
          tx[w].op = "reuse" /\ FinishRevoke(w) =>
              \A k \in DOMAIN refresh' :
                  refresh'[k].family = refresh[tx[w].on].family => refresh'[k].revoked]_<<db, tx, actors, tokens>>

\* The families an authorization code was exchanged for.
BoughtWith(c) == {f \in DOMAIN family : family[f] = [actor |-> c, via |-> "code"]}

\* An authorization code buys one token family at most, through concurrent exchanges,
\* expiry and failures between its consumption and the pair.
CodeBuysOneFamily ==
    \A c \in Codes : Cardinality(BoughtWith(c)) <= 1

\* A JWT assertion is exchanged at most once by each life of the process, although the
\* replay cache forgets it.
AssertionUsedOnce == \A j \in Assertions : assertion[j].used <= 1 + restarts

\* No assertion brings a pair to an agent that is not active at that moment: the lock
\* on its row keeps a concurrent disable or archive out until the pair is issued.
AssertionOfActiveAgent ==
    [][\A w \in Workers :
          IssueForAssertion(w) => status[tx[w].on] = "active"]_<<db, tx, actors, tokens>>

\* Both: what a JWT assertion may buy, and for whom (AssertionService.exchange).
AssertionsSound == []AssertionUsedOnce /\ AssertionOfActiveAgent
=============================================================================
