---------------------------- MODULE IdentityProofs ----------------------------
(***************************************************************************)
(* Theorems about Identity, for any actors, codes, assertions, people and  *)
(* workers, on either database.  Each part has an invariant of its own,    *)
(* kept by its own handlers and by every step of the others; the three     *)
(* share the workers, whose operations tell the parts apart.               *)
(***************************************************************************)
EXTENDS Identity, DatabaseProofs, FiniteSetTheorems

-----------------------------------------------------------------------------
(* Users, for any people, thresholds and permissions: types, the bound on  *)
(* guesses, invitations used once and administrators made by               *)
(* administrators.                                                         *)

UserOps == {"setup", "create", "assign", "assigning", "reissue", "reissuing", "redeem",
            "welcome", "wrong", "failing"}

\* What a request r of the users' handlers rests on, in users U with invitations I.
UserHolds(r, U, I) ==
    /\ r.op \in UserOps => r.on \in People
    /\ r.op \in {"create", "assign", "assigning"} => r.by \subseteq Catalogue
    /\ r.op \in {"wrong", "failing"} => r.n \in Nat
    /\ r.op = "failing" => \E count \in 0 .. MaxFailures : r.seen = {count}
    /\ r.op \in {"setup", "assigning", "reissuing", "redeem", "failing"} => r.open
    /\ r.op \in {"reissue", "reissuing"} => U[r.on].exists
    /\ r.op = "redeem" => \E k \in DOMAIN I[r.on] : r.seen = {k}

UsersHeld == \A w \in Workers : UserHolds(tx[w], user, invites)

\* Only users are invited.
OnlyUsersInvited == \A u \in People : invites[u] # <<>> => user[u].exists

UserTypes == UsersTypeOK /\ UsersHeld /\ OnlyUsersInvited

UserRow == [exists : BOOLEAN, active : BOOLEAN, named : BOOLEAN, redeemed : BOOLEAN,
            password : {"none", "own", "temporary"}, failed : 0 .. MaxFailures,
            locked : {"never", "now", "past"}]

Invite == [state : {"open", "used", "expired"}, uses : Nat]

\* A step of other handlers leaves the users alone.
UsersKept ==
    /\ UNCHANGED <<db, users>>
    /\ \A v \in Workers : tx'[v].op \in UserOps => tx'[v] = tx[v]

\* The rows of new users.
LEMMA NewRows ==
    /\ NewUser = [exists |-> TRUE, active |-> TRUE, named |-> TRUE, redeemed |-> FALSE,
                  password |-> "none", failed |-> 0, locked |-> "never"]
    /\ Founder = [exists |-> TRUE, active |-> TRUE, named |-> TRUE, redeemed |-> TRUE,
                  password |-> "own", failed |-> 0, locked |-> "never"]
    /\ NewUser \in UserRow /\ Founder \in UserRow
  <1>1. PICK r1 : r1 = [Nobody EXCEPT !.exists = TRUE]
    OBVIOUS
  <1>2. PICK r2 : r2 = [r1 EXCEPT !.active = TRUE]
    OBVIOUS
  <1>3. PICK r3 : r3 = [r2 EXCEPT !.named = TRUE]
    OBVIOUS
  <1>4. PICK r4 : r4 = [r3 EXCEPT !.redeemed = TRUE]
    OBVIOUS
  <1>5. PICK r5 : r5 = [r4 EXCEPT !.password = "own"]
    OBVIOUS
  <1>6. NewUser = r3 /\ Founder = r5
    BY <1>1, <1>2, <1>3, <1>4, <1>5 DEF NewUser, Founder
  <1>7. r3 = [exists |-> TRUE, active |-> TRUE, named |-> TRUE, redeemed |-> FALSE,
              password |-> "none", failed |-> 0, locked |-> "never"]
    BY <1>1, <1>2, <1>3 DEF Nobody
  <1>8. r5 = [exists |-> TRUE, active |-> TRUE, named |-> TRUE, redeemed |-> TRUE,
              password |-> "own", failed |-> 0, locked |-> "never"]
    BY <1>7, <1>4, <1>5
  <1>9. r3 \in UserRow /\ r5 \in UserRow
    BY <1>7, <1>8, UsersOK DEF UserRow
  <1> QED BY <1>6, <1>7, <1>8, <1>9

\* A row after the updates of the handlers.
LEMMA FailedUpdate ==
    ASSUME NEW q \in UserRow, NEW n \in 0 .. MaxFailures, NEW r, r = [q EXCEPT !.failed = n]
    PROVE  r \in UserRow /\ r.exists = q.exists /\ r.failed = n /\ r.locked = q.locked
  BY DEF UserRow

LEMMA PasswordUpdate ==
    ASSUME NEW q \in UserRow, NEW s \in {"own", "temporary"}, NEW r, r = [q EXCEPT !.password = s]
    PROVE  r \in UserRow /\ r.exists = q.exists /\ r.failed = q.failed /\ r.locked = q.locked
  BY DEF UserRow

LEMMA ActiveUpdate ==
    ASSUME NEW q \in UserRow, NEW b \in BOOLEAN, NEW r, r = [q EXCEPT !.active = b]
    PROVE  r \in UserRow /\ r.exists = q.exists /\ r.failed = q.failed /\ r.locked = q.locked
  BY DEF UserRow

LEMMA RedeemUpdate ==
    ASSUME NEW q \in UserRow, NEW r, r = [q EXCEPT !.password = "own", !.redeemed = TRUE]
    PROVE  r \in UserRow /\ r.exists = q.exists /\ r.failed = q.failed /\ r.locked = q.locked
  <1>1. PICK r1 : r1 = [q EXCEPT !.password = "own"]
    OBVIOUS
  <1>2. r = [r1 EXCEPT !.redeemed = TRUE]
    BY <1>1
  <1>3. r1 \in UserRow /\ r1.exists = q.exists /\ r1.failed = q.failed /\ r1.locked = q.locked
    BY <1>1, PasswordUpdate
  <1> QED BY <1>2, <1>3 DEF UserRow

LEMMA DeleteUpdate ==
    ASSUME NEW q \in UserRow, NEW r, r = [q EXCEPT !.named = FALSE, !.active = FALSE]
    PROVE  r \in UserRow /\ r.exists = q.exists /\ r.failed = q.failed /\ r.locked = q.locked
  <1>1. PICK r1 : r1 = [q EXCEPT !.named = FALSE]
    OBVIOUS
  <1>2. r = [r1 EXCEPT !.active = FALSE]
    BY <1>1
  <1>3. r1 \in UserRow /\ r1.exists = q.exists /\ r1.failed = q.failed /\ r1.locked = q.locked
    BY <1>1 DEF UserRow
  <1> QED BY <1>2, <1>3, ActiveUpdate

LEMMA ResetUpdate ==
    ASSUME NEW q \in UserRow, NEW r,
           r = [q EXCEPT !.password = "temporary", !.failed = 0, !.locked = "never"]
    PROVE  r \in UserRow /\ r.exists = q.exists /\ r.failed = 0 /\ r.locked = "never"
  <1>1. PICK r1 : r1 = [q EXCEPT !.password = "temporary"]
    OBVIOUS
  <1>2. PICK r2 : r2 = [r1 EXCEPT !.failed = 0]
    OBVIOUS
  <1>3. r = [r2 EXCEPT !.locked = "never"]
    BY <1>1, <1>2
  <1>4. r1 \in UserRow /\ r1.exists = q.exists
    BY <1>1, PasswordUpdate
  <1>5. r2 \in UserRow /\ r2.exists = q.exists /\ r2.failed = 0
    BY <1>2, <1>4, FailedUpdate, UsersOK
  <1> QED BY <1>3, <1>5 DEF UserRow

LEMMA UsersStart ==
    ASSUME UsersOK, DatabaseInv, \A w \in Workers : tx[w].op = "none", UsersInit
    PROVE  UserTypes
  <1>1. Nobody \in UserRow
    BY UsersOK DEF Nobody, UserRow
  <1>2. UsersTypeOK
    BY <1>1 DEF UsersInit, UsersTypeOK, UserRow
  <1>3. UsersHeld
    BY DEF UsersHeld, UserHolds, UserOps
  <1>4. OnlyUsersInvited
    BY DEF OnlyUsersInvited, UsersInit
  <1> QED BY <1>2, <1>3, <1>4 DEF UserTypes

LEMMA UserTypesKept ==
    ASSUME UserTypes, UsersKept
    PROVE  UserTypes'
  <1>1. UNCHANGED <<user, permitted, invites, founders>>
    BY DEF UsersKept, users
  <1>2. UsersTypeOK'
    BY <1>1 DEF UserTypes, UsersTypeOK
  <1>3. UsersHeld'
    BY <1>1 DEF UserTypes, UsersHeld, UserHolds, UsersKept, UserOps
  <1>4. OnlyUsersInvited'
    BY <1>1 DEF UserTypes, OnlyUsersInvited
  <1> QED BY <1>2, <1>3, <1>4 DEF UserTypes

-----------------------------------------------------------------------------
(* Types.                                                                  *)

\* Users stay, and so do their invitations.
UsersStay ==
    \A u \in People :
        /\ user[u].exists => user'[u].exists
        /\ DOMAIN invites[u] \subseteq DOMAIN invites'[u]

LEMMA HeldAfterTurn ==
    ASSUME UsersHeld, UsersStay, NEW w \in Workers, NEW r, Turns(w, r), UserHolds(r, user', invites')
    PROVE  UsersHeld'
  <1> SUFFICES ASSUME NEW v \in Workers
               PROVE  UserHolds(tx'[v], user', invites')
    BY DEF UsersHeld, UserHolds
  <1>1. CASE v = w
    BY <1>1 DEF Turns
  <1>2. CASE v # w
    <2>1. tx'[v] = tx[v] /\ UserHolds(tx[v], user, invites)
      BY <1>2 DEF Turns, UsersHeld
    <2>2. tx[v].op \in {"reissue", "reissuing"} => user'[tx[v].on].exists
      BY <2>1 DEF UsersStay, UserHolds, UserOps
    <2>3. tx[v].op = "redeem" => DOMAIN invites[tx[v].on] \subseteq DOMAIN invites'[tx[v].on]
      BY <2>1 DEF UsersStay, UserHolds, UserOps
    <2> QED BY <2>1, <2>2, <2>3 DEF UserHolds
  <1> QED BY <1>1, <1>2

LEMMA HeldAfterStutter ==
    ASSUME UsersHeld, UsersStay, tx' = tx
    PROVE  UsersHeld'
  <1> SUFFICES ASSUME NEW v \in Workers
               PROVE  UserHolds(tx[v], user', invites')
    BY DEF UsersHeld, UserHolds
  <1>1. UserHolds(tx[v], user, invites)
    BY DEF UsersHeld
  <1>2. tx[v].op \in {"reissue", "reissuing"} => user'[tx[v].on].exists
    BY <1>1 DEF UsersStay, UserHolds, UserOps
  <1>3. tx[v].op = "redeem" => DOMAIN invites[tx[v].on] \subseteq DOMAIN invites'[tx[v].on]
    BY <1>1 DEF UsersStay, UserHolds, UserOps
  <1> QED BY <1>1, <1>2, <1>3 DEF UserHolds

LEMMA NoRequestHolds == ASSUME NEW U, NEW I PROVE UserHolds(NoRequest, U, I)
  BY NoRequestFields DEF UserHolds, UserOps

LEMMA UnchangedUsersStay == ASSUME UNCHANGED <<user, invites>> PROVE UsersStay
  BY DEF UsersStay

\* A row is updated, and the rest stays.
LEMMA UserUpdated ==
    ASSUME UsersTypeOK, OnlyUsersInvited, NEW u \in People, NEW r \in UserRow,
           user[u].exists => r.exists, user' = [user EXCEPT ![u] = r],
           UNCHANGED <<permitted, invites, founders>>
    PROVE  UsersTypeOK' /\ OnlyUsersInvited' /\ UsersStay
  <1>1. user \in [People -> UserRow]
    BY DEF UsersTypeOK, UserRow
  <1>2. user' \in [People -> UserRow]
    BY <1>1
  <1>3. \A p \in People : user'[p] = IF p = u THEN r ELSE user[p]
    BY <1>1
  <1>4. UsersTypeOK'
    BY <1>2 DEF UsersTypeOK, UserRow
  <1> QED BY <1>3, <1>4 DEF OnlyUsersInvited, UsersStay

\* An invitation after the updates of the handlers.
LEMMA ClosedUpdate ==
    ASSUME NEW q \in Invite, NEW st \in {"used", "expired"}, NEW r, r = [q EXCEPT !.state = st]
    PROVE  r \in Invite /\ r.uses = q.uses /\ r.state = st
  BY DEF Invite

LEMMA UsedUpdate ==
    ASSUME NEW q \in Invite, NEW r, r = [q EXCEPT !.state = "used", !.uses = q.uses + 1]
    PROVE  r \in Invite /\ r.uses = q.uses + 1 /\ r.state = "used"
  <1>1. PICK r1 : r1 = [q EXCEPT !.state = "used"]
    OBVIOUS
  <1>2. r1 \in Invite /\ r1.state = "used" /\ q.uses \in Nat
    BY <1>1 DEF Invite
  <1>3. r = [r1 EXCEPT !.uses = q.uses + 1]
    BY <1>1
  <1> QED BY <1>2, <1>3 DEF Invite

LEMMA PermissionTypes ==
    ASSUME UserTypes, DatabaseInv, db' = db, NEW w \in Workers, PermissionStep(w)
    PROVE  UserTypes' /\ DatabaseInv'
  <1> USE DEF UserTypes
  <1>0. TxShape /\ UsersHeld
    BY DEF DatabaseInv
  <1>1. ASSUME NEW u \in People, BeginSetup(w, u)
        PROVE  UserTypes' /\ DatabaseInv'
    <2>1. UNCHANGED <<user, permitted, invites, founders>> /\ UsersTypeOK' /\ OnlyUsersInvited'
      BY <1>1 DEF BeginSetup, users, UsersTypeOK, OnlyUsersInvited
    <2>2. MayBegin /\ Turns(w, Request("setup", u, {}, {}, 0, TRUE))
      BY <1>0, <1>1, BeginTurns DEF BeginSetup
    <2>3. UserHolds(Request("setup", u, {}, {}, 0, TRUE), user', invites')
      BY DEF Request, UserHolds, UserOps
    <2>4. UsersHeld'
      BY <1>0, <2>1, <2>2, <2>3, UnchangedUsersStay, HeldAfterTurn
    <2> QED BY <2>1, <2>2, <2>4, TurnKeepsDatabase
  <1>2. ASSUME NEW u \in People, ProvisionUser(w, u)
        PROVE  UserTypes' /\ DatabaseInv'
    <2>1. UNCHANGED <<tx, permitted, invites, founders>> /\ user' = [user EXCEPT ![u] = NewUser]
      BY <1>2 DEF ProvisionUser
    <2>2. NewUser \in UserRow /\ NewUser.exists
      BY NewRows
    <2>3. UsersTypeOK' /\ OnlyUsersInvited'
      BY <2>1, <2>2 DEF UsersTypeOK, UserRow, OnlyUsersInvited
    <2>4. UsersStay
      BY <2>1, <2>2 DEF UsersStay, UsersTypeOK
    <2> QED BY <1>0, <2>1, <2>3, <2>4, HeldAfterStutter, StutterKeepsDatabase
  <1>3. ASSUME NEW g \in People, NEW u \in People, NEW P \in Grantable,
               NEW op \in {"create", "assign"}, ValidateGrant(w, op, g, u, P)
        PROVE  UserTypes' /\ DatabaseInv'
    <2>1. UNCHANGED <<user, permitted, invites, founders>> /\ UsersTypeOK' /\ OnlyUsersInvited'
      BY <1>3 DEF ValidateGrant, users, UsersTypeOK, OnlyUsersInvited
    <2>2. Turns(w, Request(op, u, P, {}, 0, FALSE))
      BY <1>0, <1>3, LookTurns DEF ValidateGrant
    <2>3. UserHolds(Request(op, u, P, {}, 0, FALSE), user', invites')
      BY UsersOK DEF Request, UserHolds, UserOps
    <2>4. UsersHeld'
      BY <1>0, <2>1, <2>2, <2>3, UnchangedUsersStay, HeldAfterTurn
    <2>5. op # "none" /\ FALSE \in BOOLEAN
      OBVIOUS
    <2> QED BY <2>1, <2>2, <2>4, <2>5, TurnKeepsDatabase
  <1>4. CASE FinishSetup(w)
    <2> DEFINE u == tx[w].on
    <2>1. u \in People /\ tx[w].op = "setup"
      BY <1>0, <1>4 DEF FinishSetup, UsersHeld, UserHolds, UserOps
    <2>2. /\ user' = [user EXCEPT ![u] = Founder] /\ permitted' = [permitted EXCEPT ![u] = {OrgAdmin}]
          /\ founders' = {u} /\ UNCHANGED invites /\ Turns(w, NoRequest)
      BY <1>0, <1>4, EndTurns DEF FinishSetup
    <2>3. Founder \in UserRow /\ Founder.exists
      BY NewRows
    <2>4. UsersTypeOK' /\ OnlyUsersInvited'
      BY <2>1, <2>2, <2>3 DEF UsersTypeOK, UserRow, OnlyUsersInvited, Catalogue
    <2>5. UsersStay
      BY <2>1, <2>2, <2>3 DEF UsersStay, UsersTypeOK
    <2> QED BY <1>0, <2>2, <2>4, <2>5, NoRequestHolds, HeldAfterTurn, EndKeepsDatabase
  <1>5. CASE CreateUser(w)
    <2> DEFINE u == tx[w].on
               first == [state |-> "open", uses |-> 0]
    <2>1. u \in People /\ tx[w].by \subseteq Catalogue
      BY <1>0, <1>5 DEF CreateUser, UsersHeld, UserHolds, UserOps
    <2>2. /\ user' = [user EXCEPT ![u] = NewUser] /\ permitted' = [permitted EXCEPT ![u] = tx[w].by]
          /\ invites' = [invites EXCEPT ![u] = <<first>>]
          /\ UNCHANGED founders /\ Turns(w, NoRequest) /\ ~user[u].exists
      BY <1>0, <1>5, ShortTurns DEF CreateUser
    <2>3. NewUser \in UserRow /\ NewUser.exists /\ <<first>> \in Seq(Invite)
      BY NewRows DEF Invite
    <2>4. UsersTypeOK'
      BY <2>1, <2>2, <2>3 DEF UsersTypeOK, UserRow, Invite
    <2>5. OnlyUsersInvited' /\ UsersStay
      <3>1. invites[u] = <<>>
        BY <2>1, <2>2 DEF OnlyUsersInvited
      <3> QED BY SMTT(60), <3>1, <2>1, <2>2, <2>3 DEF OnlyUsersInvited, UsersStay, UsersTypeOK
    <2> QED BY <1>0, <2>2, <2>4, <2>5, NoRequestHolds, HeldAfterTurn, EndKeepsDatabase
  <1>6. CASE BeginAssign(w)
    <2> DEFINE u == tx[w].on
               r == Request("assigning", u, tx[w].by, permitted[u], tx[w].n, TRUE)
    <2>1. u \in People /\ tx[w].by \subseteq Catalogue
      BY <1>0, <1>6 DEF BeginAssign, Open, UsersHeld, UserHolds, UserOps
    <2>2. UNCHANGED <<user, permitted, invites, founders>> /\ UsersTypeOK' /\ OnlyUsersInvited'
      BY <1>6 DEF BeginAssign, users, UsersTypeOK, OnlyUsersInvited
    <2>3. MayBegin /\ Turns(w, r)
      BY <1>0, <1>6, OpenTurns DEF BeginAssign
    <2>4. UserHolds(r, user', invites')
      BY <2>1 DEF Request, UserHolds, UserOps
    <2>5. UsersHeld'
      BY <1>0, <2>2, <2>3, <2>4, UnchangedUsersStay, HeldAfterTurn
    <2> QED BY <2>2, <2>3, <2>5, TurnKeepsDatabase
  <1>7. CASE FinishAssign(w)
    <2> DEFINE u == tx[w].on
    <2>1. u \in People /\ tx[w].by \subseteq Catalogue
      BY <1>0, <1>7 DEF FinishAssign, UsersHeld, UserHolds, UserOps
    <2>2. /\ permitted' = [permitted EXCEPT ![u] = (permitted[u] \ tx[w].seen) \cup tx[w].by]
          /\ UNCHANGED <<user, invites, founders>> /\ Turns(w, NoRequest)
      BY <1>0, <1>7, EndTurns DEF FinishAssign
    <2>3. UsersTypeOK' /\ OnlyUsersInvited'
      BY <2>1, <2>2 DEF UsersTypeOK, OnlyUsersInvited
    <2> QED BY <1>0, <2>2, <2>3, UnchangedUsersStay, NoRequestHolds, HeldAfterTurn, EndKeepsDatabase
  <1> QED BY <1>1, <1>2, <1>3, <1>4, <1>5, <1>6, <1>7 DEF PermissionStep

LEMMA InviteTypes ==
    ASSUME UserTypes, DatabaseInv, db' = db, NEW w \in Workers, InviteStep(w)
    PROVE  UserTypes' /\ DatabaseInv'
  <1> USE DEF UserTypes
  <1>0. TxShape /\ UsersHeld
    BY DEF DatabaseInv
  <1>1. ASSUME NEW u \in People, CheckReissue(w, u)
        PROVE  UserTypes' /\ DatabaseInv'
    <2>1. UNCHANGED <<user, permitted, invites, founders>> /\ UsersTypeOK' /\ OnlyUsersInvited'
      BY <1>1 DEF CheckReissue, users, UsersTypeOK, OnlyUsersInvited
    <2>2. Turns(w, Request("reissue", u, {}, {}, 0, FALSE)) /\ user[u].exists
      BY <1>0, <1>1, LookTurns DEF CheckReissue
    <2>3. UserHolds(Request("reissue", u, {}, {}, 0, FALSE), user', invites')
      BY <2>1, <2>2 DEF Request, UserHolds, UserOps
    <2>4. UsersHeld'
      BY <1>0, <2>1, <2>2, <2>3, UnchangedUsersStay, HeldAfterTurn
    <2> QED BY <2>1, <2>2, <2>4, TurnKeepsDatabase
  <1>2. ASSUME NEW u \in People, DeleteUser(w, u)
        PROVE  UserTypes' /\ DatabaseInv'
    <2>1. /\ UNCHANGED <<tx, permitted, invites, founders>>
          /\ user' = [user EXCEPT ![u].named = FALSE, ![u].active = FALSE]
      BY <1>2 DEF DeleteUser
    <2>2. PICK r : r = [user[u] EXCEPT !.named = FALSE, !.active = FALSE]
      OBVIOUS
    <2>3. user[u] \in UserRow
      BY DEF UsersTypeOK, UserRow
    <2>4. r \in UserRow /\ r.exists = user[u].exists
      BY <2>2, <2>3, DeleteUpdate
    <2>5. user' = [user EXCEPT ![u] = r]
      BY <2>1, <2>2
    <2>6. UsersTypeOK' /\ OnlyUsersInvited' /\ UsersStay
      BY <2>1, <2>4, <2>5, UserUpdated
    <2> QED BY <1>0, <2>1, <2>6, HeldAfterStutter, StutterKeepsDatabase
  <1>3. CASE BeginReissue(w)
    <2> DEFINE u == tx[w].on
               r == Request("reissuing", u, tx[w].by, OpenInvites(u), tx[w].n, TRUE)
    <2>1. u \in People /\ user[u].exists
      BY <1>0, <1>3 DEF BeginReissue, Open, UsersHeld, UserHolds, UserOps
    <2>2. UNCHANGED <<user, permitted, invites, founders>> /\ UsersTypeOK' /\ OnlyUsersInvited'
      BY <1>3 DEF BeginReissue, users, UsersTypeOK, OnlyUsersInvited
    <2>3. MayBegin /\ Turns(w, r)
      BY <1>0, <1>3, OpenTurns DEF BeginReissue
    <2>4. UserHolds(r, user', invites')
      BY <2>1, <2>2 DEF Request, UserHolds, UserOps
    <2>5. UsersHeld'
      BY <1>0, <2>2, <2>3, <2>4, UnchangedUsersStay, HeldAfterTurn
    <2> QED BY <2>2, <2>3, <2>5, TurnKeepsDatabase
  <1>4. CASE FinishReissue(w)
    <2> DEFINE u == tx[w].on
               closed == [k \in DOMAIN invites[u] |->
                   IF k \in tx[w].seen THEN [invites[u][k] EXCEPT !.state = "used"] ELSE invites[u][k]]
               new == [state |-> "open", uses |-> 0]
    <2>1. u \in People /\ user[u].exists
      BY SMTT(60), <1>0, <1>4 DEF FinishReissue, UsersHeld, UserHolds, UserOps
    <2>2. /\ invites' = [invites EXCEPT ![u] = Append(closed, new)]
          /\ UNCHANGED <<user, permitted, founders>> /\ Turns(w, NoRequest)
      BY <1>0, <1>4, EndTurns DEF FinishReissue
    <2>3. invites[u] \in Seq(Invite) /\ new \in Invite
      BY <2>1 DEF UsersTypeOK, Invite
    <2>4. closed \in Seq(Invite) /\ Len(closed) = Len(invites[u])
      <3>1. closed \in [1 .. Len(invites[u]) -> Invite]
        <4>1. /\ DOMAIN invites[u] = 1 .. Len(invites[u])
              /\ \A k \in DOMAIN invites[u] : invites[u][k] \in Invite
          BY <2>3
        <4>2. \A k \in DOMAIN invites[u] : [invites[u][k] EXCEPT !.state = "used"] \in Invite
          BY <4>1 DEF Invite
        <4> QED BY <4>1, <4>2
      <3>2. Len(invites[u]) \in Nat
        BY <2>3
      <3> HIDE DEF closed
      <3> QED BY <3>1, <3>2
    <2>5. Append(closed, new) \in Seq(Invite) /\ DOMAIN invites[u] \subseteq DOMAIN Append(closed, new)
      BY <2>3, <2>4
    <2>6. UsersTypeOK' /\ OnlyUsersInvited' /\ UsersStay
      <3> HIDE DEF closed, new
      <3> QED BY <2>1, <2>2, <2>5 DEF UsersTypeOK, UsersStay, OnlyUsersInvited, Invite
    <2> QED BY <1>0, <2>2, <2>6, NoRequestHolds, HeldAfterTurn, EndKeepsDatabase
  <1>5. CASE FinishRedeem(w)
    <2> DEFINE u == tx[w].on
    <2>1. u \in People /\ tx[w].op = "redeem"
      BY <1>0, <1>5 DEF FinishRedeem, UsersHeld, UserHolds, UserOps
    <2>2. PICK k : k \in tx[w].seen /\
                   invites' = [invites EXCEPT ![u][k].state = "used", ![u][k].uses = @ + 1]
      BY <1>5 DEF FinishRedeem
    <2>a. PICK i : i = [invites[u] EXCEPT ![k] = [invites[u][k] EXCEPT !.state = "used", !.uses = @ + 1]]
      OBVIOUS
    <2>b. invites' = [invites EXCEPT ![u] = i]
      BY <2>2, <2>a
    <2>3. k \in DOMAIN invites[u]
      BY <1>0, <2>1, <2>2 DEF UsersHeld, UserHolds
    <2>4. /\ user' = [user EXCEPT ![u].password = "own", ![u].redeemed = TRUE]
          /\ UNCHANGED <<permitted, founders>> /\ Turns(w, NoRequest)
      BY <1>0, <1>5, EndTurns DEF FinishRedeem
    <2>5. invites[u] \in Seq(Invite) /\ invites[u][k] \in Invite
      <3>1. invites[u] \in Seq(Invite)
        BY <2>1 DEF UsersTypeOK, Invite
      <3> QED BY <3>1, <2>3
    <2>6. invites'[u] \in Seq(Invite) /\ DOMAIN invites'[u] = DOMAIN invites[u]
      <3>1. invites'[u] = [invites[u] EXCEPT ![k] =
                [invites[u][k] EXCEPT !.state = "used", !.uses = @ + 1]]
        BY <2>1, <2>a, <2>b DEF UsersTypeOK
      <3>2. [invites[u][k] EXCEPT !.state = "used", !.uses = @ + 1] \in Invite
        BY <2>5, UsedUpdate
      <3> QED BY <3>1, <3>2, <2>3, <2>5
    <2>7. \A p \in People : p # u => invites'[p] = invites[p]
      BY <2>b DEF UsersTypeOK
    <2>8. invites' = [p \in People |-> invites'[p]]
      BY <2>b DEF UsersTypeOK
    <2>9. UsersTypeOK' /\ OnlyUsersInvited' /\ UsersStay
      <3>1. invites' \in [People -> Seq(Invite)]
        BY <2>6, <2>7, <2>8 DEF UsersTypeOK, Invite
      <3>2. user' \in [People -> UserRow] /\ \A p \in People : user'[p].exists = user[p].exists
        <4>1. PICK r : r = [user[u] EXCEPT !.password = "own", !.redeemed = TRUE]
          OBVIOUS
        <4>2. user' = [user EXCEPT ![u] = r]
          BY <2>4, <4>1
        <4>3. user \in [People -> UserRow]
          BY DEF UsersTypeOK, UserRow
        <4>4. r \in UserRow /\ r.exists = user[u].exists
          BY <2>1, <4>1, <4>3, RedeemUpdate
        <4> QED BY <2>1, <4>2, <4>3, <4>4
      <3>3. OnlyUsersInvited' /\ UsersStay
        BY <2>6, <2>7, <3>2, <2>1, <2>3, <2>5 DEF OnlyUsersInvited, UsersStay
      <3> QED BY <2>4, <3>1, <3>2, <3>3 DEF UsersTypeOK, UserRow, Invite
    <2> QED BY <1>0, <2>4, <2>9, NoRequestHolds, HeldAfterTurn, EndKeepsDatabase
  <1>6. ASSUME NEW u \in People, NEW k \in 1 .. MaxInvites, BeginRedeem(w, u, k)
        PROVE  UserTypes' /\ DatabaseInv'
    <2>1. UNCHANGED <<user, permitted, invites, founders>> /\ UsersTypeOK' /\ OnlyUsersInvited'
      BY <1>6 DEF BeginRedeem, users, UsersTypeOK, OnlyUsersInvited
    <2>2. MayBegin /\ Turns(w, Request("redeem", u, {}, {k}, 0, TRUE)) /\ k \in DOMAIN invites[u]
      BY <1>0, <1>6, BeginTurns DEF BeginRedeem, OpenInvites
    <2>3. UserHolds(Request("redeem", u, {}, {k}, 0, TRUE), user', invites')
      BY <2>1, <2>2 DEF Request, UserHolds, UserOps
    <2>4. UsersHeld'
      BY <1>0, <2>1, <2>2, <2>3, UnchangedUsersStay, HeldAfterTurn
    <2> QED BY <2>1, <2>2, <2>4, TurnKeepsDatabase
  <1> QED BY <1>1, <1>2, <1>3, <1>4, <1>5, <1>6 DEF InviteStep

LEMMA LoginTypes ==
    ASSUME UserTypes, DatabaseInv, db' = db, NEW w \in Workers, LoginStep(w)
    PROVE  UserTypes' /\ DatabaseInv'
  <1> USE DEF UserTypes
  <1>0. TxShape /\ UsersHeld
    BY DEF DatabaseInv
  <1>1. ASSUME NEW u \in People, NEW right \in BOOLEAN, BeginLogin(w, u, right)
        PROVE  UserTypes' /\ DatabaseInv'
    <2> DEFINE op == IF right THEN "welcome" ELSE "wrong"
               r == Request(op, u, {}, {}, user[u].failed, FALSE)
    <2>1. UNCHANGED <<user, permitted, invites, founders>> /\ UsersTypeOK' /\ OnlyUsersInvited'
      BY <1>1 DEF BeginLogin, users, UsersTypeOK, OnlyUsersInvited
    <2>2. Turns(w, r)
      BY <1>0, <1>1, LookTurns DEF BeginLogin
    <2>3. user[u].failed \in Nat
      BY DEF UsersTypeOK
    <2>4. UserHolds(r, user', invites')
      BY <2>3 DEF Request, UserHolds, UserOps
    <2>5. UsersHeld'
      BY <1>0, <2>1, <2>2, <2>4, UnchangedUsersStay, HeldAfterTurn
    <2>6. op # "none" /\ FALSE \in BOOLEAN
      OBVIOUS
    <2> HIDE DEF op
    <2> QED BY <2>1, <2>2, <2>5, <2>6, TurnKeepsDatabase
  <1>2. CASE LoginSucceeds(w)
    <2> DEFINE u == tx[w].on
    <2>1. u \in People
      BY <1>0, <1>2 DEF LoginSucceeds, UsersHeld, UserHolds, UserOps
    <2>2. /\ user' = [user EXCEPT ![u].failed = 0] /\ Turns(w, NoRequest)
          /\ UNCHANGED <<permitted, invites, founders>>
      BY <1>0, <1>2, ShortTurns DEF LoginSucceeds
    <2>3. UsersTypeOK' /\ OnlyUsersInvited' /\ UsersStay
      <3>1. PICK r : r = [user[u] EXCEPT !.failed = 0]
        OBVIOUS
      <3>2. user[u] \in UserRow
        BY <2>1 DEF UsersTypeOK, UserRow
      <3>3. r \in UserRow /\ r.exists = user[u].exists
        BY <3>1, <3>2, FailedUpdate, UsersOK
      <3> QED BY <2>1, <2>2, <3>1, <3>3, UserUpdated
    <2> QED BY <1>0, <2>2, <2>3, NoRequestHolds, HeldAfterTurn, EndKeepsDatabase
  <1>3. CASE BeginFailure(w)
    <2> DEFINE u == tx[w].on
               r == Request("failing", u, tx[w].by, {user[u].failed}, tx[w].n, TRUE)
    <2>1. u \in People /\ tx[w].n \in Nat
      BY <1>0, <1>3 DEF BeginFailure, UsersHeld, UserHolds, UserOps
    <2>2. UNCHANGED <<user, permitted, invites, founders>> /\ UsersTypeOK' /\ OnlyUsersInvited'
      BY <1>3 DEF BeginFailure, users, UsersTypeOK, OnlyUsersInvited
    <2>3. MayBegin /\ Turns(w, r)
      BY <1>0, <1>3, OpenTurns DEF BeginFailure
    <2>4. user[u].failed \in 0 .. MaxFailures
      BY <2>1 DEF UsersTypeOK
    <2>5. UserHolds(r, user', invites')
      BY <2>1, <2>4 DEF Request, UserHolds, UserOps
    <2>6. UsersHeld'
      BY <1>0, <2>2, <2>3, <2>5, UnchangedUsersStay, HeldAfterTurn
    <2> QED BY <2>2, <2>3, <2>6, TurnKeepsDatabase
  <1>4. CASE LoginFails(w)
    <2> DEFINE u == tx[w].on
    <2>1. u \in People /\ \E count \in 0 .. MaxFailures : tx[w].seen = {count}
      BY <1>0, <1>4 DEF LoginFails, UsersHeld, UserHolds, UserOps
    <2>2. PICK count \in tx[w].seen :
              /\ count < MaxFailures
              /\ user' = [user EXCEPT ![u].failed = count + 1,
                                      ![u].locked = IF tx[w].n + 1 >= Threshold THEN "now" ELSE @]
      BY <1>4 DEF LoginFails
    <2>3. count + 1 \in 0 .. MaxFailures
      BY <2>1, <2>2, UsersOK
    <2>4. Turns(w, NoRequest) /\ UNCHANGED <<permitted, invites, founders>>
      BY <1>0, <1>4, EndTurns DEF LoginFails
    <2>5. UsersTypeOK' /\ OnlyUsersInvited' /\ UsersStay
      <3> DEFINE lock == IF tx[w].n + 1 >= Threshold THEN "now" ELSE user[u].locked
      <3>1. PICK r : r = [user[u] EXCEPT !.failed = count + 1, !.locked = lock]
        OBVIOUS
      <3>2. user[u] \in UserRow
        BY <2>1 DEF UsersTypeOK, UserRow
      <3>3. lock \in {"never", "now", "past"}
        BY <3>2 DEF UserRow
      <3>4. r \in UserRow /\ r.exists = user[u].exists
        <4>1. PICK r1 : r1 = [user[u] EXCEPT !.failed = count + 1]
          OBVIOUS
        <4>2. r1 \in UserRow /\ r1.exists = user[u].exists
          BY <4>1, <3>2, <2>3, FailedUpdate
        <4>3. r = [r1 EXCEPT !.locked = lock]
          BY <3>1, <4>1
        <4> HIDE DEF lock
        <4> QED BY <3>3, <4>2, <4>3 DEF UserRow
      <3>5. user' = [user EXCEPT ![u] = r]
        BY <2>2, <3>1
      <3> QED BY <2>1, <2>4, <3>4, <3>5, UserUpdated
    <2> QED BY <1>0, <2>4, <2>5, NoRequestHolds, HeldAfterTurn, EndKeepsDatabase
  <1>5. ASSUME NEW u \in People,
               \/ ChangePassword(w, u) \/ ResetPassword(w, u)
               \/ SetActive(w, u, TRUE) \/ SetActive(w, u, FALSE)
        PROVE  UserTypes' /\ DatabaseInv'
    <2>1. UNCHANGED <<tx, permitted, invites, founders>>
      BY <1>5 DEF ChangePassword, ResetPassword, SetActive
    <2>2. PICK r \in UserRow : r.exists = user[u].exists /\ user' = [user EXCEPT ![u] = r]
      <3>0. user[u] \in UserRow
        BY DEF UsersTypeOK, UserRow
      <3>1. CASE ChangePassword(w, u)
        <4>1. PICK r : r = [user[u] EXCEPT !.password = "own"]
          OBVIOUS
        <4>2. r \in UserRow /\ r.exists = user[u].exists
          BY <3>0, <4>1, PasswordUpdate
        <4>3. user' = [user EXCEPT ![u] = r]
          BY <3>1, <4>1 DEF ChangePassword
        <4> QED BY <4>2, <4>3
      <3>2. CASE ResetPassword(w, u)
        <4>1. PICK r : r = [user[u] EXCEPT !.password = "temporary", !.failed = 0, !.locked = "never"]
          OBVIOUS
        <4>2. r \in UserRow /\ r.exists = user[u].exists
          BY <3>0, <4>1, ResetUpdate
        <4>3. user' = [user EXCEPT ![u] = r]
          BY <3>2, <4>1 DEF ResetPassword
        <4> QED BY <4>2, <4>3
      <3>3. ASSUME NEW active \in BOOLEAN, SetActive(w, u, active)
            PROVE  \E r \in UserRow : r.exists = user[u].exists /\ user' = [user EXCEPT ![u] = r]
        <4>1. PICK r : r = [user[u] EXCEPT !.active = active]
          OBVIOUS
        <4>2. r \in UserRow /\ r.exists = user[u].exists
          BY <3>0, <4>1, ActiveUpdate
        <4>3. user' = [user EXCEPT ![u] = r]
          BY <3>3, <4>1 DEF SetActive
        <4> QED BY <4>2, <4>3
      <3> QED BY <1>5, <3>1, <3>2, <3>3
    <2>3. UsersTypeOK' /\ OnlyUsersInvited' /\ UsersStay
      BY <2>1, <2>2, UserUpdated
    <2> QED BY <1>0, <2>1, <2>3, HeldAfterStutter, StutterKeepsDatabase
  <1> QED BY <1>1, <1>2, <1>3, <1>4, <1>5 DEF LoginStep

LEMMA ClockTypes ==
    ASSUME UserTypes, DatabaseInv, db' = db, UsersClock
    PROVE  UserTypes' /\ DatabaseInv'
  <1> USE DEF UserTypes
  <1>0. TxShape /\ UsersHeld
    BY DEF DatabaseInv
  <1>1. ASSUME NEW u \in People, LockExpires(u)
        PROVE  UserTypes' /\ DatabaseInv'
    <2>1. UNCHANGED <<tx, permitted, invites, founders>> /\ user' = [user EXCEPT ![u].locked = "past"]
      BY <1>1 DEF LockExpires
    <2>2. UsersTypeOK' /\ OnlyUsersInvited' /\ UsersStay
      <3>1. /\ user[u] \in UserRow /\ [user[u] EXCEPT !.locked = "past"] \in UserRow
            /\ [user[u] EXCEPT !.locked = "past"].exists = user[u].exists
        BY DEF UsersTypeOK, UserRow
      <3>2. user' \in [People -> UserRow] /\ \A p \in People : user'[p].exists = user[p].exists
        BY <2>1, <3>1 DEF UsersTypeOK, UserRow
      <3> QED BY <2>1, <3>2 DEF UsersTypeOK, UsersStay, OnlyUsersInvited, UserRow
    <2> QED BY <1>0, <2>1, <2>2, HeldAfterStutter, StutterKeepsDatabase
  <1>2. ASSUME NEW u \in People, NEW k \in DOMAIN invites[u], InviteExpires(u, k)
        PROVE  UserTypes' /\ DatabaseInv'
    <2>1. /\ UNCHANGED <<tx, user, permitted, founders>>
          /\ invites' = [invites EXCEPT ![u][k].state = "expired"]
      BY <1>2 DEF InviteExpires
    <2>2. invites[u] \in Seq(Invite)
      BY DEF UsersTypeOK, Invite
    <2>3. invites'[u] \in Seq(Invite) /\ DOMAIN invites'[u] = DOMAIN invites[u]
      <3>1. invites'[u] = [invites[u] EXCEPT ![k] = [invites[u][k] EXCEPT !.state = "expired"]]
        BY <2>1 DEF UsersTypeOK
      <3>2. [invites[u][k] EXCEPT !.state = "expired"] \in Invite
        BY <2>2, ClosedUpdate
      <3> QED BY <3>1, <3>2, <2>2
    <2>4. /\ \A p \in People : p # u => invites'[p] = invites[p]
          /\ invites' = [p \in People |-> invites'[p]]
      BY <2>1 DEF UsersTypeOK
    <2>5. invites' \in [People -> Seq(Invite)]
      BY <2>3, <2>4 DEF UsersTypeOK, Invite
    <2>6. UsersTypeOK'
      BY <2>1, <2>5 DEF UsersTypeOK, Invite
    <2>7. OnlyUsersInvited' /\ UsersStay
      BY <2>1, <2>2, <2>3, <2>4 DEF UsersStay, OnlyUsersInvited
    <2> QED BY <1>0, <2>1, <2>6, <2>7, HeldAfterStutter, StutterKeepsDatabase
  <1> QED BY <1>1, <1>2 DEF UsersClock

-----------------------------------------------------------------------------
(* Administrators.                                                         *)

\* No permission implies org:admin.
LEMMA AdminImpliedByNothing ==
    ASSUME NEW p
    PROVE  OrgAdmin \notin Implies(p)
  <1>1. OrgAdmin \notin Ordinary
    BY DEF OrgAdmin, Ordinary, Managed
  <1>2. CASE p = OrgAdmin
    BY <1>1, <1>2 DEF Implies
  <1>3. CASE p # OrgAdmin
    BY <1>3 DEF Implies, OrgAdmin, Managed
  <1> QED BY <1>2, <1>3

LEMMA EffectiveAdmin ==
    ASSUME NEW P
    PROVE  OrgAdmin \in Effective(P) <=> OrgAdmin \in P
  <1>1. ASSUME NEW S
        PROVE  OrgAdmin \in Grown(S) <=> OrgAdmin \in S
    BY AdminImpliedByNothing DEF Grown
  <1> QED BY <1>1 DEF Effective

\* A request that may still make an administrator.
MakesAdmin(r) ==
    \/ r.op = "setup"
    \/ r.op \in {"create", "assign", "assigning"} /\ OrgAdmin \in r.by

LEMMA AdminPossibleIff ==
    AdminPossible <=> \/ \E p \in People : OrgAdmin \in permitted[p]
                      \/ \E w \in Workers : MakesAdmin(tx[w])
  BY EffectiveAdmin DEF AdminPossible, MakesAdmin

LEMMA AdminPossibleNext ==
    AdminPossible' <=> \/ \E p \in People : OrgAdmin \in permitted'[p]
                       \/ \E w \in Workers : MakesAdmin(tx'[w])
  BY EffectiveAdmin DEF AdminPossible, MakesAdmin

\* The step of the property, and what keeps it: the permissions have no new org:admin,
\* and the worker that turned makes no administrator.
AdminStep == (\E p \in People : user[p].exists) /\ ~AdminPossible => ~AdminPossible'

LEMMA AdminAfterTurn ==
    ASSUME ~AdminPossible, \A p \in People : OrgAdmin \notin permitted'[p],
           NEW w \in Workers, NEW r, Turns(w, r), ~MakesAdmin(r)
    PROVE  ~AdminPossible'
  BY AdminPossibleIff, AdminPossibleNext DEF Turns

LEMMA AdminAfterStutter ==
    ASSUME ~AdminPossible, permitted' = permitted, tx' = tx
    PROVE  ~AdminPossible'
  BY AdminPossibleIff, AdminPossibleNext

LEMMA NoRequestMakesNothing == ~MakesAdmin(NoRequest)
  BY NoRequestFields DEF MakesAdmin

LEMMA AdminKept ==
    ASSUME UsersKept
    PROVE  AdminStep
  <1> SUFFICES ASSUME ~AdminPossible PROVE ~AdminPossible'
    BY DEF AdminStep
  <1>1. permitted' = permitted
    BY DEF UsersKept, users
  <1>2. \A v \in Workers : MakesAdmin(tx'[v]) => MakesAdmin(tx[v])
    BY DEF UsersKept, MakesAdmin, UserOps
  <1> QED BY <1>1, <1>2, AdminPossibleIff, AdminPossibleNext

LEMMA UserStepAdmin ==
    ASSUME UserTypes, DatabaseInv, NEW w \in Workers, UserStep(w)
    PROVE  AdminStep
  <1> SUFFICES ASSUME NEW somebody \in People, user[somebody].exists, ~AdminPossible
               PROVE  ~AdminPossible'
    BY DEF AdminStep
  <1>0. TxShape /\ UsersHeld /\ (\A p \in People : OrgAdmin \notin permitted[p]) /\ ~MakesAdmin(tx[w])
    BY AdminPossibleIff DEF DatabaseInv, UserTypes
  <1>1. ASSUME NEW u \in People, BeginSetup(w, u)
        PROVE  ~AdminPossible'
    BY <1>1 DEF BeginSetup
  <1>2. ASSUME NEW u \in People, ProvisionUser(w, u)
        PROVE  ~AdminPossible'
    BY <1>2, AdminAfterStutter DEF ProvisionUser
  <1>3. ASSUME NEW g \in People, NEW u \in People, NEW P \in Grantable,
               NEW op \in {"create", "assign"}, ValidateGrant(w, op, g, u, P)
        PROVE  ~AdminPossible'
    <2>1. permitted' = permitted /\ Turns(w, Request(op, u, P, {}, 0, FALSE))
      BY <1>0, <1>3, LookTurns DEF ValidateGrant, users
    <2>2. OrgAdmin \notin P
      BY <1>0, <1>3, EffectiveAdmin DEF ValidateGrant, MayGrant
    <2>3. ~MakesAdmin(Request(op, u, P, {}, 0, FALSE))
      BY <2>2 DEF MakesAdmin, Request
    <2> QED BY <1>0, <2>1, <2>3, AdminAfterTurn
  <1>4. CASE FinishSetup(w)
    BY <1>0, <1>4 DEF FinishSetup, MakesAdmin
  <1>5. CASE CreateUser(w)
    <2>1. /\ permitted' = [permitted EXCEPT ![tx[w].on] = tx[w].by] /\ Turns(w, NoRequest)
          /\ OrgAdmin \notin tx[w].by
      BY <1>0, <1>5, ShortTurns DEF CreateUser, MakesAdmin
    <2>2. \A p \in People : OrgAdmin \notin permitted'[p]
      BY <1>0, <2>1 DEF UserTypes, UsersTypeOK
    <2> QED BY <2>1, <2>2, NoRequestMakesNothing, AdminAfterTurn
  <1>6. CASE BeginAssign(w)
    <2> DEFINE r == Request("assigning", tx[w].on, tx[w].by, permitted[tx[w].on], tx[w].n, TRUE)
    <2>1. permitted' = permitted /\ Turns(w, r) /\ tx[w].op = "assign"
      BY <1>0, <1>6, OpenTurns DEF BeginAssign, users
    <2>2. ~MakesAdmin(r)
      BY <1>0, <2>1 DEF MakesAdmin, Request
    <2> HIDE DEF r
    <2> QED BY <1>0, <2>1, <2>2, AdminAfterTurn
  <1>7. CASE FinishAssign(w)
    <2> DEFINE u == tx[w].on
    <2>1. /\ permitted' = [permitted EXCEPT ![u] = (permitted[u] \ tx[w].seen) \cup tx[w].by]
          /\ Turns(w, NoRequest) /\ OrgAdmin \notin tx[w].by
      BY <1>0, <1>7, EndTurns DEF FinishAssign, MakesAdmin
    <2>2. \A p \in People : OrgAdmin \notin permitted'[p]
      BY <1>0, <2>1 DEF UserTypes, UsersTypeOK
    <2> QED BY <2>1, <2>2, NoRequestMakesNothing, AdminAfterTurn
  <1>8. CASE InviteStep(w)
    <2>1. CASE UNCHANGED <<permitted, tx>>
      BY <2>1, AdminAfterStutter
    <2>2. CASE permitted' = permitted /\ Turns(w, NoRequest)
      BY <1>0, <2>2, NoRequestMakesNothing, AdminAfterTurn
    <2>3. ASSUME NEW u \in People, CheckReissue(w, u)
          PROVE  ~AdminPossible'
      <3>1. permitted' = permitted /\ Turns(w, Request("reissue", u, {}, {}, 0, FALSE))
        BY <1>0, <2>3, LookTurns DEF CheckReissue, users
      <3>2. ~MakesAdmin(Request("reissue", u, {}, {}, 0, FALSE))
        BY DEF MakesAdmin, Request
      <3> QED BY <1>0, <3>1, <3>2, AdminAfterTurn
    <2>4. CASE BeginReissue(w)
      <3> DEFINE r == Request("reissuing", tx[w].on, tx[w].by, OpenInvites(tx[w].on), tx[w].n, TRUE)
      <3>1. permitted' = permitted /\ Turns(w, r)
        BY <1>0, <2>4, OpenTurns DEF BeginReissue, users
      <3>2. ~MakesAdmin(r)
        BY DEF MakesAdmin, Request
      <3> HIDE DEF r
      <3> QED BY <1>0, <3>1, <3>2, AdminAfterTurn
    <2>5. ASSUME NEW u \in People, NEW k \in 1 .. MaxInvites, BeginRedeem(w, u, k)
          PROVE  ~AdminPossible'
      <3>1. permitted' = permitted /\ Turns(w, Request("redeem", u, {}, {k}, 0, TRUE))
        BY ZenonT(60), <1>0, <2>5, BeginTurns DEF BeginRedeem, users
      <3>2. ~MakesAdmin(Request("redeem", u, {}, {k}, 0, TRUE))
        BY DEF MakesAdmin, Request
      <3> QED BY <1>0, <3>1, <3>2, AdminAfterTurn
    <2>6. CASE FinishReissue(w) \/ FinishRedeem(w)
      BY ZenonT(60), <1>0, <2>2, <2>6, EndTurns DEF FinishReissue, FinishRedeem
    <2>7. ASSUME NEW u \in People, DeleteUser(w, u)
          PROVE  ~AdminPossible'
      BY <2>1, <2>7 DEF DeleteUser
    <2> QED BY <1>8, <2>3, <2>4, <2>5, <2>6, <2>7 DEF InviteStep
  <1>9. CASE LoginStep(w)
    <2>1. ASSUME NEW u \in People, NEW right \in BOOLEAN, BeginLogin(w, u, right)
          PROVE  ~AdminPossible'
      <3> DEFINE op == IF right THEN "welcome" ELSE "wrong"
                 r == Request(op, u, {}, {}, user[u].failed, FALSE)
      <3>1. permitted' = permitted /\ Turns(w, r)
        BY <1>0, <2>1, LookTurns DEF BeginLogin, users
      <3>2. ~MakesAdmin(r)
        BY DEF MakesAdmin, Request
      <3> HIDE DEF r
      <3> QED BY <1>0, <3>1, <3>2, AdminAfterTurn
    <2>2. CASE LoginSucceeds(w) \/ LoginFails(w)
      <3>1. permitted' = permitted /\ Turns(w, NoRequest)
        BY <1>0, <2>2, ShortTurns, EndTurns DEF LoginSucceeds, LoginFails
      <3> QED BY <1>0, <3>1, NoRequestMakesNothing, AdminAfterTurn
    <2>3. CASE BeginFailure(w)
      <3> DEFINE r == Request("failing", tx[w].on, tx[w].by, {user[tx[w].on].failed}, tx[w].n, TRUE)
      <3>1. permitted' = permitted /\ Turns(w, r)
        BY <1>0, <2>3, OpenTurns DEF BeginFailure, users
      <3>2. ~MakesAdmin(r)
        BY DEF MakesAdmin, Request
      <3> HIDE DEF r
      <3> QED BY <1>0, <3>1, <3>2, AdminAfterTurn
    <2>4. ASSUME NEW u \in People, NEW active \in BOOLEAN,
                 ChangePassword(w, u) \/ ResetPassword(w, u) \/ SetActive(w, u, active)
          PROVE  ~AdminPossible'
      BY <2>4, AdminAfterStutter DEF ChangePassword, ResetPassword, SetActive
    <2> QED BY <1>9, <2>1, <2>2, <2>3, <2>4 DEF LoginStep
  <1> QED BY <1>1, <1>2, <1>3, <1>4, <1>5, <1>6, <1>7, <1>8, <1>9 DEF UserStep, PermissionStep

LEMMA ClockAdmin ==
    ASSUME UsersClock
    PROVE  AdminStep
  BY AdminAfterStutter DEF UsersClock, LockExpires, InviteExpires, AdminStep

LEMMA FoundersStep ==
    ASSUME NEW w \in Workers, UserStep(w)
    PROVE  founders' = founders \/ founders' = {tx[w].on}
  <1>1. CASE PermissionStep(w)
    BY <1>1 DEF PermissionStep, BeginSetup, ProvisionUser, ValidateGrant, FinishSetup, CreateUser,
                BeginAssign, FinishAssign, users
  <1>2. CASE InviteStep(w)
    BY ZenonT(60), <1>2 DEF InviteStep, CheckReissue, DeleteUser, BeginReissue, FinishReissue, FinishRedeem,
                BeginRedeem, users
  <1>3. CASE LoginStep(w)
    BY ZenonT(60), <1>3 DEF LoginStep, BeginLogin, LoginSucceeds, BeginFailure, LoginFails, ChangePassword,
                ResetPassword, SetActive, users
  <1> QED BY <1>1, <1>2, <1>3 DEF UserStep

\* First-run setup made at most one administrator.
FoundersSingle == \E u : founders \subseteq {u}

LEMMA FoundersSingleGivesOne ==
    ASSUME FoundersSingle
    PROVE  OneFounder
  <1>1. PICK u : founders = {} \/ founders = {u}
    BY DEF FoundersSingle
  <1>2. Cardinality({}) = 0 /\ Cardinality({u}) = 1
    BY FS_EmptySet, FS_Singleton
  <1> QED BY <1>1, <1>2 DEF OneFounder

-----------------------------------------------------------------------------
(* Invitations.                                                            *)

InviteOps == {"reissuing", "redeem"}

\* Where transactions are serial: one open invitation, which was never used; a reissue
\* closes all that are open, and a redemption uses one that was not used.
InvitesInv ==
    Serial =>
        /\ \A u \in People : \A k, l \in OpenInvites(u) : k = l
        /\ \A u \in People : \A k \in DOMAIN invites[u] :
              /\ invites[u][k].uses <= 1
              /\ invites[u][k].state = "open" => invites[u][k].uses = 0
        /\ \A w \in Workers :
              /\ tx[w].op = "reissuing" => OpenInvites(tx[w].on) \subseteq tx[w].seen
              /\ tx[w].op = "redeem" => \A k \in tx[w].seen : invites[tx[w].on][k].uses = 0

LEMMA InvitesUntouched ==
    ASSUME InvitesInv, db' = db, invites' = invites,
           \A v \in Workers : tx'[v].op \in InviteOps => tx'[v] = tx[v]
    PROVE  InvitesInv'
  BY DEF InvitesInv, Serial, OpenInvites, InviteOps

LEMMA InvitesAfterTurn ==
    ASSUME InvitesInv, db' = db, invites' = invites,
           NEW w \in Workers, NEW r, Turns(w, r), r.op \notin InviteOps
    PROVE  InvitesInv'
  BY InvitesUntouched DEF Turns

\* Nobody else works on invitations while a worker is alone.
LEMMA InvitesAlone ==
    ASSUME UsersHeld, Serial, NEW w \in Workers, Alone(w)
    PROVE  \A v \in Workers \ {w} : tx[v].op \notin InviteOps
  BY DEF Alone, UsersHeld, UserHolds, InviteOps

LEMMA InviteStepInv ==
    ASSUME UserTypes, DatabaseInv, InvitesInv, db' = db, NEW w \in Workers, InviteStep(w)
    PROVE  InvitesInv'
  <1>0. TxShape /\ UsersHeld /\ OneWriter
    BY DEF DatabaseInv, UserTypes
  <1>1. ASSUME NEW u \in People, CheckReissue(w, u)
        PROVE  InvitesInv'
    <2>1. invites' = invites /\ Turns(w, Request("reissue", u, {}, {}, 0, FALSE))
      BY <1>0, <1>1, LookTurns DEF CheckReissue, users
    <2>2. Request("reissue", u, {}, {}, 0, FALSE).op \notin InviteOps
      BY DEF Request, InviteOps
    <2> QED BY <2>1, <2>2, InvitesAfterTurn
  <1>2. ASSUME NEW u \in People, DeleteUser(w, u)
        PROVE  InvitesInv'
    BY <1>2, InvitesUntouched DEF DeleteUser
  <1>3. CASE BeginReissue(w)
    <2> DEFINE u == tx[w].on
               r == Request("reissuing", u, tx[w].by, OpenInvites(u), tx[w].n, TRUE)
    <2>1. invites' = invites /\ Turns(w, r)
      BY <1>0, <1>3, OpenTurns DEF BeginReissue, users
    <2>2. r.op = "reissuing" /\ r.on = u /\ r.seen = OpenInvites(u)
      BY DEF Request
    <2>3. \A v \in Workers : tx'[v] = IF v = w THEN r ELSE tx[v]
      BY <2>1 DEF Turns
    <2> HIDE DEF r
    <2> QED BY <2>1, <2>2, <2>3 DEF InvitesInv, Serial, OpenInvites
  <1>4. CASE FinishReissue(w)
    <2> SUFFICES ASSUME Serial PROVE InvitesInv'
      BY SMTT(60) DEF InvitesInv, Serial
    <2> DEFINE u == tx[w].on
               I == invites[u]
               closed == [k \in DOMAIN I |->
                   IF k \in tx[w].seen THEN [I[k] EXCEPT !.state = "used"] ELSE I[k]]
               new == [state |-> "open", uses |-> 0]
    <2>1. u \in People /\ tx[w].op = "reissuing" /\ tx[w].open
      BY SMTT(60), <1>0, <1>4 DEF FinishReissue, UsersHeld, UserHolds, UserOps
    <2>2. invites' = [invites EXCEPT ![u] = Append(closed, new)] /\ Turns(w, NoRequest)
      BY SMTT(60), <1>0, <1>4, EndTurns DEF FinishReissue
    <2>3. \A v \in Workers : tx'[v].op \notin InviteOps
      BY <1>0, <2>1, <2>2, HolderAlone, InvitesAlone, NoRequestFields DEF Turns, InviteOps
    <2>4. I \in Seq(Invite) /\ DOMAIN I = 1 .. Len(I) /\ Len(I) \in Nat
      BY <2>1 DEF UserTypes, UsersTypeOK, Invite
    <2>5. \A k \in DOMAIN I : /\ I[k] \in Invite /\ I[k].uses <= 1
                              /\ I[k].state = "open" => k \in tx[w].seen
      BY <2>1, <2>4 DEF InvitesInv, OpenInvites
    <2>6. \A k \in DOMAIN I : closed[k].uses = I[k].uses /\ closed[k].state # "open"
      <3> SUFFICES ASSUME NEW k \in DOMAIN I
                   PROVE  closed[k].uses = I[k].uses /\ closed[k].state # "open"
        BY SMTT(60)
      <3>1. CASE k \in tx[w].seen
        <4>1. closed[k] = [I[k] EXCEPT !.state = "used"]
          BY <3>1
        <4> QED BY <2>5, <4>1 DEF Invite
      <3>2. CASE k \notin tx[w].seen
        BY <2>5, <3>2
      <3> QED BY SMTT(60), <3>1, <3>2
    <2>7. /\ DOMAIN Append(closed, new) = 1 .. Len(I) + 1
          /\ \A k \in 1 .. Len(I) + 1 :
                Append(closed, new)[k] = IF k = Len(I) + 1 THEN new ELSE closed[k]
      <3>1. closed \in [1 .. Len(I) -> Invite]
        <4>1. \A k \in DOMAIN I : [I[k] EXCEPT !.state = "used"] \in Invite
          BY <2>5 DEF Invite
        <4> QED BY <2>4, <2>5, <4>1
      <3>2. closed \in Seq(Invite) /\ Len(closed) = Len(I)
        <4> HIDE DEF closed
        <4> QED BY <3>1, <2>4
      <3> HIDE DEF closed, new, I
      <3> QED BY <3>2, <2>4
    <2>8. invites'[u] = Append(closed, new) /\ \A p \in People : p # u => invites'[p] = invites[p]
      <3> HIDE DEF closed, new
      <3> QED BY <2>1, <2>2 DEF UserTypes, UsersTypeOK
    <2>a. new.state = "open" /\ new.uses = 0
      OBVIOUS
    <2>9. \A k \in DOMAIN invites'[u] :
             /\ invites'[u][k].uses <= 1
             /\ invites'[u][k].state = "open" => k = Len(I) + 1 /\ invites'[u][k].uses = 0
      <3> HIDE DEF closed, new, I
      <3> SUFFICES ASSUME NEW k \in DOMAIN invites'[u]
                   PROVE  /\ invites'[u][k].uses <= 1
                          /\ invites'[u][k].state = "open" =>
                                k = Len(I) + 1 /\ invites'[u][k].uses = 0
        OBVIOUS
      <3>1. k \in 1 .. Len(I) + 1 /\ invites'[u][k] = IF k = Len(I) + 1 THEN new ELSE closed[k]
        BY <2>7, <2>8
      <3>2. CASE k = Len(I) + 1
        BY <3>1, <3>2, <2>a
      <3>3. CASE k # Len(I) + 1
        <4>1. invites'[u][k] = closed[k] /\ k \in DOMAIN I
          BY <3>1, <3>3, <2>4
        <4> QED BY <4>1, <2>5, <2>6
      <3> QED BY <3>2, <3>3
    <2> HIDE DEF closed, new, I
    <2>10. ASSUME NEW p \in People
           PROVE  /\ \A k, l \in OpenInvites(p)' : k = l
                  /\ \A k \in DOMAIN invites'[p] :
                        /\ invites'[p][k].uses <= 1
                        /\ invites'[p][k].state = "open" => invites'[p][k].uses = 0
      <3>1. CASE p = u
        BY <2>9, <3>1 DEF OpenInvites
      <3>2. CASE p # u
        BY <2>8, <3>2 DEF OpenInvites, InvitesInv
      <3> QED BY <3>1, <3>2
    <2> QED BY <2>3, <2>10 DEF InvitesInv, InviteOps
  <1>5. CASE FinishRedeem(w)
    <2> SUFFICES ASSUME Serial PROVE InvitesInv'
      BY DEF InvitesInv, Serial
    <2> DEFINE u == tx[w].on
    <2>1. u \in People /\ tx[w].op = "redeem" /\ tx[w].open
      BY SMTT(60), <1>0, <1>5 DEF FinishRedeem, UsersHeld, UserHolds, UserOps
    <2>2. PICK k : k \in tx[w].seen /\
                   invites' = [invites EXCEPT ![u][k].state = "used", ![u][k].uses = @ + 1]
      BY <1>5 DEF FinishRedeem
    <2>3. k \in DOMAIN invites[u] /\ invites[u][k].uses = 0
      BY <1>0, <2>1, <2>2 DEF UsersHeld, UserHolds, InvitesInv
    <2>4. PICK q : q = [invites[u][k] EXCEPT !.state = "used", !.uses = @ + 1]
      OBVIOUS
    <2>5. PICK i : i = [invites[u] EXCEPT ![k] = q]
      OBVIOUS
    <2>6. invites' = [invites EXCEPT ![u] = i]
      BY <2>2, <2>4, <2>5
    <2>7. invites[u][k] \in Invite
      <3>1. invites[u] \in Seq(Invite)
        BY <2>1 DEF UserTypes, UsersTypeOK, Invite
      <3> QED BY <3>1, <2>3
    <2>8. q.uses = 1 /\ q.state = "used"
      <3>1. PICK c \in Invite : c = invites[u][k]
        BY <2>7
      <3>2. q = [c EXCEPT !.state = "used", !.uses = c.uses + 1]
        BY <2>4, <3>1
      <3>3. q.uses = c.uses + 1 /\ q.state = "used"
        BY <3>1, <3>2, UsedUpdate
      <3> QED BY <2>3, <3>1, <3>3
    <2>9. /\ DOMAIN invites'[u] = DOMAIN invites[u] /\ invites'[u][k] = q
          /\ \A l \in DOMAIN invites[u] : l # k => invites'[u][l] = invites[u][l]
          /\ \A p \in People : p # u => invites'[p] = invites[p]
      <3>1. invites'[u] = i /\ \A p \in People : p # u => invites'[p] = invites[p]
        BY <2>1, <2>6 DEF UserTypes, UsersTypeOK
      <3> QED BY <2>3, <2>5, <3>1
    <2>10. \A v \in Workers : tx'[v].op \notin InviteOps
      <3>1. Turns(w, NoRequest)
        BY <1>0, <1>5, EndTurns DEF FinishRedeem
      <3> QED BY <1>0, <2>1, <3>1, HolderAlone, InvitesAlone, NoRequestFields DEF Turns, InviteOps
    <2> QED BY SMTT(60), <2>3, <2>8, <2>9, <2>10 DEF InvitesInv, OpenInvites, InviteOps
  <1>6. ASSUME NEW u \in People, NEW k \in 1 .. MaxInvites, BeginRedeem(w, u, k)
        PROVE  InvitesInv'
    <2> DEFINE r == Request("redeem", u, {}, {k}, 0, TRUE)
    <2>1. invites' = invites /\ Turns(w, r) /\ k \in OpenInvites(u)
      BY <1>0, <1>6, BeginTurns DEF BeginRedeem, users
    <2>2. r.op = "redeem" /\ r.on = u /\ r.seen = {k}
      BY DEF Request
    <2>3. \A v \in Workers : tx'[v] = IF v = w THEN r ELSE tx[v]
      BY <2>1 DEF Turns
    <2> HIDE DEF r
    <2> QED BY <2>1, <2>2, <2>3 DEF InvitesInv, Serial, OpenInvites
  <1> QED BY <1>1, <1>2, <1>3, <1>4, <1>5, <1>6 DEF InviteStep

LEMMA PermissionInvites ==
    ASSUME UserTypes, DatabaseInv, InvitesInv, db' = db, NEW w \in Workers, PermissionStep(w)
    PROVE  InvitesInv'
  <1>0. TxShape /\ UsersHeld
    BY DEF DatabaseInv, UserTypes
  <1>1. ASSUME NEW u \in People, BeginSetup(w, u)
        PROVE  InvitesInv'
    <2>1. invites' = invites /\ Turns(w, Request("setup", u, {}, {}, 0, TRUE))
      BY <1>0, <1>1, BeginTurns DEF BeginSetup, users
    <2>2. Request("setup", u, {}, {}, 0, TRUE).op \notin InviteOps
      BY DEF Request, InviteOps
    <2> QED BY <2>1, <2>2, InvitesAfterTurn
  <1>2. ASSUME NEW u \in People, ProvisionUser(w, u)
        PROVE  InvitesInv'
    BY <1>2, InvitesUntouched DEF ProvisionUser
  <1>3. ASSUME NEW g \in People, NEW u \in People, NEW P \in Grantable,
               NEW op \in {"create", "assign"}, ValidateGrant(w, op, g, u, P)
        PROVE  InvitesInv'
    <2>1. invites' = invites /\ Turns(w, Request(op, u, P, {}, 0, FALSE))
      BY <1>0, <1>3, LookTurns DEF ValidateGrant, users
    <2>2. Request(op, u, P, {}, 0, FALSE).op \notin InviteOps
      BY DEF Request, InviteOps
    <2> QED BY <2>1, <2>2, InvitesAfterTurn
  <1>4. CASE FinishSetup(w) \/ FinishAssign(w)
    <2>1. invites' = invites /\ Turns(w, NoRequest)
      BY <1>0, <1>4, EndTurns DEF FinishSetup, FinishAssign
    <2> QED BY <2>1, NoRequestFields, InvitesAfterTurn DEF InviteOps
  <1>5. CASE CreateUser(w)
    <2> SUFFICES ASSUME Serial PROVE InvitesInv'
      BY DEF InvitesInv, Serial
    <2> DEFINE u == tx[w].on
               first == [state |-> "open", uses |-> 0]
    <2>1. /\ invites' = [invites EXCEPT ![u] = <<first>>] /\ MayBegin /\ Turns(w, NoRequest)
          /\ u \in People
      BY <1>0, <1>5, ShortTurns DEF CreateUser, UsersHeld, UserHolds, UserOps
    <2>2. \A v \in Workers : tx'[v].op \notin InviteOps
      BY <1>0, <2>1, BeginnerAlone, InvitesAlone, NoRequestFields DEF Turns, InviteOps
    <2>3. invites'[u] = <<first>> /\ \A p \in People : p # u => invites'[p] = invites[p]
      BY <2>1 DEF UserTypes, UsersTypeOK
    <2>4. \A k \in DOMAIN invites'[u] : k = 1 /\ invites'[u][k].uses = 0
      BY <2>3
    <2> QED BY <2>2, <2>3, <2>4 DEF InvitesInv, OpenInvites, InviteOps
  <1>6. CASE BeginAssign(w)
    <2> DEFINE r == Request("assigning", tx[w].on, tx[w].by, permitted[tx[w].on], tx[w].n, TRUE)
    <2>1. invites' = invites /\ Turns(w, r)
      BY <1>0, <1>6, OpenTurns DEF BeginAssign, users
    <2>2. r.op \notin InviteOps
      BY DEF Request, InviteOps
    <2> HIDE DEF r
    <2> QED BY <2>1, <2>2, InvitesAfterTurn
  <1> QED BY <1>1, <1>2, <1>3, <1>4, <1>5, <1>6 DEF PermissionStep

LEMMA LoginInvites ==
    ASSUME DatabaseInv, InvitesInv, db' = db, NEW w \in Workers, LoginStep(w)
    PROVE  InvitesInv'
  <1>0. TxShape
    BY DEF DatabaseInv
  <1>1. ASSUME NEW u \in People, NEW right \in BOOLEAN, BeginLogin(w, u, right)
        PROVE  InvitesInv'
    <2> DEFINE op == IF right THEN "welcome" ELSE "wrong"
               r == Request(op, u, {}, {}, user[u].failed, FALSE)
    <2>1. invites' = invites /\ Turns(w, r)
      BY <1>0, <1>1, LookTurns DEF BeginLogin, users
    <2>2. r.op \notin InviteOps
      BY DEF Request, InviteOps
    <2> HIDE DEF r
    <2> QED BY <2>1, <2>2, InvitesAfterTurn
  <1>2. CASE LoginSucceeds(w) \/ LoginFails(w)
    <2>1. invites' = invites /\ Turns(w, NoRequest)
      BY <1>0, <1>2, ShortTurns, EndTurns DEF LoginSucceeds, LoginFails
    <2> QED BY <2>1, NoRequestFields, InvitesAfterTurn DEF InviteOps
  <1>3. CASE BeginFailure(w)
    <2> DEFINE r == Request("failing", tx[w].on, tx[w].by, {user[tx[w].on].failed}, tx[w].n, TRUE)
    <2>1. invites' = invites /\ Turns(w, r)
      BY <1>0, <1>3, OpenTurns DEF BeginFailure, users
    <2>2. r.op \notin InviteOps
      BY DEF Request, InviteOps
    <2> HIDE DEF r
    <2> QED BY <2>1, <2>2, InvitesAfterTurn
  <1>4. ASSUME NEW u \in People, NEW active \in BOOLEAN,
               ChangePassword(w, u) \/ ResetPassword(w, u) \/ SetActive(w, u, active)
        PROVE  InvitesInv'
    BY <1>4, InvitesUntouched DEF ChangePassword, ResetPassword, SetActive
  <1> QED BY <1>1, <1>2, <1>3, <1>4 DEF LoginStep

LEMMA ClockInvites ==
    ASSUME UserTypes, InvitesInv, db' = db, UsersClock
    PROVE  InvitesInv'
  <1>1. ASSUME NEW u \in People, LockExpires(u)
        PROVE  InvitesInv'
    BY <1>1, InvitesUntouched DEF LockExpires
  <1>2. ASSUME NEW u \in People, NEW k \in DOMAIN invites[u], InviteExpires(u, k)
        PROVE  InvitesInv'
    <2>1. tx' = tx /\ invites' = [invites EXCEPT ![u][k].state = "expired"]
      BY <1>2 DEF InviteExpires
    <2>2. PICK q : q = [invites[u][k] EXCEPT !.state = "expired"]
      OBVIOUS
    <2>3. PICK i : i = [invites[u] EXCEPT ![k] = q]
      OBVIOUS
    <2>4. invites' = [invites EXCEPT ![u] = i]
      BY <2>1, <2>2, <2>3
    <2>5. invites[u][k] \in Invite
      <3>1. invites[u] \in Seq(Invite)
        BY DEF UserTypes, UsersTypeOK, Invite
      <3> QED BY <3>1
    <2>6. q.uses = invites[u][k].uses /\ q.state = "expired"
      BY <2>2, <2>5, ClosedUpdate
    <2>7. invites'[u] = i /\ \A p \in People : p # u => invites'[p] = invites[p]
      BY <2>4 DEF UserTypes, UsersTypeOK
    <2>8. /\ DOMAIN invites'[u] = DOMAIN invites[u]
          /\ \A l \in DOMAIN invites[u] : invites'[u][l].uses = invites[u][l].uses
          /\ \A l \in DOMAIN invites[u] : invites'[u][l].state = "open" => invites[u][l].state = "open"
      <3>1. DOMAIN i = DOMAIN invites[u] /\ i[k] = q /\ \A l \in DOMAIN invites[u] : l # k => i[l] = invites[u][l]
        BY <2>3
      <3>2. \A l \in DOMAIN invites[u] : i[l].uses = invites[u][l].uses
        BY <3>1, <2>6
      <3> QED BY <2>6, <2>7, <3>1, <3>2
    <2>9. \A w \in Workers : tx[w].op \in InviteOps =>
             tx[w].on \in People /\ (tx[w].op = "redeem" => tx[w].seen \subseteq DOMAIN invites[tx[w].on])
      BY DEF UserTypes, UsersHeld, UserHolds, UserOps, InviteOps
    <2> SUFFICES ASSUME Serial PROVE InvitesInv'
      BY DEF InvitesInv, Serial
    <2>10. \A p \in People : /\ OpenInvites(p)' \subseteq OpenInvites(p)
                             /\ DOMAIN invites'[p] = DOMAIN invites[p]
                             /\ \A l \in DOMAIN invites[p] : invites'[p][l].uses = invites[p][l].uses
      BY <2>7, <2>8 DEF OpenInvites
    <2>11. \A p \in People : \A l \in OpenInvites(p)' : invites'[p][l].uses = 0
      BY <2>10 DEF InvitesInv, OpenInvites
    <2> QED BY <2>1, <2>9, <2>10, <2>11 DEF InvitesInv, InviteOps, OpenInvites
  <1> QED BY <1>1, <1>2 DEF UsersClock

-----------------------------------------------------------------------------
(* Guesses.                                                                *)

GuessOps == {"wrong", "failing"}

\* The failed logins of u still to be recorded that will not lock the account.
Cheap(u) ==
    {w \in Workers : tx[w].op \in GuessOps /\ tx[w].on = u /\ tx[w].n + 1 < Threshold}

\* Where transactions are serial, the counter a failure adds to is the one it read, and
\* the failures recorded and still to be recorded without a lock are bounded together.
GuessInv ==
    Serial =>
        /\ \A w \in Workers : tx[w].op = "failing" => tx[w].seen = {user[tx[w].on].failed}
        /\ \A u \in People : user[u].locked = "never" =>
              user[u].failed + Cardinality(Cheap(u)) <= Threshold + Cardinality(Workers) - 2

LEMMA WorkersCounted == Cardinality(Workers) \in Nat /\ Cardinality(Workers) >= 1
  <1>1. Cardinality(Workers) \in Nat /\ Cardinality(Workers) # 0
    BY UsersOK, FS_CardinalityType, FS_EmptySet
  <1> QED BY <1>1

LEMMA CheapBound ==
    ASSUME UsersHeld, NEW u \in People
    PROVE  /\ IsFiniteSet(Cheap(u)) /\ Cardinality(Cheap(u)) \in Nat
           /\ Cardinality(Cheap(u)) <= Threshold + Cardinality(Workers) - 2
  <1>1. /\ IsFiniteSet(Cheap(u)) /\ Cardinality(Cheap(u)) \in Nat
        /\ Cardinality(Cheap(u)) <= Cardinality(Workers)
    <2>1. Cheap(u) \subseteq Workers
      BY DEF Cheap
    <2> QED BY <2>1, UsersOK, FS_Subset, FS_CardinalityType
  <1>2. CASE Threshold = 1
    <2>1. Cheap(u) = {}
      BY <1>2 DEF Cheap, UsersHeld, UserHolds, GuessOps
    <2> QED BY <1>1, <1>2, <2>1, FS_EmptySet, WorkersCounted
  <1>3. CASE Threshold # 1
    BY <1>1, <1>3, UsersOK, WorkersCounted
  <1> QED BY <1>2, <1>3

\* A step that records no failure: a user's counter stays or starts again, and no request
\* begins to guess.
LEMMA GuessKept ==
    ASSUME UsersHeld, GuessInv, db' = db, UsersTypeOK',
           \A p \in People : user'[p].locked = "never" =>
               \/ user'[p].failed = 0
               \/ user[p].locked = "never" /\ user'[p].failed = user[p].failed,
           \A v \in Workers : tx'[v].op \in GuessOps => tx'[v] = tx[v],
           Serial => \A v \in Workers : tx'[v].op = "failing" =>
               user'[tx[v].on].failed = user[tx[v].on].failed
    PROVE  GuessInv'
  <1> SUFFICES ASSUME Serial PROVE GuessInv'
    BY DEF GuessInv, Serial
  <1>1. \A w \in Workers : tx'[w].op = "failing" => tx'[w].seen = {user'[tx'[w].on].failed}
    BY DEF GuessInv, GuessOps
  <1>2. ASSUME NEW p \in People, user'[p].locked = "never"
        PROVE  user'[p].failed + Cardinality(Cheap(p)') <= Threshold + Cardinality(Workers) - 2
    <2>1. Cheap(p)' \subseteq Cheap(p)
      BY DEF Cheap
    <2>2. /\ Cardinality(Cheap(p)') \in Nat /\ Cardinality(Cheap(p)) \in Nat
          /\ Cardinality(Cheap(p)') <= Cardinality(Cheap(p))
      BY <2>1, CheapBound, FS_Subset, FS_CardinalityType
    <2>3. CASE user'[p].failed = 0
      BY <2>2, <2>3, CheapBound, WorkersCounted, UsersOK
    <2>4. CASE user[p].locked = "never" /\ user'[p].failed = user[p].failed
      <3>1. user[p].failed + Cardinality(Cheap(p)) <= Threshold + Cardinality(Workers) - 2
        BY <2>4 DEF GuessInv
      <3>2. user'[p].failed \in Nat
        BY DEF UsersTypeOK
      <3> QED BY <2>2, <2>4, <3>1, <3>2, WorkersCounted, UsersOK
    <2> QED BY <1>2, <2>3, <2>4
  <1> QED BY <1>1, <1>2 DEF GuessInv, Serial

\* Users as they were, and a worker turned to something other than guessing.
LEMMA GuessAfterTurn ==
    ASSUME UsersHeld, GuessInv, db' = db, UsersTypeOK', user' = user,
           NEW w \in Workers, NEW r, Turns(w, r), r.op \notin GuessOps
    PROVE  GuessInv'
  BY GuessKept DEF Turns, GuessOps

\* Nobody else records a failure while a worker is alone.
LEMMA GuessAlone ==
    ASSUME UsersHeld, Serial, NEW w \in Workers, Alone(w)
    PROVE  \A v \in Workers \ {w} : tx[v].op # "failing"
  BY DEF Alone, UsersHeld, UserHolds

\* A user's row was written by a step that records no failure, alone: by a request that
\* is over with it, or in a transaction of this step.
LEMMA GuessAfterWrite ==
    ASSUME UsersHeld, GuessInv, db' = db, UsersTypeOK',
           NEW w \in Workers, Alone(w), (tx' = tx /\ tx[w].op = "none") \/ Turns(w, NoRequest),
           \A p \in People : user'[p].locked = "never" =>
               \/ user'[p].failed = 0
               \/ user[p].locked = "never" /\ user'[p].failed = user[p].failed
    PROVE  GuessInv'
  <1>1. \A v \in Workers : tx'[v].op \in GuessOps => tx'[v] = tx[v]
    BY NoRequestFields DEF Turns, GuessOps
  <1>2. Serial => \A v \in Workers : tx'[v].op # "failing"
    BY GuessAlone, NoRequestFields DEF Turns
  <1> QED BY <1>1, <1>2, GuessKept

LEMMA PermissionGuesses ==
    ASSUME UserTypes, DatabaseInv, GuessInv, db' = db, UsersTypeOK', NEW w \in Workers, PermissionStep(w)
    PROVE  GuessInv'
  <1>0. TxShape /\ UsersHeld /\ OneWriter
    BY DEF DatabaseInv, UserTypes
  <1>1. ASSUME NEW u \in People, BeginSetup(w, u)
        PROVE  GuessInv'
    <2>1. user' = user /\ Turns(w, Request("setup", u, {}, {}, 0, TRUE))
      BY <1>0, <1>1, BeginTurns DEF BeginSetup, users
    <2>2. Request("setup", u, {}, {}, 0, TRUE).op \notin GuessOps
      BY DEF Request, GuessOps
    <2> QED BY <1>0, <2>1, <2>2, GuessAfterTurn
  <1>2. ASSUME NEW u \in People, ProvisionUser(w, u)
        PROVE  GuessInv'
    <2>1. user' = [user EXCEPT ![u] = NewUser] /\ tx' = tx /\ tx[w].op = "none" /\ Alone(w)
      BY <1>2, BeginnerAlone DEF ProvisionUser, Free
    <2>2. \A p \in People : user'[p] = user[p] \/ user'[p].failed = 0
      BY <2>1, NewRows DEF UserTypes, UsersTypeOK
    <2> QED BY <1>0, <2>1, <2>2, GuessAfterWrite
  <1>3. ASSUME NEW g \in People, NEW u \in People, NEW P \in Grantable,
               NEW op \in {"create", "assign"}, ValidateGrant(w, op, g, u, P)
        PROVE  GuessInv'
    <2>1. user' = user /\ Turns(w, Request(op, u, P, {}, 0, FALSE))
      BY <1>0, <1>3, LookTurns DEF ValidateGrant, users
    <2>2. Request(op, u, P, {}, 0, FALSE).op \notin GuessOps
      BY DEF Request, GuessOps
    <2> QED BY <1>0, <2>1, <2>2, GuessAfterTurn
  <1>4. CASE FinishSetup(w)
    <2>1. /\ user' = [user EXCEPT ![tx[w].on] = Founder] /\ Turns(w, NoRequest)
          /\ tx[w].op = "setup"
      BY <1>0, <1>4, EndTurns DEF FinishSetup
    <2>2. Alone(w)
      BY <1>0, <2>1, HolderAlone DEF UsersHeld, UserHolds
    <2>3. \A p \in People : user'[p] = user[p] \/ user'[p].failed = 0
      BY <2>1, NewRows DEF UserTypes, UsersTypeOK
    <2> QED BY <1>0, <2>1, <2>2, <2>3, GuessAfterWrite
  <1>5. CASE CreateUser(w)
    <2>1. /\ user' = [user EXCEPT ![tx[w].on] = NewUser] /\ MayBegin /\ Turns(w, NoRequest)
      BY <1>0, <1>5, ShortTurns DEF CreateUser
    <2>2. \A p \in People : user'[p] = user[p] \/ user'[p].failed = 0
      BY <2>1, NewRows DEF UserTypes, UsersTypeOK
    <2> QED BY <1>0, <2>1, <2>2, BeginnerAlone, GuessAfterWrite
  <1>6. CASE BeginAssign(w)
    <2> DEFINE r == Request("assigning", tx[w].on, tx[w].by, permitted[tx[w].on], tx[w].n, TRUE)
    <2>1. user' = user /\ Turns(w, r)
      BY <1>0, <1>6, OpenTurns DEF BeginAssign, users
    <2>2. r.op \notin GuessOps
      BY DEF Request, GuessOps
    <2> HIDE DEF r
    <2> QED BY <1>0, <2>1, <2>2, GuessAfterTurn
  <1>7. CASE FinishAssign(w)
    <2>1. user' = user /\ Turns(w, NoRequest)
      BY <1>0, <1>7, EndTurns DEF FinishAssign
    <2>2. NoRequest.op \notin GuessOps
      BY NoRequestFields DEF GuessOps
    <2> QED BY <1>0, <2>1, <2>2, GuessAfterTurn
  <1> QED BY <1>1, <1>2, <1>3, <1>4, <1>5, <1>6, <1>7 DEF PermissionStep

LEMMA InviteGuesses ==
    ASSUME UserTypes, DatabaseInv, GuessInv, db' = db, UsersTypeOK', NEW w \in Workers, InviteStep(w)
    PROVE  GuessInv'
  <1>0. TxShape /\ UsersHeld /\ OneWriter /\ user \in [People -> UserRow]
    BY DEF DatabaseInv, UserTypes, UsersTypeOK, UserRow
  <1>1. ASSUME NEW u \in People, CheckReissue(w, u)
        PROVE  GuessInv'
    <2>1. user' = user /\ Turns(w, Request("reissue", u, {}, {}, 0, FALSE))
      BY <1>0, <1>1, LookTurns DEF CheckReissue, users
    <2>2. Request("reissue", u, {}, {}, 0, FALSE).op \notin GuessOps
      BY DEF Request, GuessOps
    <2> QED BY <1>0, <2>1, <2>2, GuessAfterTurn
  <1>2. ASSUME NEW u \in People, DeleteUser(w, u)
        PROVE  GuessInv'
    <2>1. /\ user' = [user EXCEPT ![u].named = FALSE, ![u].active = FALSE]
          /\ tx' = tx /\ tx[w].op = "none" /\ Alone(w)
      BY <1>2, BeginnerAlone DEF DeleteUser, Free
    <2>2. PICK r : r = [user[u] EXCEPT !.named = FALSE, !.active = FALSE]
      OBVIOUS
    <2>3. user' = [user EXCEPT ![u] = r]
      BY <2>1, <2>2
    <2>4. r.failed = user[u].failed /\ r.locked = user[u].locked
      BY <1>0, <2>2, DeleteUpdate
    <2>5. \A p \in People : user'[p].failed = user[p].failed /\ user'[p].locked = user[p].locked
      BY <1>0, <2>3, <2>4
    <2> QED BY <1>0, <2>1, <2>5, GuessAfterWrite
  <1>3. CASE BeginReissue(w)
    <2> DEFINE r == Request("reissuing", tx[w].on, tx[w].by, OpenInvites(tx[w].on), tx[w].n, TRUE)
    <2>1. user' = user /\ Turns(w, r)
      BY <1>0, <1>3, OpenTurns DEF BeginReissue, users
    <2>2. r.op \notin GuessOps
      BY DEF Request, GuessOps
    <2> HIDE DEF r
    <2> QED BY <1>0, <2>1, <2>2, GuessAfterTurn
  <1>4. CASE FinishReissue(w)
    <2>1. user' = user /\ Turns(w, NoRequest)
      BY <1>0, <1>4, EndTurns DEF FinishReissue
    <2>2. NoRequest.op \notin GuessOps
      BY NoRequestFields DEF GuessOps
    <2> QED BY <1>0, <2>1, <2>2, GuessAfterTurn
  <1>5. CASE FinishRedeem(w)
    <2> DEFINE u == tx[w].on
    <2>1. /\ user' = [user EXCEPT ![u].password = "own", ![u].redeemed = TRUE]
          /\ Turns(w, NoRequest) /\ tx[w].op = "redeem"
      BY <1>0, <1>5, EndTurns DEF FinishRedeem
    <2>2. Alone(w) /\ u \in People
      BY <1>0, <2>1, HolderAlone DEF UsersHeld, UserHolds, UserOps
    <2>3. PICK r : r = [user[u] EXCEPT !.password = "own", !.redeemed = TRUE]
      OBVIOUS
    <2>4. user' = [user EXCEPT ![u] = r]
      BY <2>1, <2>3
    <2>5. r.failed = user[u].failed /\ r.locked = user[u].locked
      BY <1>0, <2>2, <2>3, RedeemUpdate
    <2>6. \A p \in People : user'[p].failed = user[p].failed /\ user'[p].locked = user[p].locked
      BY <1>0, <2>4, <2>5
    <2> QED BY SMTT(60), <1>0, <2>1, <2>2, <2>6, GuessAfterWrite
  <1>6. ASSUME NEW u \in People, NEW k \in 1 .. MaxInvites, BeginRedeem(w, u, k)
        PROVE  GuessInv'
    <2>1. user' = user /\ Turns(w, Request("redeem", u, {}, {k}, 0, TRUE))
      BY <1>0, <1>6, BeginTurns DEF BeginRedeem, users
    <2>2. Request("redeem", u, {}, {k}, 0, TRUE).op \notin GuessOps
      BY DEF Request, GuessOps
    <2> QED BY <1>0, <2>1, <2>2, GuessAfterTurn
  <1> QED BY <1>1, <1>2, <1>3, <1>4, <1>5, <1>6 DEF InviteStep

LEMMA LoginGuesses ==
    ASSUME UserTypes, DatabaseInv, GuessInv, db' = db, UserTypes', NEW w \in Workers, LoginStep(w)
    PROVE  GuessInv'
  <1>0. TxShape /\ UsersHeld /\ OneWriter /\ user \in [People -> UserRow]
    BY DEF DatabaseInv, UserTypes, UsersTypeOK, UserRow
  <1>t. UsersTypeOK' /\ UsersHeld'
    BY DEF UserTypes
  <1>1. ASSUME NEW u \in People, NEW right \in BOOLEAN, BeginLogin(w, u, right)
        PROVE  GuessInv'
    <2> SUFFICES ASSUME Serial PROVE GuessInv'
      BY DEF GuessInv, Serial
    <2> DEFINE op == IF right THEN "welcome" ELSE "wrong"
               r == Request(op, u, {}, {}, user[u].failed, FALSE)
    <2>1. user' = user /\ Turns(w, r) /\ tx[w].op = "none"
      BY <1>0, <1>1, LookTurns DEF BeginLogin, users
    <2>2. r.op # "failing" /\ r.on = u /\ r.n = user[u].failed
      BY DEF Request
    <2>3. \A v \in Workers : tx'[v] = IF v = w THEN r ELSE tx[v]
      BY <2>1 DEF Turns
    <2>4. \A v \in Workers : tx'[v].op = "failing" => tx'[v].seen = {user'[tx'[v].on].failed}
      <3> HIDE DEF r
      <3> QED BY <2>1, <2>2, <2>3 DEF GuessInv
    <2>5. ASSUME NEW p \in People, user'[p].locked = "never"
          PROVE  user'[p].failed + Cardinality(Cheap(p)') <= Threshold + Cardinality(Workers) - 2
      <3> HIDE DEF r
      <3>1. /\ user[p].failed + Cardinality(Cheap(p)) <= Threshold + Cardinality(Workers) - 2
            /\ user[p].failed \in Nat
        BY <2>1, <2>5, <1>0 DEF GuessInv, UserRow
      <3>2. CASE w \notin Cheap(p)'
        <4>1. Cheap(p)' \subseteq Cheap(p)
          BY <2>3, <3>2 DEF Cheap
        <4>2. /\ Cardinality(Cheap(p)') \in Nat /\ Cardinality(Cheap(p)) \in Nat
              /\ Cardinality(Cheap(p)') <= Cardinality(Cheap(p))
          BY <1>0, <4>1, CheapBound, FS_Subset, FS_CardinalityType
        <4> QED BY <2>1, <3>1, <4>2, WorkersCounted, UsersOK
      <3>3. CASE w \in Cheap(p)'
        <4>1. user[p].failed + 1 < Threshold
          BY <2>2, <2>3, <3>3 DEF Cheap
        <4>2. /\ Cardinality(Cheap(p)') \in Nat
              /\ Cardinality(Cheap(p)') <= Cardinality(Workers)
          <5>1. Cheap(p)' \subseteq Workers
            BY DEF Cheap
          <5> QED BY <5>1, UsersOK, FS_Subset, FS_CardinalityType
        <4> QED BY <2>1, <3>1, <4>1, <4>2, WorkersCounted, UsersOK
      <3> QED BY <3>2, <3>3
    <2> QED BY <2>4, <2>5 DEF GuessInv
  <1>2. CASE LoginSucceeds(w)
    <2>1. user' = [user EXCEPT ![tx[w].on].failed = 0] /\ Turns(w, NoRequest) /\ MayBegin
      BY <1>0, <1>2, ShortTurns DEF LoginSucceeds
    <2>2. \A p \in People : user'[p] = user[p] \/ user'[p].failed = 0
      BY <1>0, <2>1 DEF UserRow
    <2> QED BY <1>0, <1>t, <2>1, <2>2, BeginnerAlone, GuessAfterWrite
  <1>3. CASE BeginFailure(w)
    <2> SUFFICES ASSUME Serial PROVE GuessInv'
      BY DEF GuessInv, Serial
    <2> DEFINE u == tx[w].on
               r == Request("failing", u, tx[w].by, {user[u].failed}, tx[w].n, TRUE)
    <2>1. user' = user /\ Turns(w, r) /\ tx[w].op = "wrong"
      BY <1>0, <1>3, OpenTurns DEF BeginFailure, users
    <2>2. r.op = "failing" /\ r.on = u /\ r.n = tx[w].n /\ r.seen = {user[u].failed}
      BY DEF Request
    <2>3. \A v \in Workers : tx'[v] = IF v = w THEN r ELSE tx[v]
      BY <2>1 DEF Turns
    <2> HIDE DEF r
    <2>4. \A p \in People : Cheap(p)' = Cheap(p)
      BY <2>1, <2>2, <2>3 DEF Cheap, GuessOps
    <2> QED BY <2>1, <2>2, <2>3, <2>4 DEF GuessInv
  <1>4. CASE LoginFails(w)
    <2> SUFFICES ASSUME Serial PROVE GuessInv'
      BY DEF GuessInv, Serial
    <2> DEFINE u == tx[w].on
               lock == IF tx[w].n + 1 >= Threshold THEN "now" ELSE user[u].locked
    <2>1. u \in People /\ tx[w].op = "failing" /\ tx[w].n \in Nat /\ tx[w].open
      BY <1>0, <1>4 DEF LoginFails, UsersHeld, UserHolds, UserOps
    <2>2. PICK count \in tx[w].seen :
              user' = [user EXCEPT ![u].failed = count + 1,
                                   ![u].locked = IF tx[w].n + 1 >= Threshold THEN "now" ELSE @]
      BY <1>4 DEF LoginFails
    <2>3. count = user[u].failed
      BY <2>1, <2>2 DEF GuessInv
    <2>4. PICK r : r = [user[u] EXCEPT !.failed = count + 1, !.locked = lock]
      OBVIOUS
    <2>5. user' = [user EXCEPT ![u] = r]
      BY <2>2, <2>4
    <2>6. r.failed = user[u].failed + 1 /\ r.locked = lock
      <3>1. user[u] \in UserRow
        BY <1>0, <2>1
      <3> HIDE DEF lock
      <3> QED BY <2>3, <2>4, <3>1 DEF UserRow
    <2>7. Turns(w, NoRequest)
      BY <1>0, <1>4, EndTurns DEF LoginFails
    <2>8. \A v \in Workers : tx'[v].op # "failing"
      BY ZenonT(60), <1>0, <2>1, <2>7, HolderAlone, GuessAlone, NoRequestFields DEF Turns
    <2>9. ASSUME NEW p \in People, user'[p].locked = "never"
          PROVE  user'[p].failed + Cardinality(Cheap(p)') <= Threshold + Cardinality(Workers) - 2
      <3>1. Cheap(p)' = Cheap(p) \ {w}
        BY <2>7, NoRequestFields DEF Turns, Cheap, GuessOps
      <3>2. IsFiniteSet(Cheap(p)) /\ Cardinality(Cheap(p)) \in Nat
        BY <1>0, CheapBound
      <3>3. user[p].failed \in Nat
        BY <1>0 DEF UserRow
      <3>4. CASE p = u
        <4>1. tx[w].n + 1 < Threshold /\ user[p].locked = "never"
          BY <1>0, <2>1, <2>5, <2>6, <2>9, <3>4, UsersOK
        <4>2. w \in Cheap(p)
          BY <2>1, <3>4, <4>1 DEF Cheap, GuessOps
        <4>3. Cardinality(Cheap(p)') = Cardinality(Cheap(p)) - 1
          BY ZenonT(60), <3>1, <3>2, <4>2, FS_RemoveElement
        <4>4. user'[p].failed = user[p].failed + 1
          BY <1>0, <2>1, <2>5, <2>6, <3>4
        <4> QED BY <3>2, <3>3, <4>1, <4>3, <4>4, WorkersCounted, UsersOK DEF GuessInv
      <3>5. CASE p # u
        <4>1. user'[p] = user[p]
          BY <1>0, <2>5, <3>5
        <4>2. Cheap(p)' = Cheap(p)
          BY <3>1, <3>5 DEF Cheap
        <4> QED BY <2>9, <4>1, <4>2 DEF GuessInv
      <3> QED BY <3>4, <3>5
    <2> QED BY <2>8, <2>9 DEF GuessInv
  <1>5. ASSUME NEW u \in People, NEW active \in BOOLEAN,
               ChangePassword(w, u) \/ ResetPassword(w, u) \/ SetActive(w, u, active)
        PROVE  GuessInv'
    <2>1. tx' = tx /\ tx[w].op = "none" /\ Alone(w)
      BY <1>5, BeginnerAlone DEF ChangePassword, ResetPassword, SetActive, Free
    <2>2. PICK r : /\ user' = [user EXCEPT ![u] = r]
                   /\ r.failed = 0 \/ (r.failed = user[u].failed /\ r.locked = user[u].locked)
      <3>1. CASE ChangePassword(w, u)
        <4>1. PICK r : r = [user[u] EXCEPT !.password = "own"]
          OBVIOUS
        <4>2. user' = [user EXCEPT ![u] = r]
          BY <3>1, <4>1 DEF ChangePassword
        <4> QED BY <1>0, <4>1, <4>2, PasswordUpdate
      <3>2. CASE ResetPassword(w, u)
        <4>1. PICK r : r = [user[u] EXCEPT !.password = "temporary", !.failed = 0, !.locked = "never"]
          OBVIOUS
        <4>2. user' = [user EXCEPT ![u] = r]
          BY <3>2, <4>1 DEF ResetPassword
        <4> QED BY <1>0, <4>1, <4>2, ResetUpdate
      <3>3. CASE SetActive(w, u, active)
        <4>1. PICK r : r = [user[u] EXCEPT !.active = active]
          OBVIOUS
        <4>2. user' = [user EXCEPT ![u] = r]
          BY <3>3, <4>1 DEF SetActive
        <4> QED BY ZenonT(60), <1>0, <4>1, <4>2, ActiveUpdate
      <3> QED BY <1>5, <3>1, <3>2, <3>3
    <2>3. \A p \in People : user'[p] = IF p = u THEN r ELSE user[p]
      BY <1>0, <2>2
    <2> QED BY <1>0, <1>t, <2>1, <2>2, <2>3, GuessAfterWrite
  <1> QED BY <1>1, <1>2, <1>3, <1>4, <1>5 DEF LoginStep

LEMMA ClockGuesses ==
    ASSUME UserTypes, GuessInv, db' = db, UsersTypeOK', UsersClock
    PROVE  GuessInv'
  <1>0. UsersHeld /\ user \in [People -> UserRow]
    BY DEF UserTypes, UsersTypeOK, UserRow
  <1>1. tx' = tx
    BY DEF UsersClock, LockExpires, InviteExpires
  <1>2. \A p \in People : user'[p] = user[p] \/ (user'[p].failed = user[p].failed /\ user'[p].locked = "past")
    BY <1>0 DEF UsersClock, LockExpires, InviteExpires, UserRow
  <1>3. \A p \in People : user'[p].failed = user[p].failed
    BY <1>2
  <1>4. \A v \in Workers : tx[v].op = "failing" => tx[v].on \in People
    BY <1>0 DEF UsersHeld, UserHolds, UserOps
  <1> QED BY <1>0, <1>1, <1>2, <1>3, <1>4, GuessKept

-----------------------------------------------------------------------------
(* Together.                                                               *)

\* The users' handlers serve their own requests.
LEMMA UserStepServes ==
    ASSUME TxShape, NEW w \in Workers, UserStep(w)
    PROVE  Serves(UserOps)
  <1> USE DEF UserOps
  <1>1. CASE PermissionStep(w)
    <2>1. ASSUME NEW u \in People, BeginSetup(w, u)
          PROVE  Serves(UserOps)
      <3>1. Turns(w, Request("setup", u, {}, {}, 0, TRUE))
        BY <2>1, BeginTurns DEF BeginSetup
      <3> QED BY <3>1, RequestServes
    <2>2. ASSUME NEW g \in People, NEW u \in People, NEW P \in Grantable,
                 NEW op \in {"create", "assign"}, ValidateGrant(w, op, g, u, P)
          PROVE  Serves(UserOps)
      <3>1. Turns(w, Request(op, u, P, {}, 0, FALSE))
        BY <2>2, LookTurns DEF ValidateGrant
      <3> QED BY <3>1, RequestServes
    <2>3. CASE BeginAssign(w)
      <3>1. Turns(w, Request("assigning", tx[w].on, tx[w].by, permitted[tx[w].on], tx[w].n, TRUE))
        BY <2>3, OpenTurns DEF BeginAssign
      <3> QED BY <3>1, RequestServes
    <2>4. CASE FinishSetup(w) \/ FinishAssign(w)
      BY <2>4, EndTurns, EndServes DEF FinishSetup, FinishAssign
    <2>5. CASE CreateUser(w)
      BY <2>5, ShortTurns, EndServes DEF CreateUser
    <2>6. ASSUME NEW u \in People, ProvisionUser(w, u)
          PROVE  Serves(UserOps)
      BY <2>6 DEF ProvisionUser, Serves
    <2> QED BY <1>1, <2>1, <2>2, <2>3, <2>4, <2>5, <2>6 DEF PermissionStep
  <1>2. CASE InviteStep(w)
    <2>1. ASSUME NEW u \in People, CheckReissue(w, u)
          PROVE  Serves(UserOps)
      <3>1. Turns(w, Request("reissue", u, {}, {}, 0, FALSE))
        BY <2>1, LookTurns DEF CheckReissue
      <3> QED BY <3>1, RequestServes
    <2>2. CASE BeginReissue(w)
      <3>1. Turns(w, Request("reissuing", tx[w].on, tx[w].by, OpenInvites(tx[w].on), tx[w].n, TRUE))
        BY <2>2, OpenTurns DEF BeginReissue
      <3> QED BY <3>1, RequestServes
    <2>3. ASSUME NEW u \in People, NEW k \in 1 .. MaxInvites, BeginRedeem(w, u, k)
          PROVE  Serves(UserOps)
      <3>1. Turns(w, Request("redeem", u, {}, {k}, 0, TRUE))
        BY ZenonT(60), <2>3, BeginTurns DEF BeginRedeem
      <3> QED BY <3>1, RequestServes
    <2>4. CASE FinishReissue(w) \/ FinishRedeem(w)
      BY ZenonT(60), <2>4, EndTurns, EndServes DEF FinishReissue, FinishRedeem
    <2>5. ASSUME NEW u \in People, DeleteUser(w, u)
          PROVE  Serves(UserOps)
      BY <2>5 DEF DeleteUser, Serves
    <2> QED BY <1>2, <2>1, <2>2, <2>3, <2>4, <2>5 DEF InviteStep
  <1>3. CASE LoginStep(w)
    <2>1. ASSUME NEW u \in People, NEW right \in BOOLEAN, BeginLogin(w, u, right)
          PROVE  Serves(UserOps)
      <3>1. Turns(w, Request(IF right THEN "welcome" ELSE "wrong", u, {}, {}, user[u].failed, FALSE))
        BY <2>1, LookTurns DEF BeginLogin
      <3> QED BY <3>1, RequestServes
    <2>2. CASE BeginFailure(w)
      <3>1. Turns(w, Request("failing", tx[w].on, tx[w].by, {user[tx[w].on].failed}, tx[w].n, TRUE))
        BY <2>2, OpenTurns DEF BeginFailure
      <3> QED BY <3>1, RequestServes
    <2>3. CASE LoginSucceeds(w)
      BY <2>3, ShortTurns, EndServes DEF LoginSucceeds
    <2>4. CASE LoginFails(w)
      BY <2>4, EndTurns, EndServes DEF LoginFails
    <2>5. ASSUME NEW u \in People, NEW active \in BOOLEAN,
                 ChangePassword(w, u) \/ ResetPassword(w, u) \/ SetActive(w, u, active)
          PROVE  Serves(UserOps)
      BY <2>5 DEF ChangePassword, ResetPassword, SetActive, Serves
    <2> QED BY <1>3, <2>1, <2>2, <2>3, <2>4, <2>5 DEF LoginStep
  <1> QED BY <1>1, <1>2, <1>3 DEF UserStep

\* What every reachable state keeps of the users.
UsersInv == UserTypes /\ InvitesInv /\ GuessInv /\ FoundersSingle

LEMMA UsersInvStarts ==
    ASSUME DatabaseInv, \A w \in Workers : tx[w].op = "none", UsersInit
    PROVE  UsersInv
  <1>1. UserTypes
    BY UsersOK, UsersStart
  <1>2. InvitesInv
    <2>1. \A u \in People : invites[u] = <<>> /\ OpenInvites(u) = {}
      BY DEF UsersInit, OpenInvites
    <2> QED BY <2>1 DEF InvitesInv
  <1>3. GuessInv
    <2>1. \A u \in People : user[u].failed = 0 /\ Cheap(u) = {}
      BY DEF UsersInit, Nobody, Cheap, GuessOps
    <2>2. Cardinality({}) = 0
      BY FS_EmptySet
    <2>3. \A w \in Workers : tx[w].op # "failing"
      OBVIOUS
    <2>4. \A u \in People : user[u].failed + Cardinality(Cheap(u)) <= Threshold + Cardinality(Workers) - 2
      <3> TAKE u \in People
      <3>1. user[u].failed = 0 /\ Cardinality(Cheap(u)) = 0
        BY <2>1, <2>2
      <3>2. 0 <= Threshold + Cardinality(Workers) - 2
        BY WorkersCounted, UsersOK
      <3> QED BY <3>1, <3>2
    <2> QED BY <2>3, <2>4 DEF GuessInv
  <1>4. FoundersSingle
    BY DEF FoundersSingle, UsersInit
  <1> QED BY <1>1, <1>2, <1>3, <1>4 DEF UsersInv

LEMMA UserStepKeeps ==
    ASSUME UsersInv, DatabaseInv, db' = db, NEW w \in Workers, UserStep(w)
    PROVE  UsersInv' /\ DatabaseInv' /\ AdminStep
  <1> USE DEF UsersInv
  <1>1. UserTypes' /\ DatabaseInv'
    BY PermissionTypes, InviteTypes, LoginTypes DEF UserStep
  <1>2. InvitesInv'
    BY PermissionInvites, InviteStepInv, LoginInvites DEF UserStep
  <1>3. UsersTypeOK'
    BY <1>1 DEF UserTypes
  <1>4. GuessInv'
    BY <1>1, <1>3, PermissionGuesses, InviteGuesses, LoginGuesses DEF UserStep
  <1>5. FoundersSingle'
    BY FoundersStep DEF FoundersSingle
  <1>6. AdminStep
    BY UserStepAdmin
  <1> QED BY <1>1, <1>2, <1>4, <1>5, <1>6

LEMMA UsersClockKeeps ==
    ASSUME UsersInv, DatabaseInv, db' = db, UsersClock
    PROVE  UsersInv' /\ DatabaseInv' /\ AdminStep
  <1> USE DEF UsersInv
  <1>1. UserTypes' /\ DatabaseInv'
    BY ClockTypes
  <1>2. UsersTypeOK'
    BY <1>1 DEF UserTypes
  <1>3. InvitesInv' /\ GuessInv' /\ AdminStep
    BY <1>2, ClockInvites, ClockGuesses, ClockAdmin
  <1>4. FoundersSingle'
    BY DEF FoundersSingle, UsersClock, LockExpires, InviteExpires
  <1> QED BY <1>1, <1>3, <1>4

LEMMA UsersInvKept ==
    ASSUME UsersInv, UsersKept
    PROVE  UsersInv' /\ AdminStep
  <1> USE DEF UsersInv
  <1>1. UNCHANGED <<db, user, permitted, invites, founders>>
    BY DEF UsersKept, users
  <1>2. UserTypes' /\ UsersTypeOK' /\ UsersHeld
    BY UserTypesKept DEF UserTypes
  <1>3. InvitesInv'
    BY <1>1, InvitesUntouched DEF UsersKept, InviteOps, UserOps
  <1>4. GuessInv'
    <2>1. \A v \in Workers : tx'[v].op \in GuessOps => tx'[v] = tx[v]
      BY DEF UsersKept, GuessOps, UserOps
    <2> QED BY <1>1, <1>2, <2>1, GuessKept
  <1>5. FoundersSingle'
    BY <1>1 DEF FoundersSingle
  <1> QED BY <1>2, <1>3, <1>4, <1>5, AdminKept

\* A step that serves other requests leaves these alone.
LEMMA ServedElsewhere ==
    ASSUME NEW ops, Serves(ops), ops \cap UserOps = {}, UNCHANGED <<db, users>>
    PROVE  UsersKept
  BY DEF Serves, UsersKept, UserOps

\* What the invariant says of the properties.
LEMMA UsersInvGives ==
    ASSUME UsersInv
    PROVE  UsersTypeOK /\ GuessesBounded /\ InvitationsSingle /\ OneFounder
  <1> USE DEF UsersInv
  <1>1. UsersTypeOK /\ UsersHeld
    BY DEF UserTypes
  <1>2. GuessesBounded
    <2> SUFFICES ASSUME Serial, NEW u \in People, user[u].locked = "never"
                 PROVE  user[u].failed <= Threshold + Cardinality(Workers) - 2
      BY DEF GuessesBounded
    <2>1. Cardinality(Cheap(u)) \in Nat
      BY <1>1, CheapBound
    <2>2. user[u].failed \in Nat
      BY <1>1, UsersOK DEF UsersTypeOK
    <2>3. user[u].failed + Cardinality(Cheap(u)) <= Threshold + Cardinality(Workers) - 2
      BY DEF GuessInv
    <2> QED BY <2>1, <2>2, <2>3, WorkersCounted, UsersOK
  <1>3. InvitationsSingle
    <2> SUFFICES ASSUME Serial, NEW u \in People
                 PROVE  Cardinality(OpenInvites(u)) <= 1
      BY DEF InvitationsSingle, InvitesInv
    <2>1. CASE OpenInvites(u) = {}
      BY <2>1, FS_EmptySet
    <2>2. ASSUME NEW k \in OpenInvites(u)
          PROVE  Cardinality(OpenInvites(u)) <= 1
      <3> DEFINE K == OpenInvites(u)
      <3>1. \A l \in K : l = k
        BY <2>2 DEF InvitesInv
      <3> HIDE DEF K
      <3>2. K = {k}
        BY <2>2, <3>1 DEF K
      <3>3. Cardinality({k}) = 1
        BY FS_Singleton
      <3>4. Cardinality(K) <= 1
        BY <3>2, <3>3
      <3> QED BY <3>4 DEF K
    <2> QED BY <2>1, <2>2
  <1> QED BY <1>1, <1>2, <1>3, FoundersSingleGivesOne

-----------------------------------------------------------------------------
(* The workers of the three parts.                                         *)

ActorOps == {"approve", "deny", "disable", "enable", "archive", "replace", "setKey", "clearKey"}
TokenOps == {"client", "mint", "exchange", "redeemed", "assert", "rotate", "reuse", "revoke"}

\* Every request belongs to one of the parts.
OpsKnown == \A w \in Workers : tx[w].op \in ActorOps \cup TokenOps \cup UserOps \cup {"none"}

LEMMA ServesKnown ==
    ASSUME OpsKnown, Serves(ActorOps) \/ Serves(TokenOps) \/ Serves(UserOps)
    PROVE  OpsKnown'
  BY DEF OpsKnown, Serves

-----------------------------------------------------------------------------
(* Actors.                                                                 *)

\* What a request of the actors' handlers carries.
ActorHolds(r) ==
    /\ r.op \in ActorOps => r.open /\ r.on \in ActorIds
    /\ r.op = "replace" => r.by \subseteq Scopes
    /\ r.op \in {"setKey", "clearKey"} => r.by \subseteq KeyKinds

ActorsHeld == \A w \in Workers : ActorHolds(tx[w])

\* Where transactions are serial, what a verb or a replacement checked still holds.
CheckedHolds(r, S) ==
    /\ r.op \in Verbs => S[r.on] \in AllowedFrom[r.op]
    /\ r.op = "replace" => S[r.on] \notin {"absent", "archived"}

Checked == Serial => \A w \in Workers : CheckedHolds(tx[w], status)

ActorsInv == ActorsTypeOK /\ ActorsHeld /\ Checked

\* A step of other handlers leaves the actors alone.
ActorsKept ==
    /\ UNCHANGED <<db, actors>>
    /\ \A v \in Workers : tx'[v].op \in ActorOps => tx'[v] = tx[v]

\* ArchivedForGood, of one step.
ArchivedStep ==
    \A a \in ActorIds : Serial =>
        /\ status[a] = "archived" => /\ status'[a] = "archived"
                                     /\ \/ grants'[a] \subseteq grants[a]
                                        \/ \E w \in Workers, s \in Scopes : GrantByRequest(w, a, s)
        /\ status[a] # "archived" /\ status'[a] = "archived" => grants'[a] = {}

LEMMA VerbNames ==
    /\ Verbs = {"approve", "deny", "disable", "enable", "archive"} /\ Verbs \subseteq ActorOps
    /\ \A verb \in Verbs : AllowedFrom[verb] \subseteq Statuses \ {"absent", "archived"}
    /\ \A verb \in Verbs : Becomes[verb] \in Statuses \ {"absent"}
    /\ \A verb \in Verbs : Becomes[verb] = "archived" => verb = "archive"
  BY DEF Verbs, AllowedFrom, Becomes, ActorOps, Statuses

LEMMA ActorsInvStarts ==
    ASSUME ActorsInit, \A w \in Workers : tx[w].op = "none"
    PROVE  ActorsInv
  <1>1. ActorsTypeOK
    BY DEF ActorsInit, ActorsTypeOK, Statuses
  <1>2. ActorsHeld /\ Checked
    BY VerbNames DEF ActorsHeld, ActorHolds, ActorOps, Checked, CheckedHolds
  <1> QED BY <1>1, <1>2 DEF ActorsInv

LEMMA ActorsInvKept ==
    ASSUME ActorsInv, ActorsKept
    PROVE  ActorsInv' /\ ArchivedStep
  <1>1. UNCHANGED <<db, status, grants, bound, keys>>
    BY DEF ActorsKept, actors
  <1>2. ActorsTypeOK' /\ ArchivedStep
    BY <1>1 DEF ActorsInv, ActorsTypeOK, ArchivedStep
  <1>3. ASSUME NEW v \in Workers
        PROVE  ActorHolds(tx'[v])
    <2>1. CASE tx'[v].op \in ActorOps
      BY <2>1 DEF ActorsKept, ActorsInv, ActorsHeld
    <2>2. CASE tx'[v].op \notin ActorOps
      BY <2>2 DEF ActorHolds, ActorOps
    <2> QED BY <2>1, <2>2
  <1>4. ActorsHeld'
    BY <1>3 DEF ActorsHeld, ActorHolds
  <1>5. Checked'
    <2>1. Verbs \cup {"replace"} \subseteq ActorOps
      BY VerbNames DEF ActorOps
    <2>2. \A v \in Workers : tx'[v].op \in Verbs \cup {"replace"} => tx'[v] = tx[v]
      BY <2>1 DEF ActorsKept
    <2> QED BY <1>1, <2>2 DEF ActorsInv, Checked, CheckedHolds, Serial
  <1> QED BY <1>2, <1>4, <1>5 DEF ActorsInv

\* The actors after a request was begun ...
LEMMA ActorsAfterTurn ==
    ASSUME ActorsInv, UNCHANGED <<db, actors>>, NEW w \in Workers, NEW r, Turns(w, r),
           ActorHolds(r), CheckedHolds(r, status)
    PROVE  ActorsInv'
  <1>1. UNCHANGED <<db, status, grants, bound, keys>>
    BY DEF actors
  <1>2. ActorsTypeOK'
    BY <1>1 DEF ActorsInv, ActorsTypeOK
  <1>3. \A v \in Workers : tx'[v] = IF v = w THEN r ELSE tx[v]
    BY DEF Turns
  <1>4. ActorsHeld'
    BY <1>3 DEF ActorsInv, ActorsHeld, ActorHolds
  <1>5. Checked'
    BY <1>1, <1>3 DEF ActorsInv, Checked, CheckedHolds, Serial
  <1> QED BY <1>2, <1>4, <1>5 DEF ActorsInv

\* ... and after one that worked alone, wherever that matters, and is over.
LEMMA ActorsAfterWrite ==
    ASSUME ActorsInv, db' = db, ActorsTypeOK', NEW w \in Workers, Alone(w),
           (tx' = tx /\ tx[w].op = "none") \/ Turns(w, NoRequest)
    PROVE  ActorsInv'
  <1>1. \A v \in Workers : tx'[v] = tx[v] \/ tx'[v] = NoRequest
    BY DEF Turns
  <1>2. ActorsHeld'
    BY <1>1, NoRequestFields DEF ActorsInv, ActorsHeld, ActorHolds, ActorOps
  <1>3. Checked'
    <2> SUFFICES ASSUME Serial, NEW v \in Workers
                 PROVE  tx'[v].op \notin Verbs \cup {"replace"}
      BY DEF Checked, CheckedHolds, Serial
    <2>1. CASE v = w
      BY <2>1, NoRequestFields, VerbNames DEF Turns
    <2>2. CASE v # w
      <3>1. tx'[v] = tx[v] /\ ~tx[v].open
        BY <2>2 DEF Turns, Alone
      <3> QED BY <3>1, VerbNames DEF ActorsInv, ActorsHeld, ActorHolds, ActorOps
    <2> QED BY <2>1, <2>2
  <1> QED BY <1>2, <1>3 DEF ActorsInv

\* An agent stays active while a worker holds its row to issue a pair to it.
ActiveKept ==
    \A v \in Workers :
        tx[v].op = "assert" /\ tx[v].open /\ tx'[v] = tx[v] /\ tx[v].on \in Agents
            /\ status[tx[v].on] = "active" => status'[tx[v].on] = "active"

\* A handler that creates, grants, binds or unbinds commits in one step.
LEMMA ActorWriteKeeps ==
    ASSUME ActorsInv, DatabaseInv, db' = db, ActorsTypeOK', NEW w \in Workers,
           MayBegin, tx[w].op = "none", tx' = tx
    PROVE  ActorsInv' /\ DatabaseInv' /\ Serves(ActorOps)
  <1>1. ActorsInv'
    BY BeginnerAlone, ActorsAfterWrite
  <1> QED BY <1>1, StutterKeepsDatabase DEF Serves

LEMMA CreationKeeps ==
    ASSUME ActorsInv, DatabaseInv, db' = db, NEW w \in Workers, NEW a \in ActorIds,
           NEW S \in SUBSET Scopes,
           CreateAgent(w, a, S) \/ CreateServiceAccount(w, a, S) \/ Register(w, a, S)
    PROVE  ActorsInv' /\ DatabaseInv' /\ ArchivedStep /\ ActiveKept /\ Serves(ActorOps)
  <1>0. ActorsTypeOK
    BY DEF ActorsInv
  <1>1. /\ MayBegin /\ tx[w].op = "none" /\ tx' = tx /\ status[a] = "absent" /\ bound' = bound
        /\ \E s \in {"active", "pending"} : status' = [status EXCEPT ![a] = s]
        /\ \E G \in SUBSET Scopes : grants' = [grants EXCEPT ![a] = G]
        /\ keys' = keys \/ keys' = [keys EXCEPT ![a] = {"jwks"}]
    <2>1. CASE CreateAgent(w, a, S)
      BY <2>1, ActorsOK DEF CreateAgent
    <2>2. CASE CreateServiceAccount(w, a, S)
      BY <2>2 DEF CreateServiceAccount
    <2>3. CASE Register(w, a, S)
      BY <2>3 DEF Register
    <2> QED BY <2>1, <2>2, <2>3
  <1>2. ActorsTypeOK'
    BY <1>0, <1>1 DEF ActorsTypeOK, Statuses, KeyKinds
  <1>3. ArchivedStep
    BY <1>0, <1>1 DEF ActorsTypeOK, ArchivedStep
  <1>4. ActiveKept
    BY <1>0, <1>1 DEF ActorsTypeOK, ActiveKept, ActorIds
  <1> QED BY <1>1, <1>2, <1>3, <1>4, ActorWriteKeeps

LEMMA GrantKeeps ==
    ASSUME ActorsInv, DatabaseInv, db' = db, NEW w \in Workers, NEW a \in ActorIds,
           NEW s \in Scopes, GrantByRequest(w, a, s)
    PROVE  ActorsInv' /\ DatabaseInv' /\ ArchivedStep /\ ActiveKept /\ Serves(ActorOps)
  <1>0. ActorsTypeOK
    BY DEF ActorsInv
  <1>1. /\ MayBegin /\ tx[w].op = "none" /\ UNCHANGED <<tx, status, bound, keys>>
        /\ grants' = [grants EXCEPT ![a] = grants[a] \cup {s}]
    BY DEF GrantByRequest
  <1>2. ActorsTypeOK'
    BY <1>0, <1>1 DEF ActorsTypeOK
  <1>3. ArchivedStep
    <2> SUFFICES ASSUME NEW b \in ActorIds, Serial
                 PROVE  \/ grants'[b] \subseteq grants[b]
                        \/ \E v \in Workers, t \in Scopes : GrantByRequest(v, b, t)
      BY <1>1 DEF ArchivedStep
    <2>1. CASE b = a
      BY <2>1
    <2>2. CASE b # a
      BY <1>0, <1>1, <2>2 DEF ActorsTypeOK
    <2> QED BY <2>1, <2>2
  <1>4. ActiveKept
    BY <1>1 DEF ActiveKept
  <1> QED BY <1>1, <1>2, <1>3, <1>4, ActorWriteKeeps

LEMMA BindingKeeps ==
    ASSUME ActorsInv, DatabaseInv, db' = db, NEW w \in Workers, NEW a \in ActorIds,
           NEW t \in Toolkits, BindToolkit(w, a, t) \/ UnbindToolkit(w, a, t)
    PROVE  ActorsInv' /\ DatabaseInv' /\ ArchivedStep /\ ActiveKept /\ Serves(ActorOps)
  <1>0. ActorsTypeOK
    BY DEF ActorsInv
  <1>1. /\ MayBegin /\ tx[w].op = "none" /\ UNCHANGED <<tx, status, grants, keys>>
        /\ \E T \in SUBSET Toolkits : bound' = [bound EXCEPT ![a] = T]
    <2>1. bound[a] \cup {t} \in SUBSET Toolkits /\ bound[a] \ {t} \in SUBSET Toolkits
      BY <1>0 DEF ActorsTypeOK
    <2> QED BY <2>1 DEF BindToolkit, UnbindToolkit
  <1>2. ActorsTypeOK' /\ ArchivedStep /\ ActiveKept
    BY <1>0, <1>1 DEF ActorsTypeOK, ArchivedStep, ActiveKept
  <1> QED BY <1>1, <1>2, ActorWriteKeeps

\* A request begins, with what was checked.
LEMMA ActorBeginKeeps ==
    ASSUME ActorsInv, DatabaseInv, UNCHANGED <<db, actors>>, NEW w \in Workers,
           NEW op \in ActorOps, NEW on, NEW by, NEW seen, Begin(w, op, on, by, seen),
           ActorHolds(Request(op, on, by, seen, 0, TRUE)),
           CheckedHolds(Request(op, on, by, seen, 0, TRUE), status)
    PROVE  ActorsInv' /\ DatabaseInv' /\ ArchivedStep /\ ActiveKept /\ Serves(ActorOps)
  <1>1. TxShape /\ op # "none"
    BY DEF DatabaseInv, ActorOps
  <1>2. MayBegin /\ Turns(w, Request(op, on, by, seen, 0, TRUE))
    BY <1>1, BeginTurns
  <1>3. DatabaseInv'
    BY <1>1, <1>2, TurnKeepsDatabase
  <1>4. ActorsInv' /\ Serves(ActorOps)
    BY <1>2, ActorsAfterTurn, RequestServes
  <1>5. ArchivedStep /\ ActiveKept
    BY DEF actors, ArchivedStep, ActiveKept
  <1> QED BY <1>3, <1>4, <1>5

LEMMA ActorBeginsKeep ==
    ASSUME ActorsInv, DatabaseInv, db' = db, NEW w \in Workers, NEW a \in ActorIds,
           \/ \E verb \in Verbs : CheckTransition(w, verb, a)
           \/ \E S \in SUBSET Scopes : BeginReplace(w, a, S)
           \/ \E op \in {"setKey", "clearKey"}, kind \in {"apiKey", "secret"} : BeginKey(w, op, a, kind)
    PROVE  ActorsInv' /\ DatabaseInv' /\ ArchivedStep /\ ActiveKept /\ Serves(ActorOps)
  <1>1. ASSUME NEW verb \in Verbs, CheckTransition(w, verb, a)
        PROVE  ActorsInv' /\ DatabaseInv' /\ ArchivedStep /\ ActiveKept /\ Serves(ActorOps)
    <2> DEFINE r == Request(verb, a, {}, {}, 0, TRUE)
    <2>1. r.op = verb /\ r.on = a /\ r.by = {} /\ r.open
      BY DEF Request
    <2>2. verb \in ActorOps /\ verb \notin {"replace", "setKey", "clearKey"}
      BY VerbNames
    <2>3. status[a] \in AllowedFrom[verb] /\ UNCHANGED actors /\ Begin(w, verb, a, {}, {})
      BY <1>1 DEF CheckTransition
    <2>4. ActorHolds(r) /\ CheckedHolds(r, status)
      <3> HIDE DEF r
      <3> QED BY <2>1, <2>2, <2>3 DEF ActorHolds, CheckedHolds
    <2> QED BY <2>2, <2>3, <2>4, ActorBeginKeeps
  <1>2. ASSUME NEW S \in SUBSET Scopes, BeginReplace(w, a, S)
        PROVE  ActorsInv' /\ DatabaseInv' /\ ArchivedStep /\ ActiveKept /\ Serves(ActorOps)
    <2> DEFINE r == Request("replace", a, S, grants[a], 0, TRUE)
    <2>1. r.op = "replace" /\ r.on = a /\ r.by = S /\ r.open
      BY DEF Request
    <2>2. "replace" \in ActorOps /\ "replace" \notin Verbs
      BY VerbNames DEF ActorOps
    <2>3. /\ status[a] \notin {"absent", "archived"} /\ UNCHANGED actors
          /\ Begin(w, "replace", a, S, grants[a])
      BY <1>2 DEF BeginReplace
    <2>4. ActorHolds(r) /\ CheckedHolds(r, status)
      <3> HIDE DEF r
      <3> QED BY <2>1, <2>2, <2>3 DEF ActorHolds, CheckedHolds
    <2> QED BY <2>2, <2>3, <2>4, ActorBeginKeeps
  <1>3. ASSUME NEW op \in {"setKey", "clearKey"}, NEW kind \in {"apiKey", "secret"},
               BeginKey(w, op, a, kind)
        PROVE  ActorsInv' /\ DatabaseInv' /\ ArchivedStep /\ ActiveKept /\ Serves(ActorOps)
    <2> DEFINE r == Request(op, a, {kind}, {}, 0, TRUE)
    <2>1. r.op = op /\ r.on = a /\ r.by = {kind} /\ r.open
      BY DEF Request
    <2>2. op \in ActorOps /\ op # "replace" /\ op \notin Verbs /\ kind \in KeyKinds
      BY VerbNames DEF ActorOps, KeyKinds
    <2>3. UNCHANGED actors /\ Begin(w, op, a, {kind}, {})
      BY <1>3 DEF BeginKey
    <2>4. ActorHolds(r) /\ CheckedHolds(r, status)
      <3> HIDE DEF r
      <3> QED BY <2>1, <2>2 DEF ActorHolds, CheckedHolds
    <2> QED BY <2>2, <2>3, <2>4, ActorBeginKeeps
  <1> QED BY <1>1, <1>2, <1>3

\* A request that holds its transaction writes and is over.
LEMMA ActorCommitKeeps ==
    ASSUME ActorsInv, DatabaseInv, db' = db, ActorsTypeOK', NEW w \in Workers,
           tx[w].op \in ActorOps, End(w)
    PROVE  ActorsInv' /\ DatabaseInv' /\ Serves(ActorOps) /\ Turns(w, NoRequest)
  <1>1. TxShape /\ OneWriter /\ tx[w].open
    BY DEF DatabaseInv, ActorsInv, ActorsHeld, ActorHolds
  <1>2. Turns(w, NoRequest) /\ Alone(w)
    BY <1>1, EndTurns, HolderAlone
  <1> QED BY <1>2, EndKeepsDatabase, EndServes, ActorsAfterWrite

LEMMA TransitionKeeps ==
    ASSUME ActorsInv, DatabaseInv, db' = db, NEW w \in Workers, NEW verb \in Verbs,
           CommitTransition(w, verb)
    PROVE  ActorsInv' /\ DatabaseInv' /\ ArchivedStep /\ ActiveKept /\ Serves(ActorOps)
  <1> DEFINE a == tx[w].on
  <1>0. ActorsTypeOK
    BY DEF ActorsInv
  <1>1. /\ tx[w].op = verb /\ ~LockedByOther(w, RowLocks, a) /\ End(w) /\ keys' = keys
        /\ status' = [status EXCEPT ![a] = Becomes[verb]]
        /\ grants' = [grants EXCEPT ![a] = GrantsAfter(verb, a)]
        /\ bound' = [bound EXCEPT ![a] = IF verb = "archive" THEN {} ELSE bound[a]]
    BY DEF CommitTransition
  <1>2. a \in ActorIds /\ verb \in ActorOps /\ Becomes[verb] \in Statuses
    BY <1>1, VerbNames DEF ActorsInv, ActorsHeld, ActorHolds
  <1>3. GrantsAfter(verb, a) \subseteq Scopes
    BY <1>0, <1>2, ActorsOK DEF GrantsAfter, ActorsTypeOK
  <1>4. ActorsTypeOK'
    BY <1>0, <1>1, <1>2, <1>3 DEF ActorsTypeOK
  <1>5. ActorsInv' /\ DatabaseInv' /\ Serves(ActorOps) /\ Turns(w, NoRequest)
    BY <1>1, <1>2, <1>4, ActorCommitKeeps
  <1>6. ArchivedStep
    <2> SUFFICES ASSUME NEW b \in ActorIds, Serial
                 PROVE  /\ status[b] = "archived" => status'[b] = "archived" /\ grants'[b] \subseteq grants[b]
                        /\ status[b] # "archived" /\ status'[b] = "archived" => grants'[b] = {}
      BY DEF ArchivedStep
    <2>1. CASE b = a
      <3>1. status[b] # "archived"
        BY <1>1, <2>1, VerbNames DEF ActorsInv, Checked, CheckedHolds
      <3>2. status'[b] = Becomes[verb] /\ grants'[b] = GrantsAfter(verb, a)
        BY <1>0, <1>1, <1>2, <2>1 DEF ActorsTypeOK
      <3>3. GrantsAfter("archive", a) = {}
        BY DEF GrantsAfter
      <3> QED BY <3>1, <3>2, <3>3, VerbNames
    <2>2. CASE b # a
      BY <1>0, <1>1, <2>2 DEF ActorsTypeOK
    <2> QED BY <2>1, <2>2
  <1>7. ActiveKept
    <2> SUFFICES ASSUME NEW v \in Workers, tx[v].op = "assert", tx[v].open, tx[v].on \in Agents,
                        status[tx[v].on] = "active"
                 PROVE  status'[tx[v].on] = "active"
      BY DEF ActiveKept
    <2>1. v # w /\ tx[v].on # a
      BY <1>1, <1>2 DEF LockedByOther, RowLocks, ActorOps
    <2> QED BY <1>0, <1>1, <2>1 DEF ActorsTypeOK, ActorIds
  <1> QED BY <1>5, <1>6, <1>7

LEMMA ReplacementKeeps ==
    ASSUME ActorsInv, DatabaseInv, db' = db, NEW w \in Workers, CommitReplace(w)
    PROVE  ActorsInv' /\ DatabaseInv' /\ ArchivedStep /\ ActiveKept /\ Serves(ActorOps)
  <1> DEFINE a == tx[w].on
             G == (grants[a] \ tx[w].seen) \cup tx[w].by
  <1>0. ActorsTypeOK
    BY DEF ActorsInv
  <1>1. /\ tx[w].op = "replace" /\ End(w) /\ UNCHANGED <<status, bound, keys>>
        /\ grants' = [grants EXCEPT ![a] = G]
    BY DEF CommitReplace
  <1>2. a \in ActorIds /\ tx[w].by \subseteq Scopes /\ tx[w].op \in ActorOps
    BY <1>1 DEF ActorsInv, ActorsHeld, ActorHolds, ActorOps
  <1>3. G \subseteq Scopes
    BY <1>0, <1>2 DEF ActorsTypeOK
  <1> HIDE DEF G
  <1>4. ActorsTypeOK'
    BY <1>0, <1>1, <1>3 DEF ActorsTypeOK
  <1>5. ArchivedStep
    <2>1. Serial => status[a] # "archived"
      BY <1>1 DEF ActorsInv, Checked, CheckedHolds
    <2> QED BY <1>0, <1>1, <2>1 DEF ActorsTypeOK, ArchivedStep
  <1>6. ActiveKept
    BY <1>1 DEF ActiveKept
  <1> QED BY <1>1, <1>2, <1>4, <1>5, <1>6, ActorCommitKeeps

LEMMA KeyKeeps ==
    ASSUME ActorsInv, DatabaseInv, db' = db, NEW w \in Workers, CommitKey(w)
    PROVE  ActorsInv' /\ DatabaseInv' /\ ArchivedStep /\ ActiveKept /\ Serves(ActorOps)
  <1> DEFINE a == tx[w].on
             K == IF tx[w].op = "setKey" THEN keys[a] \cup tx[w].by ELSE keys[a] \ tx[w].by
  <1>0. ActorsTypeOK
    BY DEF ActorsInv
  <1>1. /\ tx[w].op \in {"setKey", "clearKey"} /\ End(w) /\ UNCHANGED <<status, grants, bound>>
        /\ keys' = [keys EXCEPT ![a] = K]
    BY DEF CommitKey
  <1>2. a \in ActorIds /\ tx[w].by \subseteq KeyKinds /\ tx[w].op \in ActorOps
    BY <1>1 DEF ActorsInv, ActorsHeld, ActorHolds, ActorOps
  <1>3. K \subseteq KeyKinds
    BY <1>0, <1>2 DEF ActorsTypeOK
  <1> HIDE DEF K
  <1>4. ActorsTypeOK'
    BY <1>0, <1>1, <1>3 DEF ActorsTypeOK
  <1>5. ArchivedStep /\ ActiveKept
    BY <1>1 DEF ArchivedStep, ActiveKept
  <1> QED BY <1>1, <1>2, <1>4, <1>5, ActorCommitKeeps

LEMMA ActorStepKeeps ==
    ASSUME ActorsInv, DatabaseInv, db' = db, NEW w \in Workers, ActorStep(w)
    PROVE  ActorsInv' /\ DatabaseInv' /\ ArchivedStep /\ ActiveKept /\ Serves(ActorOps)
  <1>1. CASE \E a \in ActorIds, S \in SUBSET Scopes :
                \/ CreateAgent(w, a, S) \/ CreateServiceAccount(w, a, S) \/ Register(w, a, S)
                \/ BeginReplace(w, a, S)
    BY <1>1, CreationKeeps, ActorBeginsKeep
  <1>2. CASE \E a \in ActorIds, verb \in Verbs : CheckTransition(w, verb, a)
    BY <1>2, ActorBeginsKeep
  <1>3. CASE \E verb \in Verbs : CommitTransition(w, verb)
    BY <1>3, TransitionKeeps
  <1>4. CASE CommitReplace(w)
    BY <1>4, ReplacementKeeps
  <1>5. CASE \E a \in ActorIds, t \in Toolkits : BindToolkit(w, a, t) \/ UnbindToolkit(w, a, t)
    BY <1>5, BindingKeeps
  <1>6. CASE \E a \in ActorIds, op \in {"setKey", "clearKey"}, kind \in {"apiKey", "secret"} :
                BeginKey(w, op, a, kind)
    BY <1>6, ActorBeginsKeep
  <1>7. CASE CommitKey(w)
    BY <1>7, KeyKeeps
  <1>8. CASE \E a \in ActorIds, s \in Scopes : GrantByRequest(w, a, s)
    BY <1>8, GrantKeeps
  <1> QED BY <1>1, <1>2, <1>3, <1>4, <1>5, <1>6, <1>7, <1>8 DEF ActorStep

-----------------------------------------------------------------------------
(* Tokens: their rows.                                                     *)

FamilyRow == [actor : ActorIds \cup Codes, via : {"code", "assertion", "client", "mint"}]
RefreshRow == [family : Nat, consumed : BOOLEAN, revoked : BOOLEAN, expired : BOOLEAN]
AccessRow == [family : Nat, scopes : SUBSET Scopes, revoked : BOOLEAN, expired : BOOLEAN]

RowsTyped ==
    /\ family \in Seq(FamilyRow) /\ refresh \in Seq(RefreshRow) /\ access \in Seq(AccessRow)
    /\ \A i \in DOMAIN refresh : refresh[i].family \in DOMAIN family
    /\ \A k \in DOMAIN access : access[k].family \in DOMAIN family

TokensTyped ==
    /\ RowsTyped
    /\ code \in [Codes -> {"none", "fresh", "used", "expired"}]
    /\ assertion \in [Assertions -> [life : 0 .. MaxTtl + 1, cached : 0 .. MaxTtl, used : Nat]]
    /\ restarts \in 0 .. MaxRestarts

LEMMA TokensTypedGives ==
    ASSUME TokensTyped
    PROVE  TokensTypeOK
  <1>1. \A i \in DOMAIN refresh : refresh[i] \in RefreshRow
    BY DEF TokensTyped, RowsTyped
  <1>2. \A k \in DOMAIN access : access[k] \in AccessRow
    BY DEF TokensTyped, RowsTyped
  <1>3. \A i \in DOMAIN refresh : refresh[i] \in
          [family : DOMAIN family, consumed : BOOLEAN, revoked : BOOLEAN, expired : BOOLEAN]
    BY <1>1 DEF TokensTyped, RowsTyped, RefreshRow
  <1>4. \A k \in DOMAIN access : access[k] \in
          [family : DOMAIN family, scopes : SUBSET Scopes, revoked : BOOLEAN, expired : BOOLEAN]
    BY <1>2 DEF TokensTyped, RowsTyped, AccessRow
  <1> QED BY <1>3, <1>4 DEF TokensTyped, RowsTyped, TokensTypeOK, FamilyRow

\* A row is added to a table.
LEMMA Appended ==
    ASSUME NEW S, NEW s \in Seq(S), NEW e \in S, NEW t, t = Append(s, e)
    PROVE  /\ t \in Seq(S) /\ Len(t) = Len(s) + 1 /\ Len(s) \in Nat
           /\ DOMAIN s = 1 .. Len(s) /\ DOMAIN t = 1 .. Len(s) + 1
           /\ \A i \in DOMAIN s : t[i] = s[i]
           /\ t[Len(s) + 1] = e
  OBVIOUS

\* The rows of a table change in place.
LEMMA Rewritten ==
    ASSUME NEW S, NEW s \in Seq(S), NEW t, t = [i \in DOMAIN s |-> t[i]],
           \A i \in DOMAIN s : t[i] \in S
    PROVE  t \in Seq(S) /\ DOMAIN t = DOMAIN s
  <1>1. DOMAIN s = 1 .. Len(s) /\ Len(s) \in Nat
    OBVIOUS
  <1>2. t \in [1 .. Len(s) -> S]
    BY <1>1
  <1> QED BY <1>1, <1>2

LEMMA NewRefreshRow ==
    ASSUME NEW f \in Nat
    PROVE  /\ NewRefresh(f) \in RefreshRow
           /\ NewRefresh(f).family = f /\ ~NewRefresh(f).consumed /\ ~NewRefresh(f).revoked
  BY DEF NewRefresh, RefreshRow

LEMMA NewAccessRow ==
    ASSUME NEW f \in Nat, NEW S \in SUBSET Scopes
    PROVE  /\ NewAccess(f, S) \in AccessRow
           /\ NewAccess(f, S).family = f /\ ~NewAccess(f, S).revoked
  BY DEF NewAccess, AccessRow

\* A family f was added.
IssuedRows(f) ==
    /\ DOMAIN family' = DOMAIN family \cup {f} /\ f \notin DOMAIN family
    /\ \A g \in DOMAIN family : family'[g] = family[g]

LEMMA IssuedFamily ==
    ASSUME RowsTyped, NEW row \in FamilyRow, family' = Append(family, row)
    PROVE  /\ family' \in Seq(FamilyRow) /\ IssuedRows(Len(family'))
           /\ Len(family') \in Nat /\ family'[Len(family')] = row
  <1>1. /\ family' \in Seq(FamilyRow) /\ Len(family') = Len(family) + 1 /\ Len(family) \in Nat
        /\ DOMAIN family = 1 .. Len(family) /\ DOMAIN family' = 1 .. Len(family) + 1
        /\ \A i \in DOMAIN family : family'[i] = family[i]
        /\ family'[Len(family) + 1] = row
    BY Appended DEF RowsTyped
  <1> QED BY <1>1 DEF IssuedRows

LEMMA IssuedAccess ==
    ASSUME RowsTyped, NEW f \in Nat, f \in DOMAIN family', NEW S \in SUBSET Scopes,
           \A g \in DOMAIN family : g \in DOMAIN family',
           access' = Append(access, NewAccess(f, S))
    PROVE  /\ access' \in Seq(AccessRow)
           /\ \A k \in DOMAIN access' : \/ k \in DOMAIN access /\ access'[k] = access[k]
                                        \/ access'[k].family = f
           /\ \A k \in DOMAIN access' : access'[k].family \in DOMAIN family'
  <1>1. NewAccess(f, S) \in AccessRow /\ NewAccess(f, S).family = f
    BY NewAccessRow
  <1>2. /\ access' \in Seq(AccessRow) /\ Len(access) \in Nat
        /\ DOMAIN access = 1 .. Len(access) /\ DOMAIN access' = 1 .. Len(access) + 1
        /\ \A i \in DOMAIN access : access'[i] = access[i]
        /\ access'[Len(access) + 1] = NewAccess(f, S)
    BY <1>1, Appended DEF RowsTyped
  <1>3. \A k \in DOMAIN access' : \/ k \in DOMAIN access /\ access'[k] = access[k]
                                  \/ access'[k].family = f
    BY <1>1, <1>2
  <1> QED BY <1>2, <1>3 DEF RowsTyped

LEMMA PairIssued ==
    ASSUME RowsTyped, NEW actor \in ActorIds \cup Codes,
           NEW via \in {"code", "assertion", "client", "mint"}, IssuePair(actor, via)
    PROVE  \E f \in Nat :
              /\ RowsTyped' /\ IssuedRows(f) /\ family'[f] = [actor |-> actor, via |-> via]
              /\ \A i \in DOMAIN refresh : i \in DOMAIN refresh' /\ refresh'[i] = refresh[i]
              /\ \E n : /\ DOMAIN refresh' = DOMAIN refresh \cup {n} /\ n \notin DOMAIN refresh
                        /\ refresh'[n] = NewRefresh(f)
              /\ \A k \in DOMAIN access' : \/ k \in DOMAIN access /\ access'[k] = access[k]
                                           \/ access'[k].family = f
  <1> DEFINE f == Len(family')
             row == [actor |-> actor, via |-> via]
  <1>1. row \in FamilyRow
    BY DEF FamilyRow
  <1>2. /\ family' = Append(family, row) /\ refresh' = Append(refresh, NewRefresh(f))
        /\ access' = Append(access, NewAccess(f, {}))
    BY DEF IssuePair
  <1>s. PICK S \in SUBSET Scopes : access' = Append(access, NewAccess(f, S))
    BY <1>2
  <1>3. /\ family' \in Seq(FamilyRow) /\ IssuedRows(f) /\ f \in Nat /\ family'[f] = row
    BY <1>1, <1>2, IssuedFamily
  <1> HIDE DEF f, row
  <1>4. NewRefresh(f) \in RefreshRow /\ NewRefresh(f).family = f
    BY <1>3, NewRefreshRow
  <1>5. /\ refresh' \in Seq(RefreshRow) /\ Len(refresh) \in Nat
        /\ DOMAIN refresh = 1 .. Len(refresh) /\ DOMAIN refresh' = 1 .. Len(refresh) + 1
        /\ \A i \in DOMAIN refresh : refresh'[i] = refresh[i]
        /\ refresh'[Len(refresh) + 1] = NewRefresh(f)
    BY <1>2, <1>4, Appended DEF RowsTyped
  <1>6. \A g \in DOMAIN family : g \in DOMAIN family'
    BY <1>3 DEF IssuedRows
  <1>7. f \in DOMAIN family'
    BY <1>3 DEF IssuedRows
  <1>8. /\ access' \in Seq(AccessRow)
        /\ \A k \in DOMAIN access' : \/ k \in DOMAIN access /\ access'[k] = access[k]
                                     \/ access'[k].family = f
        /\ \A k \in DOMAIN access' : access'[k].family \in DOMAIN family'
    BY <1>s, <1>3, <1>6, <1>7, IssuedAccess
  <1>9. \A i \in DOMAIN refresh' : refresh'[i].family \in DOMAIN family'
    BY SMTT(60), <1>4, <1>5, <1>6, <1>7 DEF RowsTyped
  <1>10. RowsTyped'
    BY <1>3, <1>5, <1>8, <1>9 DEF RowsTyped
  <1>11. \E n : /\ DOMAIN refresh' = DOMAIN refresh \cup {n} /\ n \notin DOMAIN refresh
                /\ refresh'[n] = NewRefresh(f)
    BY <1>5
  <1> QED BY <1>3, <1>5, <1>8, <1>10, <1>11 DEF row

LEMMA MintIssued ==
    ASSUME RowsTyped, NEW actor \in ActorIds, NEW S \in SUBSET Scopes, IssueAccessOnly(actor, S)
    PROVE  \E f \in Nat :
              /\ RowsTyped' /\ IssuedRows(f) /\ family'[f] = [actor |-> actor, via |-> "mint"]
              /\ refresh' = refresh
              /\ \A k \in DOMAIN access' : \/ k \in DOMAIN access /\ access'[k] = access[k]
                                           \/ access'[k].family = f
  <1> DEFINE f == Len(family')
             row == [actor |-> actor, via |-> "mint"]
  <1>1. row \in FamilyRow
    BY DEF FamilyRow
  <1>2. /\ family' = Append(family, row) /\ refresh' = refresh
        /\ access' = Append(access, NewAccess(f, S))
    BY DEF IssueAccessOnly
  <1>3. /\ family' \in Seq(FamilyRow) /\ IssuedRows(f) /\ f \in Nat /\ family'[f] = row
    BY <1>1, <1>2, IssuedFamily
  <1> HIDE DEF f, row
  <1>4. f \in DOMAIN family' /\ \A g \in DOMAIN family : g \in DOMAIN family'
    BY <1>3 DEF IssuedRows
  <1>5. /\ access' \in Seq(AccessRow)
        /\ \A k \in DOMAIN access' : \/ k \in DOMAIN access /\ access'[k] = access[k]
                                     \/ access'[k].family = f
        /\ \A k \in DOMAIN access' : access'[k].family \in DOMAIN family'
    BY <1>2, <1>3, <1>4, IssuedAccess
  <1>6. RowsTyped'
    BY SMTT(60), <1>2, <1>3, <1>4, <1>5 DEF RowsTyped
  <1> QED BY <1>2, <1>3, <1>5, <1>6 DEF row

\* The rows after a rotation of row i.
LEMMA RowsRotated ==
    ASSUME RowsTyped, NEW w \in Workers, tx[w].on \in DOMAIN refresh, Rotate(w)
    PROVE  /\ RowsTyped' /\ family' = family
           /\ \E n : /\ DOMAIN refresh' = DOMAIN refresh \cup {n} /\ n \notin DOMAIN refresh
                     /\ refresh'[n] = NewRefresh(refresh[tx[w].on].family)
           /\ \A j \in DOMAIN refresh :
                 /\ refresh'[j].family = refresh[j].family
                 /\ refresh'[j].revoked = refresh[j].revoked
                 /\ j # tx[w].on => refresh'[j] = refresh[j]
           /\ refresh'[tx[w].on].consumed
           /\ \A k \in DOMAIN access' :
                 \/ k \in DOMAIN access /\ access'[k] = access[k]
                 \/ access'[k].family = refresh[tx[w].on].family
  <1> DEFINE i == tx[w].on
             f == refresh[i].family
             consumed == [refresh EXCEPT ![i].consumed = TRUE]
  <1>1. /\ refresh' = Append(consumed, NewRefresh(f)) /\ family' = family
        /\ access' = Append(access, NewAccess(f, {}))
    BY DEF Rotate
  <1>2. f \in DOMAIN family /\ f \in Nat /\ refresh[i] \in RefreshRow
    <2>1. f \in DOMAIN family /\ refresh[i] \in RefreshRow
      BY DEF RowsTyped
    <2> QED BY <2>1 DEF RefreshRow
  <1>3. PICK r : r = [refresh[i] EXCEPT !.consumed = TRUE]
    OBVIOUS
  <1>4. r \in RefreshRow /\ r.family = f /\ r.revoked = refresh[i].revoked /\ r.consumed
    BY <1>2, <1>3 DEF RefreshRow
  <1>5. consumed = [refresh EXCEPT ![i] = r]
    BY <1>3
  <1>6. \A j \in DOMAIN refresh : consumed[j] = IF j = i THEN r ELSE refresh[j]
    BY <1>5
  <1>7. consumed \in Seq(RefreshRow) /\ DOMAIN consumed = DOMAIN refresh
    <2>1. ASSUME NEW j \in DOMAIN refresh
          PROVE  consumed[j] \in RefreshRow
      <3>1. refresh[j] \in RefreshRow
        BY DEF RowsTyped
      <3> HIDE DEF consumed
      <3> QED BY <1>4, <1>6, <3>1
    <2>2. consumed = [j \in DOMAIN refresh |-> consumed[j]]
      BY <1>5
    <2> HIDE DEF consumed
    <2> QED BY <2>1, <2>2, Rewritten DEF RowsTyped
  <1>8. NewRefresh(f) \in RefreshRow /\ NewRefresh(f).family = f
    BY <1>2, NewRefreshRow
  <1> HIDE DEF consumed
  <1>9. /\ refresh' \in Seq(RefreshRow) /\ Len(consumed) \in Nat
        /\ DOMAIN consumed = 1 .. Len(consumed) /\ DOMAIN refresh' = 1 .. Len(consumed) + 1
        /\ \A j \in DOMAIN consumed : refresh'[j] = consumed[j]
        /\ refresh'[Len(consumed) + 1] = NewRefresh(f)
    BY <1>1, <1>7, <1>8, Appended
  <1>10. PICK S \in SUBSET Scopes : access' = Append(access, NewAccess(f, S))
    BY <1>1
  <1>11. /\ access' \in Seq(AccessRow)
         /\ \A k \in DOMAIN access' : \/ k \in DOMAIN access /\ access'[k] = access[k]
                                      \/ access'[k].family = f
         /\ \A k \in DOMAIN access' : access'[k].family \in DOMAIN family'
    <2>1. f \in DOMAIN family' /\ \A g \in DOMAIN family : g \in DOMAIN family'
      BY <1>1, <1>2
    <2> QED BY <1>2, <1>10, <2>1, IssuedAccess
  <1>12. \A j \in DOMAIN refresh :
            /\ refresh'[j].family = refresh[j].family /\ refresh'[j].revoked = refresh[j].revoked
            /\ j # i => refresh'[j] = refresh[j]
    BY <1>4, <1>6, <1>7, <1>9
  <1>13. \A j \in DOMAIN refresh' : refresh'[j].family \in DOMAIN family'
    BY <1>1, <1>2, <1>7, <1>8, <1>9, <1>12 DEF RowsTyped
  <1>14. RowsTyped'
    BY <1>1, <1>9, <1>11, <1>13 DEF RowsTyped
  <1>15. refresh'[i].consumed
    BY <1>4, <1>6, <1>7, <1>9
  <1>16. \E n : /\ DOMAIN refresh' = DOMAIN refresh \cup {n} /\ n \notin DOMAIN refresh
                /\ refresh'[n] = NewRefresh(f)
    BY SMTT(60), <1>7, <1>9
  <1> QED BY <1>1, <1>11, <1>12, <1>14, <1>15, <1>16

\* The rows after the second statement of a revocation.
LEMMA RowsRevoked ==
    ASSUME RowsTyped, NEW w \in Workers, tx[w].on \in DOMAIN refresh, FinishRevoke(w)
    PROVE  /\ RowsTyped' /\ family' = family
           /\ DOMAIN refresh' = DOMAIN refresh /\ DOMAIN access' = DOMAIN access
           /\ \A j \in DOMAIN refresh :
                 /\ refresh'[j].family = refresh[j].family
                 /\ refresh'[j].consumed = refresh[j].consumed
                 /\ IF j \in tx[w].seen /\ refresh[j].family = refresh[tx[w].on].family
                    THEN refresh'[j].revoked ELSE refresh'[j] = refresh[j]
           /\ \A k \in DOMAIN access :
                 /\ access'[k].family = access[k].family
                 /\ IF access[k].family = refresh[tx[w].on].family
                    THEN access'[k].revoked ELSE access'[k] = access[k]
  <1> DEFINE f == refresh[tx[w].on].family
  <1>1. /\ refresh' = RevokeRows(f, tx[w].seen) /\ family' = family
        /\ access' = [k \in DOMAIN access |->
               IF access[k].family = f THEN [access[k] EXCEPT !.revoked = TRUE] ELSE access[k]]
    BY DEF FinishRevoke
  <1>2. ASSUME NEW j \in DOMAIN refresh
        PROVE  /\ refresh'[j] \in RefreshRow
               /\ refresh'[j].family = refresh[j].family
               /\ refresh'[j].consumed = refresh[j].consumed
               /\ IF j \in tx[w].seen /\ refresh[j].family = f
                  THEN refresh'[j].revoked ELSE refresh'[j] = refresh[j]
    <2>1. refresh[j] \in RefreshRow
      BY DEF RowsTyped
    <2>2. PICK r : r = [refresh[j] EXCEPT !.revoked = TRUE]
      OBVIOUS
    <2>3. r \in RefreshRow /\ r.family = refresh[j].family /\ r.consumed = refresh[j].consumed /\ r.revoked
      BY <2>1, <2>2 DEF RefreshRow
    <2>4. refresh'[j] = IF j \in tx[w].seen /\ refresh[j].family = f THEN r ELSE refresh[j]
      BY <1>1, <2>2 DEF RevokeRows
    <2> QED BY <2>1, <2>3, <2>4
  <1>3. ASSUME NEW k \in DOMAIN access
        PROVE  /\ access'[k] \in AccessRow
               /\ access'[k].family = access[k].family
               /\ IF access[k].family = f THEN access'[k].revoked ELSE access'[k] = access[k]
    <2>1. access[k] \in AccessRow
      BY DEF RowsTyped
    <2>2. PICK r : r = [access[k] EXCEPT !.revoked = TRUE]
      OBVIOUS
    <2>3. r \in AccessRow /\ r.family = access[k].family /\ r.revoked
      BY <2>1, <2>2 DEF AccessRow
    <2>4. access'[k] = IF access[k].family = f THEN r ELSE access[k]
      BY <1>1, <2>2
    <2> QED BY <2>1, <2>3, <2>4
  <1>4. refresh' = [j \in DOMAIN refresh |-> refresh'[j]] /\ access' = [k \in DOMAIN access |-> access'[k]]
    BY <1>1 DEF RevokeRows
  <1>5. refresh' \in Seq(RefreshRow) /\ DOMAIN refresh' = DOMAIN refresh
    BY <1>2, <1>4, Rewritten DEF RowsTyped
  <1>6. access' \in Seq(AccessRow) /\ DOMAIN access' = DOMAIN access
    BY SMTT(60), <1>3, <1>4, Rewritten DEF RowsTyped
  <1>7. RowsTyped'
    BY <1>1, <1>2, <1>3, <1>5, <1>6 DEF RowsTyped
  <1> QED BY <1>1, <1>2, <1>3, <1>5, <1>6, <1>7

\* The rows after a token alone was revoked or expired.
LEMMA RefreshRowWritten ==
    ASSUME RowsTyped, NEW i \in DOMAIN refresh, NEW r \in RefreshRow,
           refresh' = [refresh EXCEPT ![i] = r], UNCHANGED <<family, access>>,
           r.family = refresh[i].family
    PROVE  RowsTyped'
  <1>1. \A j \in DOMAIN refresh : refresh'[j] = IF j = i THEN r ELSE refresh[j]
    OBVIOUS
  <1>2. refresh' = [j \in DOMAIN refresh |-> refresh'[j]]
    OBVIOUS
  <1>3. refresh' \in Seq(RefreshRow) /\ DOMAIN refresh' = DOMAIN refresh
    BY <1>1, <1>2, Rewritten DEF RowsTyped
  <1> QED BY <1>1, <1>3 DEF RowsTyped

LEMMA AccessRowWritten ==
    ASSUME RowsTyped, NEW k \in DOMAIN access, NEW r \in AccessRow,
           access' = [access EXCEPT ![k] = r], UNCHANGED <<family, refresh>>,
           r.family = access[k].family
    PROVE  RowsTyped'
  <1>1. \A j \in DOMAIN access : access'[j] = IF j = k THEN r ELSE access[j]
    OBVIOUS
  <1>2. access' = [j \in DOMAIN access |-> access'[j]]
    OBVIOUS
  <1>3. access' \in Seq(AccessRow) /\ DOMAIN access' = DOMAIN access
    BY <1>1, <1>2, Rewritten DEF RowsTyped
  <1> QED BY <1>1, <1>3 DEF RowsTyped

-----------------------------------------------------------------------------
(* Tokens: rotation.                                                       *)

\* What a request of the tokens' handlers carries.
TokenHolds(r) ==
    /\ r.op = "client" => r.on \in ServiceAccounts
    /\ r.op = "mint" => r.on \in Agents /\ r.by \subseteq Scopes
    /\ r.op \in {"exchange", "redeemed"} => r.on \in Codes
    /\ r.op = "assert" => r.on \in Agents
    /\ r.op \in {"exchange", "assert", "rotate", "reuse", "revoke"} => r.open

TokensHeld == \A w \in Workers : TokenHolds(tx[w])

RotationOps == {"rotate", "reuse", "revoke"}

\* What a refresh or a revocation rests on: its row; a rotation, that the row can still be
\* rotated; and where transactions are serial, that the rows it saw are all there are.
RotationHolds(r, R) ==
    /\ r.op \in RotationOps => r.on \in DOMAIN R
    /\ r.op = "rotate" => ~R[r.on].consumed /\ ~R[r.on].revoked
    /\ Serial /\ r.op \in {"reuse", "revoke"} /\ r.seen # {} => r.seen = DOMAIN R

RotationHeld == \A w \in Workers : RotationHolds(tx[w], refresh)

\* Two refreshes never hold the same row.
RotationApart ==
    \A v, w \in Workers :
        tx[v].op \in RefreshLocks /\ tx[w].op \in RefreshLocks /\ tx[v].on = tx[w].on => v = w

Usable(i) == ~refresh[i].consumed /\ ~refresh[i].revoked

\* Of the tokens of a family one at most can still be rotated.
Chain ==
    \A i, j \in DOMAIN refresh :
        Usable(i) /\ Usable(j) /\ refresh[i].family = refresh[j].family => i = j

RotationInv == RotationHeld /\ RotationApart /\ Chain /\ FamilyRevokedWholeSerial

\* FamilyRevokedWhole, without the set of siblings.
LEMMA RevokedWholeIff ==
    FamilyRevokedWhole <=>
        \A i \in DOMAIN refresh : refresh[i].revoked =>
            /\ \A k \in DOMAIN refresh : refresh[k].family = refresh[i].family => refresh[k].revoked
            /\ \A k \in DOMAIN access : access[k].family = refresh[i].family => access[k].revoked
  BY DEF FamilyRevokedWhole, Siblings

LEMMA RevokedWholeNext ==
    FamilyRevokedWhole' <=>
        \A i \in DOMAIN refresh' : refresh'[i].revoked =>
            /\ \A k \in DOMAIN refresh' : refresh'[k].family = refresh'[i].family => refresh'[k].revoked
            /\ \A k \in DOMAIN access' : access'[k].family = refresh'[i].family => access'[k].revoked
  BY DEF FamilyRevokedWhole, Siblings

\* Requests that go on, while rows are added at most.
LEMMA RotationHeldKept ==
    ASSUME RotationHeld, db' = db,
           \A i \in DOMAIN refresh :
               /\ i \in DOMAIN refresh'
               /\ refresh'[i].consumed = refresh[i].consumed /\ refresh'[i].revoked = refresh[i].revoked,
           \A v \in Workers : tx'[v].op \in RotationOps => tx'[v] = tx[v],
           \/ DOMAIN refresh' = DOMAIN refresh
           \/ Serial => \A v \in Workers : tx'[v].op \notin {"reuse", "revoke"}
    PROVE  RotationHeld'
  <1> SUFFICES ASSUME NEW v \in Workers, tx'[v].op \in RotationOps
               PROVE  RotationHolds(tx'[v], refresh')
    BY DEF RotationHeld, RotationHolds, RotationOps, Serial
  <1>1. tx'[v] = tx[v] /\ RotationHolds(tx[v], refresh)
    BY DEF RotationHeld
  <1> QED BY <1>1 DEF RotationHolds, RotationOps, Serial

LEMMA RotationApartKept ==
    ASSUME RotationApart, \A v \in Workers : tx'[v].op \in RotationOps => tx'[v] = tx[v]
    PROVE  RotationApart'
  BY DEF RotationApart, RotationOps, RefreshLocks

\* Nothing happened that matters to the refresh tokens.
LEMMA RotationUntouched ==
    ASSUME RowsTyped, RotationInv, db' = db,
           DOMAIN refresh' = DOMAIN refresh,
           \A i \in DOMAIN refresh :
               /\ refresh'[i].family = refresh[i].family
               /\ refresh'[i].consumed = refresh[i].consumed /\ refresh'[i].revoked = refresh[i].revoked,
           \A k \in DOMAIN access' :
               \/ /\ k \in DOMAIN access /\ access'[k].family = access[k].family
                  /\ access[k].revoked => access'[k].revoked
               \/ access'[k].family \notin DOMAIN family,
           \A v \in Workers : tx'[v].op \in RotationOps => tx'[v] = tx[v]
    PROVE  RotationInv'
  <1> USE DEF RotationInv
  <1>1. RotationHeld' /\ RotationApart'
    BY RotationHeldKept, RotationApartKept
  <1>2. Chain'
    BY DEF Chain, Usable
  <1>3. FamilyRevokedWholeSerial'
    <2> SUFFICES ASSUME Serial PROVE FamilyRevokedWhole'
      BY DEF FamilyRevokedWholeSerial, Serial
    <2>1. FamilyRevokedWhole
      BY DEF FamilyRevokedWholeSerial
    <2> SUFFICES ASSUME NEW i \in DOMAIN refresh', refresh'[i].revoked
                 PROVE  /\ \A k \in DOMAIN refresh' : refresh'[k].family = refresh'[i].family => refresh'[k].revoked
                        /\ \A k \in DOMAIN access' : access'[k].family = refresh'[i].family => access'[k].revoked
      BY RevokedWholeNext
    <2>2. i \in DOMAIN refresh /\ refresh[i].revoked /\ refresh'[i].family = refresh[i].family
      OBVIOUS
    <2>3. refresh[i].family \in DOMAIN family
      BY <2>2 DEF RowsTyped
    <2> QED BY <2>1, <2>2, <2>3, RevokedWholeIff
  <1> QED BY <1>1, <1>2, <1>3

LEMMA RotationIssued ==
    ASSUME RowsTyped, RotationInv, db' = db, NEW f, f \notin DOMAIN family, f \in Nat,
           \A i \in DOMAIN refresh : i \in DOMAIN refresh' /\ refresh'[i] = refresh[i],
           NEW n, DOMAIN refresh' = DOMAIN refresh \cup {n}, n \notin DOMAIN refresh,
           refresh'[n] = NewRefresh(f),
           \A k \in DOMAIN access' : \/ k \in DOMAIN access /\ access'[k] = access[k]
                                     \/ access'[k].family = f,
           \A v \in Workers : tx'[v].op \in RotationOps => tx'[v] = tx[v],
           Serial => \A v \in Workers : tx'[v].op \notin {"reuse", "revoke"}
    PROVE  RotationInv'
  <1> USE DEF RotationInv
  <1>1. RotationHeld' /\ RotationApart'
    BY RotationHeldKept, RotationApartKept
  <1>2. refresh'[n].family = f /\ ~refresh'[n].revoked
    BY NewRefreshRow
  <1>3. \A i \in DOMAIN refresh' : i # n => i \in DOMAIN refresh /\ refresh'[i] = refresh[i]
    OBVIOUS
  <1>4. \A i \in DOMAIN refresh : refresh[i].family # f
    BY DEF RowsTyped
  <1>5. Chain'
    BY <1>2, <1>3, <1>4 DEF Chain, Usable
  <1>6. FamilyRevokedWholeSerial'
    <2> SUFFICES ASSUME Serial PROVE FamilyRevokedWhole'
      BY DEF FamilyRevokedWholeSerial, Serial
    <2>1. FamilyRevokedWhole
      BY DEF FamilyRevokedWholeSerial
    <2> SUFFICES ASSUME NEW i \in DOMAIN refresh', refresh'[i].revoked
                 PROVE  /\ \A k \in DOMAIN refresh' : refresh'[k].family = refresh'[i].family => refresh'[k].revoked
                        /\ \A k \in DOMAIN access' : access'[k].family = refresh'[i].family => access'[k].revoked
      BY RevokedWholeNext
    <2>2. i \in DOMAIN refresh /\ refresh'[i] = refresh[i] /\ refresh[i].family # f
      BY <1>2, <1>3, <1>4
    <2> QED BY <1>2, <1>3, <2>1, <2>2, RevokedWholeIff
  <1> QED BY <1>1, <1>5, <1>6

\* A rotation: the rotated token was the only one that could be, and so is the new one.
LEMMA RotationRotated ==
    ASSUME RowsTyped, RotationInv, TokensHeld, OneWriter, TxShape, db' = db,
           NEW w \in Workers, Rotate(w)
    PROVE  RotationInv'
  <1> USE DEF RotationInv
  <1> DEFINE i == tx[w].on
             f == refresh[i].family
  <1>1. tx[w].op = "rotate" /\ End(w)
    BY DEF Rotate
  <1>2. /\ i \in DOMAIN refresh /\ ~refresh[i].consumed /\ ~refresh[i].revoked
        /\ tx[w].open /\ f \in Nat
    <2>1. i \in DOMAIN refresh /\ ~refresh[i].consumed /\ ~refresh[i].revoked /\ tx[w].open
      BY <1>1 DEF RotationHeld, RotationHolds, RotationOps, TokensHeld, TokenHolds
    <2>2. refresh[i] \in RefreshRow
      BY <2>1 DEF RowsTyped
    <2> QED BY <2>1, <2>2 DEF RefreshRow
  <1>3. Turns(w, NoRequest) /\ Alone(w)
    BY <1>1, <1>2, EndTurns, HolderAlone
  <1>4. PICK n : /\ DOMAIN refresh' = DOMAIN refresh \cup {n} /\ n \notin DOMAIN refresh
                 /\ refresh'[n] = NewRefresh(f)
    BY <1>2, RowsRotated
  <1>5. /\ \A j \in DOMAIN refresh :
              /\ refresh'[j].family = refresh[j].family /\ refresh'[j].revoked = refresh[j].revoked
              /\ j # i => refresh'[j] = refresh[j]
        /\ refresh'[i].consumed
        /\ \A k \in DOMAIN access' : \/ k \in DOMAIN access /\ access'[k] = access[k]
                                     \/ access'[k].family = f
    BY <1>2, RowsRotated
  <1>6. refresh'[n].family = f /\ ~refresh'[n].revoked
    BY <1>2, <1>4, NewRefreshRow
  <1>7. RotationApart'
    <2>1. \A v \in Workers : tx'[v].op \in RotationOps => tx'[v] = tx[v]
      BY <1>3, NoRequestFields DEF Turns, RotationOps
    <2> QED BY <2>1, RotationApartKept
  <1>8. RotationHeld'
    <2> SUFFICES ASSUME NEW v \in Workers, tx'[v].op \in RotationOps
                 PROVE  RotationHolds(tx'[v], refresh')
      BY DEF RotationHeld, RotationHolds, RotationOps, Serial
    <2>1. v # w /\ tx'[v] = tx[v]
      BY <1>3, NoRequestFields DEF Turns, RotationOps
    <2>2. RotationHolds(tx[v], refresh) /\ tx[v].open /\ ~Serial
      BY <1>3, <2>1 DEF RotationHeld, TokensHeld, TokenHolds, RotationOps, Alone
    <2>3. tx[v].op = "rotate" => tx[v].on # i
      BY <1>1, <2>1 DEF RotationApart, RefreshLocks
    <2> QED BY <1>4, <1>5, <2>1, <2>2, <2>3 DEF RotationHolds, RotationOps, Serial
  <1>9. Chain'
    <2> SUFFICES ASSUME NEW j \in DOMAIN refresh', NEW k \in DOMAIN refresh',
                        Usable(j)', Usable(k)', refresh'[j].family = refresh'[k].family
                 PROVE  j = k
      BY DEF Chain, Usable
    <2>1. ASSUME NEW m \in DOMAIN refresh, Usable(m)'
          PROVE  Usable(m) /\ m # i /\ refresh[m].family # f
      <3>1. m # i /\ Usable(m)
        BY <1>5, <2>1 DEF Usable
      <3> QED BY <1>2, <3>1 DEF Chain, Usable
    <2>2. CASE j = n /\ k \in DOMAIN refresh
      BY <1>5, <1>6, <2>1, <2>2
    <2>3. CASE k = n /\ j \in DOMAIN refresh
      BY <1>5, <1>6, <2>1, <2>3
    <2>4. CASE j \in DOMAIN refresh /\ k \in DOMAIN refresh
      BY <1>5, <2>1, <2>4 DEF Chain
    <2> QED BY <1>4, <2>2, <2>3, <2>4
  <1>10. FamilyRevokedWholeSerial'
    <2> SUFFICES ASSUME Serial PROVE FamilyRevokedWhole'
      BY DEF FamilyRevokedWholeSerial, Serial
    <2>1. FamilyRevokedWhole
      BY DEF FamilyRevokedWholeSerial
    <2> SUFFICES ASSUME NEW j \in DOMAIN refresh', refresh'[j].revoked
                 PROVE  /\ \A k \in DOMAIN refresh' : refresh'[k].family = refresh'[j].family => refresh'[k].revoked
                        /\ \A k \in DOMAIN access' : access'[k].family = refresh'[j].family => access'[k].revoked
      BY RevokedWholeNext
    <2>2. j \in DOMAIN refresh /\ refresh[j].revoked
      BY <1>4, <1>5, <1>6
    <2>3. refresh[j].family # f
      BY <1>2, <2>1, <2>2, RevokedWholeIff
    <2> QED BY <1>4, <1>5, <1>6, <2>1, <2>2, <2>3, RevokedWholeIff
  <1> QED BY <1>7, <1>8, <1>9, <1>10

\* A revocation: no rotation holds a row it revokes, and where transactions are serial it
\* has seen them all.
LEMMA RotationRevoked ==
    ASSUME RowsTyped, RotationInv, TokensHeld, OneWriter, TxShape, db' = db,
           NEW w \in Workers, FinishRevoke(w)
    PROVE  RotationInv'
  <1> USE DEF RotationInv
  <1> DEFINE i == tx[w].on
             f == refresh[i].family
  <1>1. /\ tx[w].op \in {"reuse", "revoke"} /\ tx[w].seen # {} /\ End(w)
        /\ \A k \in Siblings(i) \cap tx[w].seen : ~LockedByOther(w, RefreshLocks, k)
    BY DEF FinishRevoke
  <1>2. i \in DOMAIN refresh /\ tx[w].open
    BY <1>1 DEF RotationHeld, RotationHolds, RotationOps, TokensHeld, TokenHolds
  <1>3. Turns(w, NoRequest) /\ Alone(w)
    BY <1>1, <1>2, EndTurns, HolderAlone
  <1>4. /\ DOMAIN refresh' = DOMAIN refresh /\ DOMAIN access' = DOMAIN access
        /\ \A j \in DOMAIN refresh :
              /\ refresh'[j].family = refresh[j].family /\ refresh'[j].consumed = refresh[j].consumed
              /\ IF j \in tx[w].seen /\ refresh[j].family = f
                 THEN refresh'[j].revoked ELSE refresh'[j] = refresh[j]
        /\ \A k \in DOMAIN access :
              /\ access'[k].family = access[k].family
              /\ IF access[k].family = f THEN access'[k].revoked ELSE access'[k] = access[k]
    BY <1>2, RowsRevoked
  <1>5. \A v \in Workers : tx'[v].op \in RotationOps => tx'[v] = tx[v] /\ v # w
    BY <1>3, NoRequestFields DEF Turns, RotationOps
  <1>6. RotationApart'
    BY <1>5, RotationApartKept
  <1>7. RotationHeld'
    <2> SUFFICES ASSUME NEW v \in Workers, tx'[v].op \in RotationOps
                 PROVE  RotationHolds(tx'[v], refresh')
      BY DEF RotationHeld, RotationHolds, RotationOps, Serial
    <2>1. v # w /\ tx'[v] = tx[v]
      BY <1>5
    <2>2. RotationHolds(tx[v], refresh) /\ tx[v].open /\ ~Serial
      BY <1>3, <2>1 DEF RotationHeld, TokensHeld, TokenHolds, RotationOps, Alone
    <2>3. tx[v].op = "rotate" => ~(tx[v].on \in tx[w].seen /\ refresh[tx[v].on].family = f)
      BY <1>1, <2>1, <2>2 DEF LockedByOther, RefreshLocks, Siblings, RotationHolds, RotationOps
    <2> QED BY <1>4, <2>1, <2>2, <2>3 DEF RotationHolds, RotationOps, Serial
  <1>8. Chain'
    <2>1. \A j \in DOMAIN refresh : Usable(j)' => Usable(j)
      BY <1>4 DEF Usable
    <2> QED BY <1>4, <2>1 DEF Chain
  <1>9. FamilyRevokedWholeSerial'
    <2> SUFFICES ASSUME Serial PROVE FamilyRevokedWhole'
      BY DEF FamilyRevokedWholeSerial, Serial
    <2>1. FamilyRevokedWhole
      BY DEF FamilyRevokedWholeSerial
    <2>2. tx[w].seen = DOMAIN refresh
      BY <1>1 DEF RotationHeld, RotationHolds
    <2> SUFFICES ASSUME NEW j \in DOMAIN refresh', refresh'[j].revoked
                 PROVE  /\ \A k \in DOMAIN refresh' : refresh'[k].family = refresh'[j].family => refresh'[k].revoked
                        /\ \A k \in DOMAIN access' : access'[k].family = refresh'[j].family => access'[k].revoked
      BY RevokedWholeNext
    <2>3. CASE refresh[j].family = f
      BY <1>4, <2>2, <2>3
    <2>4. CASE refresh[j].family # f
      BY <1>4, <2>1, <2>4, RevokedWholeIff
    <2> QED BY <2>3, <2>4
  <1> QED BY <1>6, <1>7, <1>8, <1>9

\* A refresh or a revocation begins, or its statement does.
LEMMA RotationAfterTurn ==
    ASSUME RowsTyped, RotationInv, UNCHANGED <<db, rows>>, NEW w \in Workers, NEW r, Turns(w, r),
           RotationHolds(r, refresh),
           r.op \in RefreshLocks => \A v \in Workers \ {w} :
               tx[v].op \in RefreshLocks => tx[v].on # r.on
    PROVE  RotationInv'
  <1> USE DEF RotationInv
  <1>1. UNCHANGED <<family, refresh, access>>
    BY DEF rows
  <1>2. \A v \in Workers : tx'[v] = IF v = w THEN r ELSE tx[v]
    BY DEF Turns
  <1>3. RotationHeld'
    BY <1>1, <1>2 DEF RotationHeld, RotationHolds, Serial
  <1>4. RotationApart'
    BY <1>2 DEF RotationApart
  <1>5. Chain' /\ FamilyRevokedWholeSerial'
    BY <1>1 DEF Chain, Usable, FamilyRevokedWholeSerial, FamilyRevokedWhole, Siblings, Serial
  <1> QED BY <1>3, <1>4, <1>5

-----------------------------------------------------------------------------
(* Tokens: codes and assertions.                                           *)

CodeOps == {"exchange", "redeemed"}

Bought(f) == family[f].via = "code"

\* An exchange holds a code that was not used; one that used it has bought nothing yet.
CodeHolds(r) ==
    /\ r.op = "exchange" => code[r.on] \in {"fresh", "expired"}
    /\ r.op = "redeemed" => /\ code[r.on] = "used"
                            /\ \A f \in DOMAIN family : Bought(f) => family[f].actor # r.on

CodeApart ==
    \A v, w \in Workers :
        tx[v].op \in CodeOps /\ tx[w].op \in CodeOps /\ tx[v].on = tx[w].on => v = w

\* What was bought was bought with a used code, and no other family was.
BoughtOnce ==
    /\ \A f \in DOMAIN family : Bought(f) => family[f].actor \in Codes /\ code[family[f].actor] = "used"
    /\ \A f, g \in DOMAIN family : Bought(f) /\ Bought(g) /\ family[f].actor = family[g].actor => f = g

CodeInv == (\A w \in Workers : CodeHolds(tx[w])) /\ CodeApart /\ BoughtOnce

\* Codes that are not being exchanged may be issued and may expire, and other families
\* may be added.
LEMMA CodeKept ==
    ASSUME CodeInv,
           \A c \in Codes : code[c] \in {"fresh", "expired"} => code'[c] \in {"fresh", "expired"},
           \A c \in Codes : code[c] = "used" => code'[c] = "used",
           TokensHeld,
           \A f \in DOMAIN family' : \/ f \in DOMAIN family /\ family'[f] = family[f]
                                     \/ ~Bought(f)',
           \A v \in Workers : tx'[v].op \in CodeOps => tx'[v] = tx[v]
    PROVE  CodeInv'
  <1>1. \A f \in DOMAIN family' : Bought(f)' => f \in DOMAIN family /\ Bought(f) /\ family'[f] = family[f]
    BY DEF Bought
  <1>2. ASSUME NEW v \in Workers
        PROVE  CodeHolds(tx[v])'
    <2>1. CASE tx'[v].op \in CodeOps
      <3>1. tx'[v] = tx[v] /\ CodeHolds(tx[v]) /\ tx[v].on \in Codes
        BY <2>1 DEF CodeInv, TokensHeld, TokenHolds, CodeOps
      <3> QED BY <1>1, <3>1 DEF CodeHolds
    <2>2. CASE tx'[v].op \notin CodeOps
      BY <2>2 DEF CodeHolds, CodeOps
    <2> QED BY <2>1, <2>2
  <1>3. CodeApart'
    BY DEF CodeInv, CodeApart
  <1>4. BoughtOnce'
    BY <1>1 DEF CodeInv, BoughtOnce
  <1> QED BY <1>2, <1>3, <1>4 DEF CodeInv

LEMMA CodeAfterTurn ==
    ASSUME CodeInv, UNCHANGED <<family, code>>, NEW w \in Workers, NEW r, Turns(w, r), CodeHolds(r),
           r.op \in CodeOps => \A v \in Workers \ {w} : tx[v].op \in CodeOps => tx[v].on # r.on
    PROVE  CodeInv'
  <1>1. \A v \in Workers : tx'[v] = IF v = w THEN r ELSE tx[v]
    BY DEF Turns
  <1>2. \A v \in Workers : CodeHolds(tx[v])'
    BY <1>1 DEF CodeInv, CodeHolds, Bought
  <1>3. CodeApart' /\ BoughtOnce'
    BY <1>1 DEF CodeInv, CodeApart, BoughtOnce, Bought
  <1> QED BY <1>2, <1>3 DEF CodeInv

\* The code is used; the request has still to be given its pair.
LEMMA CodeConsumed ==
    ASSUME CodeInv, TokensHeld, TokensTyped, TxShape, NEW w \in Workers, ConsumeCode(w)
    PROVE  CodeInv'
  <1> DEFINE c == tx[w].on
             r == Request("redeemed", c, tx[w].by, tx[w].seen, tx[w].n, FALSE)
  <1>1. /\ tx[w].op = "exchange" /\ family' = family
        /\ code' = [code EXCEPT ![c] = "used"] /\ c \in Codes
    BY DEF ConsumeCode, rows, TokensHeld, TokenHolds
  <1>2. Turns(w, r)
    BY CloseTurns DEF ConsumeCode
  <1>3. r.op = "redeemed" /\ r.on = c
    BY DEF Request
  <1> HIDE DEF r
  <1>4. \A v \in Workers : tx'[v] = IF v = w THEN r ELSE tx[v]
    BY <1>2 DEF Turns
  <1>5. code[c] \in {"fresh", "expired"} /\ \A d \in Codes : code'[d] = IF d = c THEN "used" ELSE code[d]
    BY <1>1 DEF CodeInv, CodeHolds, TokensTyped
  <1>6. \A f \in DOMAIN family : Bought(f) => family[f].actor # c
    BY <1>5 DEF CodeInv, BoughtOnce
  <1>7. ASSUME NEW v \in Workers
        PROVE  CodeHolds(tx[v])'
    <2>1. CASE v = w
      BY <1>1, <1>3, <1>4, <1>5, <1>6, <2>1 DEF CodeHolds, Bought
    <2>2. CASE v # w /\ tx[v].op \in CodeOps
      <3>1. tx'[v] = tx[v] /\ tx[v].on # c /\ tx[v].on \in Codes /\ CodeHolds(tx[v])
        BY <1>1, <1>4, <2>2 DEF CodeInv, CodeApart, CodeOps, TokensHeld, TokenHolds
      <3> QED BY <1>1, <1>5, <3>1 DEF CodeHolds, Bought
    <2>3. CASE v # w /\ tx[v].op \notin CodeOps
      BY <1>4, <2>3 DEF CodeHolds, CodeOps
    <2> QED BY <2>1, <2>2, <2>3
  <1>8. CodeApart'
    BY <1>1, <1>3, <1>4 DEF CodeInv, CodeApart, CodeOps
  <1>9. BoughtOnce'
    BY <1>1, <1>5 DEF CodeInv, BoughtOnce, Bought
  <1> QED BY <1>7, <1>8, <1>9 DEF CodeInv

\* The pair of a code, issued to the one request that used it.
LEMMA CodePaid ==
    ASSUME CodeInv, code' = code, NEW w \in Workers, Turns(w, NoRequest),
           tx[w].op = "redeemed", tx[w].on \in Codes,
           NEW f, IssuedRows(f), family'[f] = [actor |-> tx[w].on, via |-> "code"]
    PROVE  CodeInv'
  <1> DEFINE c == tx[w].on
  <1>1. \A v \in Workers : tx'[v] = IF v = w THEN NoRequest ELSE tx[v]
    BY DEF Turns
  <1>2. code[c] = "used" /\ \A g \in DOMAIN family : Bought(g) => family[g].actor # c
    BY DEF CodeInv, CodeHolds
  <1>3. /\ \A g \in DOMAIN family' : g = f \/ (g \in DOMAIN family /\ family'[g] = family[g])
        /\ family'[f].actor = c
    BY DEF IssuedRows
  <1>4. ASSUME NEW v \in Workers
        PROVE  CodeHolds(tx[v])'
    <2>1. CASE v = w
      BY <1>1, <2>1, NoRequestFields DEF CodeHolds
    <2>2. CASE v # w /\ tx[v].op \in CodeOps
      <3>1. tx'[v] = tx[v] /\ tx[v].on # c /\ CodeHolds(tx[v])
        BY <1>1, <2>2 DEF CodeInv, CodeApart, CodeOps
      <3> QED BY <1>3, <3>1 DEF CodeHolds, Bought
    <2>3. CASE v # w /\ tx[v].op \notin CodeOps
      BY <1>1, <2>3 DEF CodeHolds, CodeOps
    <2> QED BY <2>1, <2>2, <2>3
  <1>5. CodeApart'
    BY <1>1, NoRequestFields DEF CodeInv, CodeApart, CodeOps
  <1>6. BoughtOnce'
    BY <1>2, <1>3 DEF CodeInv, BoughtOnce, Bought
  <1> QED BY <1>4, <1>5, <1>6 DEF CodeInv

\* A jti was burned in this life of the process only if the cache will remember it for as
\* long as the assertion lives.
ReplayInv ==
    \A j \in Assertions :
        /\ assertion[j].used <= 1 + restarts
        /\ assertion[j].used > restarts => assertion[j].life <= assertion[j].cached

\* The agent of an exchange is active, from the look at its row until its pair is issued.
AssertHeld == \A w \in Workers : tx[w].op = "assert" => status[tx[w].on] = "active"

\* What every reachable state keeps of the tokens.
TokensInv == TokensTyped /\ TokensHeld /\ RotationInv /\ CodeInv /\ ReplayInv /\ AssertHeld

LEMMA TokensInvStarts ==
    ASSUME TokensInit, \A w \in Workers : tx[w].op = "none"
    PROVE  TokensInv
  <1>1. family = <<>> /\ refresh = <<>> /\ access = <<>> /\ restarts = 0
    BY DEF TokensInit
  <1>2. RowsTyped
    BY <1>1 DEF RowsTyped
  <1>3. TokensTyped
    BY <1>2, TokensOK DEF TokensTyped, TokensInit
  <1>4. TokensHeld /\ AssertHeld
    BY DEF TokensHeld, TokenHolds, AssertHeld
  <1>5. RotationInv
    BY <1>1 DEF RotationInv, RotationHeld, RotationHolds, RotationOps, RotationApart, RefreshLocks,
                Chain, FamilyRevokedWholeSerial, FamilyRevokedWhole
  <1>6. CodeInv
    BY <1>1 DEF CodeInv, CodeHolds, CodeApart, CodeOps, BoughtOnce
  <1>7. ReplayInv
    BY <1>1 DEF ReplayInv, TokensInit
  <1> QED BY <1>3, <1>4, <1>5, <1>6, <1>7 DEF TokensInv

-----------------------------------------------------------------------------
(* Tokens: the handlers.                                                   *)

\* A request is begun, or goes on.
LEMMA TokensAfterTurn ==
    ASSUME TokensInv, DatabaseInv, UNCHANGED <<db, actors, rows, code>>, TokensTyped', ReplayInv',
           NEW w \in Workers, NEW op \in TokenOps, NEW on, NEW by, NEW seen, NEW n,
           NEW open \in BOOLEAN, NEW r, r = Request(op, on, by, seen, n, open), Turns(w, r),
           open => tx[w].open \/ MayBegin,
           TokenHolds(r), RotationHolds(r, refresh), CodeHolds(r),
           op \in RefreshLocks => \A v \in Workers \ {w} : tx[v].op \in RefreshLocks => tx[v].on # on,
           op \in CodeOps => \A v \in Workers \ {w} : tx[v].op \in CodeOps => tx[v].on # on,
           op = "assert" => status[on] = "active"
    PROVE  TokensInv' /\ DatabaseInv' /\ Serves(TokenOps)
  <1> USE DEF TokensInv
  <1>1. r.op = op /\ r.on = on /\ op # "none"
    BY DEF Request, TokenOps
  <1>2. DatabaseInv' /\ Serves(TokenOps)
    BY <1>1, TurnKeepsDatabase, RequestServes
  <1>3. UNCHANGED <<status, family, refresh, access>>
    BY DEF actors, rows
  <1>4. \A v \in Workers : tx'[v] = IF v = w THEN r ELSE tx[v]
    BY DEF Turns
  <1>5. TokensHeld'
    BY <1>4 DEF TokensHeld, TokenHolds
  <1>6. AssertHeld'
    BY <1>1, <1>3, <1>4 DEF AssertHeld
  <1>7. RotationInv'
    BY <1>1, RotationAfterTurn DEF TokensTyped
  <1>8. CodeInv'
    BY <1>1, <1>3, CodeAfterTurn
  <1> QED BY <1>2, <1>5, <1>6, <1>7, <1>8

\* Requests end.
RequestsEnd == \A v \in Workers : tx'[v] = tx[v] \/ tx'[v] = NoRequest

LEMMA HeldAfterEnd ==
    ASSUME TokensInv, RequestsEnd, status' = status
    PROVE  /\ TokensHeld' /\ AssertHeld' /\ Serves(TokenOps)
           /\ \A v \in Workers : tx'[v].op \in RotationOps \cup CodeOps => tx'[v] = tx[v]
  BY NoRequestFields
     DEF TokensInv, TokensHeld, TokenHolds, AssertHeld, RotationOps, CodeOps, Serves, RequestsEnd

LEMMA TurnEnds ==
    ASSUME NEW w \in Workers, tx' = tx \/ Turns(w, NoRequest)
    PROVE  RequestsEnd
  BY DEF RequestsEnd, Turns

\* A write that concerns neither refresh tokens nor codes that are being exchanged.
LEMMA TokensAside ==
    ASSUME TokensInv, DatabaseInv, UNCHANGED <<db, status>>, RequestsEnd, TokensTyped', ReplayInv',
           DOMAIN refresh' = DOMAIN refresh,
           \A i \in DOMAIN refresh :
               /\ refresh'[i].family = refresh[i].family
               /\ refresh'[i].consumed = refresh[i].consumed /\ refresh'[i].revoked = refresh[i].revoked,
           \A k \in DOMAIN access' :
               \/ /\ k \in DOMAIN access /\ access'[k].family = access[k].family
                  /\ access[k].revoked => access'[k].revoked
               \/ access'[k].family \notin DOMAIN family,
           \A f \in DOMAIN family' : \/ f \in DOMAIN family /\ family'[f] = family[f]
                                     \/ ~Bought(f)',
           \A c \in Codes : code[c] \in {"fresh", "expired"} => code'[c] \in {"fresh", "expired"},
           \A c \in Codes : code[c] = "used" => code'[c] = "used"
    PROVE  TokensInv' /\ Serves(TokenOps)
  <1> USE DEF TokensInv
  <1>1. /\ TokensHeld' /\ AssertHeld' /\ Serves(TokenOps)
        /\ \A v \in Workers : tx'[v].op \in RotationOps => tx'[v] = tx[v]
        /\ \A v \in Workers : tx'[v].op \in CodeOps => tx'[v] = tx[v]
    BY HeldAfterEnd
  <1>2. RotationInv'
    BY <1>1, RotationUntouched DEF TokensTyped
  <1>3. CodeInv'
    BY <1>1, CodeKept
  <1> QED BY <1>1, <1>2, <1>3

\* A pair is issued, and the request that asked for it is over.
LEMMA TokensPaid ==
    ASSUME TokensInv, DatabaseInv, UNCHANGED <<db, actors, code, assertion, restarts>>,
           NEW w \in Workers, Turns(w, NoRequest), Alone(w),
           NEW via \in {"code", "assertion", "client"}, tx[w].on \in ActorIds \cup Codes,
           via = "code" => tx[w].op = "redeemed", IssuePair(tx[w].on, via)
    PROVE  TokensInv' /\ DatabaseInv' /\ Serves(TokenOps)
  <1> USE DEF TokensInv
  <1>1. RequestsEnd /\ status' = status
    BY TurnEnds DEF actors
  <1>2. /\ TokensHeld' /\ AssertHeld' /\ Serves(TokenOps)
        /\ \A v \in Workers : tx'[v].op \in RotationOps => tx'[v] = tx[v]
        /\ \A v \in Workers : tx'[v].op \in CodeOps => tx'[v] = tx[v]
    BY <1>1, HeldAfterEnd
  <1>a. PICK actor \in ActorIds \cup Codes : actor = tx[w].on
    OBVIOUS
  <1>b. IssuePair(actor, via) /\ via \in {"code", "assertion", "client", "mint"}
    BY <1>a DEF IssuePair
  <1>3. PICK f \in Nat :
              /\ RowsTyped' /\ IssuedRows(f) /\ family'[f] = [actor |-> actor, via |-> via]
              /\ \A i \in DOMAIN refresh : i \in DOMAIN refresh' /\ refresh'[i] = refresh[i]
              /\ \E n : /\ DOMAIN refresh' = DOMAIN refresh \cup {n} /\ n \notin DOMAIN refresh
                        /\ refresh'[n] = NewRefresh(f)
              /\ \A k \in DOMAIN access' : \/ k \in DOMAIN access /\ access'[k] = access[k]
                                           \/ access'[k].family = f
    BY ZenonT(60), <1>b, PairIssued DEF TokensTyped
  <1>4. PICK n : /\ DOMAIN refresh' = DOMAIN refresh \cup {n} /\ n \notin DOMAIN refresh
                 /\ refresh'[n] = NewRefresh(f)
    BY <1>3
  <1>5. Serial => \A v \in Workers : tx'[v].op \notin {"reuse", "revoke"}
    <2> SUFFICES ASSUME Serial, NEW v \in Workers
                 PROVE  tx'[v].op \notin {"reuse", "revoke"}
      OBVIOUS
    <2>1. CASE v = w
      BY <2>1, NoRequestFields DEF Turns
    <2>2. CASE v # w
      BY <2>2 DEF Turns, Alone, TokensHeld, TokenHolds
    <2> QED BY <2>1, <2>2
  <1>6. RotationInv'
    BY <1>2, <1>3, <1>4, <1>5, RotationIssued DEF TokensTyped, IssuedRows
  <1>7. CodeInv'
    <2>1. CASE via = "code"
      BY <1>a, <1>3, <2>1, CodePaid DEF TokensHeld, TokenHolds
    <2>2. CASE via # "code"
      <3>1. \A g \in DOMAIN family' : \/ g \in DOMAIN family /\ family'[g] = family[g]
                                      \/ ~Bought(g)'
        BY <1>3, <2>2 DEF IssuedRows, Bought
      <3> QED BY <1>2, <3>1, CodeKept
    <2> QED BY <2>1, <2>2
  <1>8. TokensTyped' /\ ReplayInv'
    BY <1>3 DEF TokensTyped, ReplayInv
  <1>9. DatabaseInv'
    BY EndKeepsDatabase
  <1> QED BY <1>2, <1>6, <1>7, <1>8, <1>9

LEMMA TokensSame ==
    ASSUME TokensInv, UNCHANGED tokens
    PROVE  /\ TokensTyped' /\ ReplayInv' /\ UNCHANGED <<rows, code>>
           /\ UNCHANGED <<family, refresh, access, code, assertion, restarts>>
  BY DEF TokensInv, TokensTyped, RowsTyped, ReplayInv, tokens, rows

LEMMA CodeBegins ==
    ASSUME TokensInv, DatabaseInv, db' = db, NEW w \in Workers, NEW c \in Codes, BeginExchange(w, c)
    PROVE  TokensInv' /\ DatabaseInv' /\ Serves(TokenOps)
  <1>1. /\ code[c] = "fresh" /\ ~LockedByOther(w, {"exchange"}, c)
        /\ Begin(w, "exchange", c, {}, {}) /\ UNCHANGED <<actors, tokens>>
    BY DEF BeginExchange
  <1>2. PICK r : r = Request("exchange", c, {}, {}, 0, TRUE)
    OBVIOUS
  <1>3. MayBegin /\ Turns(w, r)
    BY <1>1, <1>2, BeginTurns DEF DatabaseInv
  <1>4. r.op = "exchange" /\ r.on = c /\ r.open
    BY <1>2 DEF Request
  <1>5. TokenHolds(r) /\ RotationHolds(r, refresh) /\ CodeHolds(r)
    BY <1>1, <1>4 DEF TokenHolds, RotationHolds, RotationOps, CodeHolds
  <1>6. \A v \in Workers \ {w} : tx[v].op \in CodeOps => tx[v].on # c
    <2> SUFFICES ASSUME NEW v \in Workers \ {w}, tx[v].op \in CodeOps, tx[v].on = c
                 PROVE  FALSE
      OBVIOUS
    <2>1. tx[v].op = "exchange" /\ tx[v].open
      BY <1>1 DEF TokensInv, CodeInv, CodeHolds, CodeOps, TokensHeld, TokenHolds
    <2> QED BY <1>1, <2>1 DEF LockedByOther
  <1>7. "exchange" \in TokenOps /\ "exchange" \notin RefreshLocks
    BY DEF TokenOps, RefreshLocks
  <1>8. TokensTyped' /\ ReplayInv' /\ UNCHANGED <<rows, code>>
    BY <1>1, TokensSame
  <1> QED BY <1>1, <1>2, <1>3, <1>5, <1>6, <1>7, <1>8, TokensAfterTurn

LEMMA ConsumeKeeps ==
    ASSUME TokensInv, DatabaseInv, db' = db, NEW w \in Workers, ConsumeCode(w)
    PROVE  TokensInv' /\ DatabaseInv' /\ Serves(TokenOps)
  <1> USE DEF TokensInv
  <1> DEFINE c == tx[w].on
  <1>0. TxShape
    BY DEF DatabaseInv
  <1>1. /\ tx[w].op = "exchange" /\ code' = [code EXCEPT ![c] = "used"] /\ c \in Codes
        /\ UNCHANGED <<status, family, refresh, access, assertion, restarts>>
    BY DEF ConsumeCode, rows, actors, TokensHeld, TokenHolds
  <1>2. PICK r : r = Request("redeemed", c, tx[w].by, tx[w].seen, tx[w].n, FALSE)
    OBVIOUS
  <1>3. Turns(w, r)
    BY <1>0, <1>2, CloseTurns DEF ConsumeCode
  <1>4. r.op = "redeemed" /\ r.on = c
    BY <1>2 DEF Request
  <1>5. \A v \in Workers : tx'[v] = IF v = w THEN r ELSE tx[v]
    BY <1>3 DEF Turns
  <1>6. DatabaseInv' /\ Serves(TokenOps)
    BY <1>2, <1>3, TurnKeepsDatabase, RequestServes DEF TokenOps
  <1>7. CodeInv'
    BY <1>0, CodeConsumed
  <1>8. TokensTyped' /\ ReplayInv'
    BY <1>1 DEF TokensTyped, RowsTyped, ReplayInv
  <1>9. TokensHeld' /\ AssertHeld'
    BY <1>1, <1>4, <1>5 DEF TokensHeld, TokenHolds, AssertHeld
  <1>10. RotationInv'
    <2>1. \A v \in Workers : tx'[v].op \in RotationOps => tx'[v] = tx[v]
      BY <1>4, <1>5 DEF RotationOps
    <2> QED BY <1>1, <2>1, RotationUntouched DEF TokensTyped
  <1> QED BY <1>6, <1>7, <1>8, <1>9, <1>10

LEMMA CodeStepKeeps ==
    ASSUME TokensInv, DatabaseInv, db' = db, NEW w \in Workers, CodeStep(w)
    PROVE  TokensInv' /\ DatabaseInv' /\ Serves(TokenOps)
  <1>1. ASSUME NEW c \in Codes, IssueCode(w, c)
        PROVE  TokensInv' /\ DatabaseInv' /\ Serves(TokenOps)
    <2>1. /\ tx' = tx /\ code' = [code EXCEPT ![c] = "fresh"] /\ code[c] = "none"
          /\ UNCHANGED <<status, family, refresh, access, assertion, restarts>>
      BY <1>1 DEF IssueCode, actors, rows
    <2>2. TokensTyped' /\ ReplayInv'
      BY <2>1 DEF TokensInv, TokensTyped, RowsTyped, ReplayInv
    <2>3. RequestsEnd /\ DatabaseInv'
      BY <2>1, TurnEnds, StutterKeepsDatabase
    <2>4. \A d \in Codes : code[d] \in {"fresh", "expired", "used"} => code'[d] = code[d]
      BY <2>1 DEF TokensInv, TokensTyped
    <2> QED BY <2>1, <2>2, <2>3, <2>4, TokensAside
  <1>2. ASSUME NEW c \in Codes, BeginExchange(w, c)
        PROVE  TokensInv' /\ DatabaseInv' /\ Serves(TokenOps)
    BY <1>2, CodeBegins
  <1>3. CASE ConsumeCode(w)
    BY <1>3, ConsumeKeeps
  <1>4. CASE IssueForCode(w)
    <2>1. /\ tx[w].op = "redeemed" /\ MayBegin /\ Turns(w, NoRequest) /\ IssuePair(tx[w].on, "code")
          /\ UNCHANGED <<actors, code, assertion, restarts>>
      BY <1>4, ShortTurns DEF IssueForCode, DatabaseInv
    <2>2. tx[w].on \in ActorIds \cup Codes
      BY <2>1 DEF TokensInv, TokensHeld, TokenHolds
    <2> QED BY <2>1, <2>2, BeginnerAlone, TokensPaid
  <1> QED BY <1>1, <1>2, <1>3, <1>4 DEF CodeStep

LEMMA RotationBegins ==
    ASSUME TokensInv, DatabaseInv, db' = db, NEW w \in Workers,
           NEW i, BeginRefresh(w, i) \/ BeginRevoke(w, i)
    PROVE  TokensInv' /\ DatabaseInv' /\ Serves(TokenOps)
  <1>1. PICK op \in RotationOps :
              /\ Begin(w, op, i, {}, {}) /\ UNCHANGED <<actors, tokens>>
              /\ i \in DOMAIN refresh
              /\ op = "rotate" => ~refresh[i].consumed /\ ~refresh[i].revoked
              /\ op \in RefreshLocks => ~LockedByOther(w, RefreshLocks, i)
    <2>1. CASE BeginRefresh(w, i)
      BY <2>1 DEF BeginRefresh, RotationOps, RefreshLocks
    <2>2. CASE BeginRevoke(w, i)
      BY <2>2 DEF BeginRevoke, RotationOps, RefreshLocks
    <2> QED BY <2>1, <2>2
  <1>2. PICK r : r = Request(op, i, {}, {}, 0, TRUE)
    OBVIOUS
  <1>3. MayBegin /\ Turns(w, r)
    BY <1>1, <1>2, BeginTurns DEF DatabaseInv
  <1>4. r.op = op /\ r.on = i /\ r.open /\ r.seen = {}
    BY <1>2 DEF Request
  <1>5. TokenHolds(r) /\ RotationHolds(r, refresh) /\ CodeHolds(r)
    BY <1>1, <1>4 DEF TokenHolds, RotationHolds, RotationOps, CodeHolds
  <1>6. op \in RefreshLocks => \A v \in Workers \ {w} : tx[v].op \in RefreshLocks => tx[v].on # i
    BY <1>1 DEF LockedByOther, RefreshLocks, TokensInv, TokensHeld, TokenHolds
  <1>7. op \in TokenOps /\ op \notin CodeOps /\ op # "assert"
    BY <1>1 DEF TokenOps, RotationOps, CodeOps
  <1>8. TokensTyped' /\ ReplayInv' /\ UNCHANGED <<rows, code>>
    BY <1>1, TokensSame
  <1> QED BY <1>1, <1>2, <1>3, <1>5, <1>6, <1>7, <1>8, TokensAfterTurn

LEMMA RevokeStarts ==
    ASSUME TokensInv, DatabaseInv, db' = db, NEW w \in Workers, StartRevoke(w)
    PROVE  TokensInv' /\ DatabaseInv' /\ Serves(TokenOps)
  <1> DEFINE q == tx[w]
  <1>1. /\ q.op \in {"reuse", "revoke"} /\ tx' = [tx EXCEPT ![w].seen = DOMAIN refresh]
        /\ UNCHANGED <<actors, tokens>>
    BY DEF StartRevoke
  <1>2. PICK r : r = Request(q.op, q.on, q.by, DOMAIN refresh, q.n, q.open)
    OBVIOUS
  <1>3. Turns(w, r) /\ q.open \in BOOLEAN
    BY <1>1, <1>2, SeenTurns DEF DatabaseInv, TxShape
  <1>4. r.op = q.op /\ r.on = q.on /\ r.open = q.open /\ r.seen = DOMAIN refresh
    BY <1>2 DEF Request
  <1>5. TokenHolds(q) /\ RotationHolds(q, refresh)
    BY DEF TokensInv, TokensHeld, RotationInv, RotationHeld
  <1>6. TokenHolds(r) /\ RotationHolds(r, refresh) /\ CodeHolds(r)
    BY <1>1, <1>4, <1>5 DEF TokenHolds, RotationHolds, RotationOps, CodeHolds
  <1>7. q.op \in RefreshLocks => \A v \in Workers \ {w} : tx[v].op \in RefreshLocks => tx[v].on # q.on
    BY DEF TokensInv, RotationInv, RotationApart
  <1>8. q.op \in TokenOps /\ q.op \notin CodeOps /\ q.op # "assert"
    BY <1>1 DEF TokenOps, CodeOps
  <1>9. TokensTyped' /\ ReplayInv' /\ UNCHANGED <<rows, code>>
    BY <1>1, TokensSame
  <1>10. PICK op, on, by, n, open : op = q.op /\ on = q.on /\ by = q.by /\ n = q.n /\ open = q.open
    OBVIOUS
  <1>11. PICK seen : seen = DOMAIN refresh
    OBVIOUS
  <1>12. r = Request(op, on, by, seen, n, open)
    BY <1>2, <1>10, <1>11
  <1> QED BY <1>1, <1>3, <1>6, <1>7, <1>8, <1>9, <1>10, <1>12, TokensAfterTurn

\* A refresh or a revocation commits.
LEMMA RotationCommits ==
    ASSUME TokensInv, DatabaseInv, db' = db, NEW w \in Workers, Rotate(w) \/ FinishRevoke(w)
    PROVE  TokensInv' /\ DatabaseInv' /\ Serves(TokenOps)
  <1> USE DEF TokensInv
  <1>0. TxShape /\ OneWriter
    BY DEF DatabaseInv
  <1>1. /\ tx[w].op \in RotationOps /\ End(w) /\ UNCHANGED <<status, code, assertion, restarts>>
    BY DEF Rotate, FinishRevoke, RotationOps, actors
  <1>2. tx[w].on \in DOMAIN refresh
    BY <1>1 DEF RotationInv, RotationHeld, RotationHolds
  <1>3. Turns(w, NoRequest) /\ RequestsEnd
    BY <1>0, <1>1, EndTurns, TurnEnds
  <1>4. RowsTyped' /\ family' = family
    BY <1>2, RowsRotated, RowsRevoked DEF TokensTyped
  <1>5. TokensTyped' /\ ReplayInv'
    BY <1>1, <1>4 DEF TokensTyped, ReplayInv
  <1>6. /\ TokensHeld' /\ AssertHeld' /\ Serves(TokenOps)
        /\ \A v \in Workers : tx'[v].op \in CodeOps => tx'[v] = tx[v]
    BY <1>1, <1>3, HeldAfterEnd
  <1>7. RotationInv'
    BY <1>0, RotationRotated, RotationRevoked DEF TokensTyped
  <1>8. CodeInv'
    BY <1>1, <1>4, <1>6, CodeKept
  <1> QED BY <1>3, <1>5, <1>6, <1>7, <1>8, EndKeepsDatabase

\* A token expires, or an access token alone is revoked.
LEMMA RowWritten ==
    ASSUME TokensInv, DatabaseInv, db' = db,
           \/ \E w \in Workers, k \in DOMAIN access : RevokeAccess(w, k)
           \/ \E i \in DOMAIN refresh : RefreshExpires(i)
           \/ \E k \in DOMAIN access : AccessExpires(k)
    PROVE  TokensInv' /\ DatabaseInv' /\ Serves(TokenOps)
  <1> USE DEF TokensInv
  <1>1. UNCHANGED <<tx, status, family, code, assertion, restarts>>
    BY DEF RevokeAccess, RefreshExpires, AccessExpires, actors
  <1>2. RequestsEnd /\ DatabaseInv'
    BY <1>1, StutterKeepsDatabase DEF RequestsEnd
  <1>3. CASE \E i \in DOMAIN refresh : RefreshExpires(i)
    <2>1. PICK i \in DOMAIN refresh :
              refresh' = [refresh EXCEPT ![i].expired = TRUE] /\ access' = access
      BY <1>3 DEF RefreshExpires
    <2>2. PICK r : r = [refresh[i] EXCEPT !.expired = TRUE]
      OBVIOUS
    <2>3. refresh[i] \in RefreshRow
      BY DEF TokensTyped, RowsTyped
    <2>4. /\ r \in RefreshRow /\ r.family = refresh[i].family
          /\ r.consumed = refresh[i].consumed /\ r.revoked = refresh[i].revoked
      BY <2>2, <2>3 DEF RefreshRow
    <2>5. refresh' = [refresh EXCEPT ![i] = r]
      BY <2>1, <2>2
    <2>6. RowsTyped'
      BY <1>1, <2>1, <2>4, <2>5, RefreshRowWritten DEF TokensTyped
    <2>7. TokensTyped' /\ ReplayInv'
      BY <1>1, <2>6 DEF TokensTyped, ReplayInv
    <2>8. /\ DOMAIN refresh' = DOMAIN refresh
          /\ \A j \in DOMAIN refresh :
                /\ refresh'[j].family = refresh[j].family
                /\ refresh'[j].consumed = refresh[j].consumed /\ refresh'[j].revoked = refresh[j].revoked
      BY <2>4, <2>5
    <2> QED BY <1>1, <1>2, <2>1, <2>7, <2>8, TokensAside
  <1>4. CASE \/ \E w \in Workers, k \in DOMAIN access : RevokeAccess(w, k)
             \/ \E k \in DOMAIN access : AccessExpires(k)
    <2>1. PICK k \in DOMAIN access :
              /\ refresh' = refresh
              /\ \/ access' = [access EXCEPT ![k].revoked = TRUE]
                 \/ access' = [access EXCEPT ![k].expired = TRUE]
      BY <1>4 DEF RevokeAccess, AccessExpires
    <2>2. access[k] \in AccessRow
      BY DEF TokensTyped, RowsTyped
    <2>3. PICK r \in AccessRow : /\ access' = [access EXCEPT ![k] = r]
                                 /\ r.family = access[k].family /\ (access[k].revoked => r.revoked)
      <3>1. CASE access' = [access EXCEPT ![k].revoked = TRUE]
        <4>1. PICK q : q = [access[k] EXCEPT !.revoked = TRUE]
          OBVIOUS
        <4>2. q \in AccessRow /\ q.family = access[k].family /\ q.revoked
          BY <2>2, <4>1 DEF AccessRow
        <4>3. access' = [access EXCEPT ![k] = q]
          BY <3>1, <4>1
        <4> QED BY <4>2, <4>3
      <3>2. CASE access' = [access EXCEPT ![k].expired = TRUE]
        <4>1. PICK q : q = [access[k] EXCEPT !.expired = TRUE]
          OBVIOUS
        <4>2. q \in AccessRow /\ q.family = access[k].family /\ q.revoked = access[k].revoked
          BY <2>2, <4>1 DEF AccessRow
        <4>3. access' = [access EXCEPT ![k] = q]
          BY <3>2, <4>1
        <4> QED BY <4>2, <4>3
      <3> QED BY <2>1, <3>1, <3>2
    <2>4. RowsTyped'
      BY <1>1, <2>1, <2>3, AccessRowWritten DEF TokensTyped
    <2>5. TokensTyped' /\ ReplayInv'
      BY <1>1, <2>4 DEF TokensTyped, ReplayInv
    <2>6. \A j \in DOMAIN access' : /\ j \in DOMAIN access /\ access'[j].family = access[j].family
                                    /\ access[j].revoked => access'[j].revoked
      BY <2>3
    <2> QED BY <1>1, <1>2, <2>1, <2>5, <2>6, TokensAside
  <1> QED BY <1>3, <1>4

LEMMA RotationStepKeeps ==
    ASSUME TokensInv, DatabaseInv, db' = db, NEW w \in Workers, RotationStep(w)
    PROVE  TokensInv' /\ DatabaseInv' /\ Serves(TokenOps)
  <1>1. CASE \E i \in 1 .. MaxRefresh : BeginRefresh(w, i) \/ BeginRevoke(w, i)
    BY <1>1, RotationBegins
  <1>2. CASE Rotate(w) \/ FinishRevoke(w)
    BY <1>2, RotationCommits
  <1>3. CASE StartRevoke(w)
    BY <1>3, RevokeStarts
  <1>4. CASE \E k \in DOMAIN access : RevokeAccess(w, k)
    BY <1>4, RowWritten
  <1> QED BY <1>1, <1>2, <1>3, <1>4 DEF RotationStep

\* An assertion is exchanged: its jti is burned when its agent is found active.
LEMMA AssertionBegins ==
    ASSUME TokensInv, DatabaseInv, db' = db, NEW w \in Workers, NEW j \in Assertions, BeginAssert(w, j)
    PROVE  TokensInv' /\ DatabaseInv' /\ Serves(TokenOps)
  <1> USE DEF TokensInv
  <1> DEFINE a == IssuerOf[j]
  <1>1. /\ status[a] = "active" /\ assertion[j].life \in 1 .. MaxTtl /\ assertion[j].cached = 0
        /\ assertion' = [assertion EXCEPT ![j].cached = MaxTtl, ![j].used = assertion[j].used + 1]
        /\ Begin(w, "assert", a, {j}, {}) /\ UNCHANGED <<actors, rows, code, restarts>>
        /\ a \in Agents
    BY TokensOK DEF BeginAssert, Remembered
  <1>2. PICK r : r = Request("assert", a, {j}, {}, 0, TRUE)
    OBVIOUS
  <1>3. MayBegin /\ Turns(w, r)
    BY <1>1, <1>2, BeginTurns DEF DatabaseInv
  <1>4. r.op = "assert" /\ r.on = a /\ r.open
    BY <1>2 DEF Request
  <1>5. TokenHolds(r) /\ RotationHolds(r, refresh) /\ CodeHolds(r)
    BY <1>1, <1>4 DEF TokenHolds, RotationHolds, RotationOps, CodeHolds
  <1>6. "assert" \in TokenOps /\ "assert" \notin RefreshLocks /\ "assert" \notin CodeOps
    BY DEF TokenOps, RefreshLocks, CodeOps
  <1>7. assertion[j] \in [life : 0 .. MaxTtl + 1, cached : 0 .. MaxTtl, used : Nat] /\ restarts \in Nat
    BY TokensOK DEF TokensTyped
  <1>8. PICK e : e = [assertion[j] EXCEPT !.cached = MaxTtl, !.used = assertion[j].used + 1]
    OBVIOUS
  <1>9. /\ e \in [life : 0 .. MaxTtl + 1, cached : 0 .. MaxTtl, used : Nat]
        /\ e.life = assertion[j].life /\ e.cached = MaxTtl /\ e.used = assertion[j].used + 1
    <2>1. PICK e1 : e1 = [assertion[j] EXCEPT !.cached = MaxTtl]
      OBVIOUS
    <2>2. e = [e1 EXCEPT !.used = assertion[j].used + 1]
      BY <1>8, <2>1
    <2>3. /\ e1 \in [life : 0 .. MaxTtl + 1, cached : 0 .. MaxTtl, used : Nat]
          /\ e1.life = assertion[j].life /\ e1.cached = MaxTtl /\ e1.used = assertion[j].used
      BY <1>7, <2>1, TokensOK
    <2> QED BY <2>2, <2>3
  <1>10. assertion' = [assertion EXCEPT ![j] = e]
    BY <1>1, <1>8
  <1>11. UNCHANGED <<family, refresh, access>>
    BY <1>1 DEF rows
  <1>12. TokensTyped'
    BY <1>1, <1>9, <1>10, <1>11 DEF TokensTyped, RowsTyped
  <1>13. ReplayInv'
    <2> SUFFICES ASSUME NEW k \in Assertions
                 PROVE  /\ assertion'[k].used <= 1 + restarts
                        /\ assertion'[k].used > restarts => assertion'[k].life <= assertion'[k].cached
      BY <1>1 DEF ReplayInv
    <2>1. CASE k = j
      <3>1. assertion[j].used <= restarts
        BY <1>1, <1>7 DEF ReplayInv
      <3>2. assertion'[k] = e
        BY <1>10, <2>1 DEF TokensTyped
      <3> QED BY <1>1, <1>7, <1>9, <3>1, <3>2
    <2>2. CASE k # j
      BY <1>10, <2>2 DEF TokensTyped, ReplayInv
    <2> QED BY <2>1, <2>2
  <1> QED BY <1>1, <1>2, <1>3, <1>5, <1>6, <1>12, <1>13, TokensAfterTurn

LEMMA AssertionStepKeeps ==
    ASSUME TokensInv, DatabaseInv, OpsKnown, db' = db, NEW w \in Workers, AssertionStep(w)
    PROVE  TokensInv' /\ DatabaseInv' /\ Serves(TokenOps)
  <1>1. CASE IssueForAssertion(w)
    <2>1. /\ tx[w].op = "assert" /\ Alone(w) /\ Turns(w, NoRequest) /\ IssuePair(tx[w].on, "assertion")
          /\ UNCHANGED <<actors, code, assertion, restarts>>
      BY <1>1, EndTurns DEF IssueForAssertion, MayBegin, Alone, DatabaseInv, OpsKnown, ActorOps,
          TokenOps, UserOps
    <2>2. tx[w].on \in ActorIds \cup Codes
      BY <2>1 DEF TokensInv, TokensHeld, TokenHolds, ActorIds
    <2> QED BY <2>1, <2>2, TokensPaid
  <1>2. ASSUME NEW j \in Assertions, BeginAssert(w, j)
        PROVE  TokensInv' /\ DatabaseInv' /\ Serves(TokenOps)
    BY <1>2, AssertionBegins
  <1> QED BY <1>1, <1>2 DEF AssertionStep

\* Clients and tasks: what was checked in a session, and then issued.
LEMMA ClientStepKeeps ==
    ASSUME TokensInv, ActorsInv, DatabaseInv, db' = db, NEW w \in Workers, ClientStep(w)
    PROVE  TokensInv' /\ DatabaseInv' /\ Serves(TokenOps)
  <1> USE DEF TokensInv
  <1>1. ASSUME NEW op \in {"client", "mint"}, NEW on, NEW by, Look(w, op, on, by, 0),
               UNCHANGED <<actors, tokens>>,
               op = "client" => on \in ServiceAccounts,
               op = "mint" => on \in Agents /\ by \subseteq Scopes
        PROVE  TokensInv' /\ DatabaseInv' /\ Serves(TokenOps)
    <2>1. PICK r : r = Request(op, on, by, {}, 0, FALSE)
      OBVIOUS
    <2>2. Turns(w, r)
      BY <1>1, <2>1, LookTurns DEF DatabaseInv
    <2>3. r.op = op /\ r.on = on /\ r.by = by
      BY <2>1 DEF Request
    <2>4. TokenHolds(r) /\ RotationHolds(r, refresh) /\ CodeHolds(r)
      BY <1>1, <2>3 DEF TokenHolds, RotationHolds, RotationOps, CodeHolds
    <2>5. op \in TokenOps /\ op \notin RefreshLocks /\ op \notin CodeOps /\ op # "assert"
      BY DEF TokenOps, RefreshLocks, CodeOps
    <2>6. TokensTyped' /\ ReplayInv' /\ UNCHANGED <<rows, code>>
      BY <1>1, TokensSame
    <2> QED BY <1>1, <2>1, <2>2, <2>4, <2>5, <2>6, TokensAfterTurn
  <1>2. ASSUME NEW s \in ServiceAccounts, CheckClient(w, s)
        PROVE  TokensInv' /\ DatabaseInv' /\ Serves(TokenOps)
    <2>1. Look(w, "client", s, {}, 0) /\ UNCHANGED <<actors, tokens>>
      BY <1>2 DEF CheckClient
    <2> QED BY <1>1, <2>1
  <1>3. ASSUME NEW s \in ServiceAccounts, NEW a \in Agents, NEW S \in SUBSET Scopes, CheckMint(w, s, a, S)
        PROVE  TokensInv' /\ DatabaseInv' /\ Serves(TokenOps)
    <2>1. Look(w, "mint", a, S, 0) /\ UNCHANGED <<actors, tokens>>
      BY <1>3 DEF CheckMint
    <2> QED BY <1>1, <2>1
  <1>4. CASE IssueToClient(w)
    <2>1. /\ tx[w].op = "client" /\ MayBegin /\ Turns(w, NoRequest) /\ IssuePair(tx[w].on, "client")
          /\ UNCHANGED <<actors, code, assertion, restarts>>
      BY <1>4, ShortTurns DEF IssueToClient, DatabaseInv
    <2>2. tx[w].on \in ActorIds \cup Codes
      BY <2>1 DEF TokensHeld, TokenHolds, ActorIds
    <2> QED BY <2>1, <2>2, BeginnerAlone, TokensPaid
  <1>5. CASE IssueMinted(w)
    <2>1. /\ tx[w].op = "mint" /\ Turns(w, NoRequest) /\ IssueAccessOnly(tx[w].on, tx[w].by)
          /\ UNCHANGED <<status, code, assertion, restarts>>
      BY <1>5, ShortTurns DEF IssueMinted, DatabaseInv, actors
    <2>2. PICK actor \in ActorIds, S \in SUBSET Scopes : actor = tx[w].on /\ S = tx[w].by
      BY <2>1 DEF TokensHeld, TokenHolds, ActorIds
    <2>3. IssueAccessOnly(actor, S)
      BY <2>1, <2>2 DEF IssueAccessOnly
    <2>4. PICK f \in Nat :
              /\ RowsTyped' /\ IssuedRows(f) /\ family'[f] = [actor |-> actor, via |-> "mint"]
              /\ refresh' = refresh
              /\ \A k \in DOMAIN access' : \/ k \in DOMAIN access /\ access'[k] = access[k]
                                           \/ access'[k].family = f
      BY <2>3, MintIssued DEF TokensTyped
    <2>5. TokensTyped' /\ ReplayInv'
      BY <2>1, <2>4 DEF TokensTyped, ReplayInv
    <2>6. RequestsEnd /\ DatabaseInv'
      BY <2>1, TurnEnds, EndKeepsDatabase
    <2>7. /\ \A g \in DOMAIN family' : \/ g \in DOMAIN family /\ family'[g] = family[g]
                                       \/ ~Bought(g)'
          /\ f \notin DOMAIN family
      BY <2>4 DEF IssuedRows, Bought
    <2> QED BY <2>1, <2>4, <2>5, <2>6, <2>7, TokensAside
  <1> QED BY <1>2, <1>3, <1>4, <1>5 DEF ClientStep

LEMMA RestartKeepsDatabase ==
    ASSUME DatabaseInv, db' = db, tx' = [w \in Workers |-> NoRequest]
    PROVE  DatabaseInv' /\ RequestsEnd
  BY NoRequestFields DEF DatabaseInv, TxShape, OneWriter, RequestsEnd

\* Time, restarts and new assertions.
LEMMA AssertionsAge ==
    ASSUME TokensInv, DatabaseInv, db' = db, Tick \/ Restart \/ \E j \in Assertions : Sign(j)
    PROVE  TokensInv' /\ DatabaseInv' /\ Serves(TokenOps)
  <1> USE DEF TokensInv
  <1> DEFINE Aged == [life : 0 .. MaxTtl + 1, cached : 0 .. MaxTtl, used : Nat]
  <1>0. assertion \in [Assertions -> Aged] /\ restarts \in 0 .. MaxRestarts /\ MaxTtl \in Nat /\ MaxRestarts \in Nat
    BY TokensOK DEF TokensTyped
  <1>1. UNCHANGED <<status, family, refresh, access, code>>
    BY DEF Tick, Restart, Sign, actors, rows
  <1>2. CASE Tick
    <2>1. /\ UNCHANGED <<tx, restarts>>
          /\ assertion' = [j \in Assertions |->
                [life |-> IF assertion[j].life = 0 THEN 0 ELSE assertion[j].life - 1,
                 cached |-> IF assertion[j].cached = 0 THEN 0 ELSE assertion[j].cached - 1,
                 used |-> assertion[j].used]]
      BY <1>2 DEF Tick
    <2>2. ASSUME NEW j \in Assertions
          PROVE  /\ assertion'[j] \in Aged
                 /\ assertion'[j].used = assertion[j].used
                 /\ assertion[j].life <= assertion[j].cached => assertion'[j].life <= assertion'[j].cached
      <3>1. assertion[j] \in Aged
        BY <1>0
      <3>2. assertion'[j] =
                [life |-> IF assertion[j].life = 0 THEN 0 ELSE assertion[j].life - 1,
                 cached |-> IF assertion[j].cached = 0 THEN 0 ELSE assertion[j].cached - 1,
                 used |-> assertion[j].used]
        BY <2>1
      <3> QED BY <1>0, <3>1, <3>2
    <2>3. assertion' \in [Assertions -> Aged]
      BY <2>1, <2>2
    <2>4. TokensTyped'
      BY <1>1, <2>1, <2>3 DEF TokensTyped, RowsTyped
    <2>5. ReplayInv'
      BY <2>1, <2>2 DEF ReplayInv
    <2>6. RequestsEnd /\ DatabaseInv'
      BY <2>1, StutterKeepsDatabase DEF RequestsEnd
    <2> QED BY <1>1, <2>4, <2>5, <2>6, TokensAside
  <1>3. CASE Restart
    <2>1. /\ restarts' = restarts + 1 /\ restarts < MaxRestarts /\ tx' = [w \in Workers |-> NoRequest]
          /\ assertion' = [j \in Assertions |-> [assertion[j] EXCEPT !.cached = 0]]
      BY <1>3 DEF Restart
    <2>2. ASSUME NEW j \in Assertions
          PROVE  /\ assertion'[j] \in Aged /\ assertion'[j].used = assertion[j].used
                 /\ assertion[j].used \in Nat
      <3>1. assertion[j] \in Aged /\ assertion'[j] = [assertion[j] EXCEPT !.cached = 0]
        BY <1>0, <2>1
      <3> QED BY <1>0, <3>1
    <2>3. assertion' \in [Assertions -> Aged]
      BY <2>1, <2>2
    <2>4. TokensTyped'
      BY SMTT(60), <1>0, <1>1, <2>1, <2>3 DEF TokensTyped, RowsTyped
    <2>5. ReplayInv'
      BY <1>0, <2>1, <2>2 DEF ReplayInv
    <2>6. RequestsEnd /\ DatabaseInv'
      BY <2>1, RestartKeepsDatabase
    <2> QED BY <1>1, <2>4, <2>5, <2>6, TokensAside
  <1>4. ASSUME NEW j \in Assertions, Sign(j)
        PROVE  TokensInv' /\ DatabaseInv' /\ Serves(TokenOps)
    <2>1. PICK life \in 1 .. MaxTtl + 1 :
              /\ assertion' = [assertion EXCEPT ![j].life = life] /\ assertion[j].used = 0
              /\ UNCHANGED <<tx, restarts>>
      BY <1>4 DEF Sign
    <2>2. PICK e : e = [assertion[j] EXCEPT !.life = life]
      OBVIOUS
    <2>3. assertion[j] \in Aged
      BY <1>0
    <2>4. e \in Aged /\ e.used = 0
      BY <1>0, <2>1, <2>2, <2>3
    <2>5. assertion' = [assertion EXCEPT ![j] = e]
      BY <2>1, <2>2
    <2>6. TokensTyped'
      BY ZenonT(60), <1>0, <1>1, <2>1, <2>4, <2>5 DEF TokensTyped, RowsTyped
    <2>7. ReplayInv'
      <3> SUFFICES ASSUME NEW k \in Assertions
                   PROVE  /\ assertion'[k].used <= 1 + restarts
                          /\ assertion'[k].used > restarts => assertion'[k].life <= assertion'[k].cached
        BY <2>1 DEF ReplayInv
      <3>1. CASE k = j
        BY <1>0, <2>4, <2>5, <3>1
      <3>2. CASE k # j
        BY <1>0, <2>5, <3>2 DEF ReplayInv
      <3> QED BY <3>1, <3>2
    <2>8. RequestsEnd /\ DatabaseInv'
      BY <2>1, StutterKeepsDatabase DEF RequestsEnd
    <2> QED BY <1>1, <2>6, <2>7, <2>8, TokensAside
  <1> QED BY <1>2, <1>3, <1>4

LEMMA EnvironmentKeeps ==
    ASSUME TokensInv, DatabaseInv, db' = db, Environment
    PROVE  TokensInv' /\ DatabaseInv' /\ Serves(TokenOps)
  <1>1. ASSUME NEW c \in Codes, CodeExpires(c)
        PROVE  TokensInv' /\ DatabaseInv' /\ Serves(TokenOps)
    <2>1. /\ tx' = tx /\ code' = [code EXCEPT ![c] = "expired"] /\ code[c] = "fresh"
          /\ UNCHANGED <<status, family, refresh, access, assertion, restarts>>
      BY <1>1 DEF CodeExpires, actors, rows
    <2>2. TokensTyped' /\ ReplayInv'
      BY <2>1 DEF TokensInv, TokensTyped, RowsTyped, ReplayInv
    <2>3. RequestsEnd /\ DatabaseInv'
      BY <2>1, StutterKeepsDatabase DEF RequestsEnd
    <2>4. /\ \A d \in Codes : code[d] \in {"fresh", "expired"} => code'[d] \in {"fresh", "expired"}
          /\ \A d \in Codes : code[d] = "used" => code'[d] = "used"
      BY <2>1 DEF TokensInv, TokensTyped
    <2> QED BY <2>1, <2>2, <2>3, <2>4, TokensAside
  <1> QED BY <1>1, RowWritten, AssertionsAge DEF Environment, Lifetimes

LEMMA TokenStepKeeps ==
    ASSUME TokensInv, ActorsInv, DatabaseInv, OpsKnown, db' = db, NEW w \in Workers, TokenStep(w)
    PROVE  TokensInv' /\ DatabaseInv' /\ Serves(TokenOps)
  BY CodeStepKeeps, RotationStepKeeps, AssertionStepKeeps, ClientStepKeeps DEF TokenStep

\* Steps of the other parts leave the tokens alone.
LEMMA TokensInvKept ==
    ASSUME TokensInv, UNCHANGED <<db, tokens>>, ActiveKept,
           \A v \in Workers : tx'[v].op \in TokenOps => tx'[v] = tx[v]
    PROVE  TokensInv'
  <1> USE DEF TokensInv
  <1>1. TokensTyped' /\ ReplayInv' /\ UNCHANGED <<family, refresh, access, code>>
    BY TokensSame
  <1>2. TokensHeld'
    BY DEF TokensHeld, TokenHolds, TokenOps
  <1>3. AssertHeld'
    BY DEF AssertHeld, ActiveKept, TokensHeld, TokenHolds, TokenOps
  <1>4. RotationInv'
    <2>1. \A v \in Workers : tx'[v].op \in RotationOps => tx'[v] = tx[v]
      BY DEF RotationOps, TokenOps
    <2> QED BY <1>1, <2>1, RotationUntouched DEF TokensTyped
  <1>5. CodeInv'
    <2>1. \A v \in Workers : tx'[v].op \in CodeOps => tx'[v] = tx[v]
      BY DEF CodeOps, TokenOps
    <2> QED BY <1>1, <2>1, CodeKept
  <1> QED BY <1>1, <1>2, <1>3, <1>4, <1>5

-----------------------------------------------------------------------------
(* Together.                                                               *)

IdentityInv == DatabaseInv /\ OpsKnown /\ ActorsInv /\ TokensInv /\ UsersInv

\* The tokens' handlers leave the actors alone.
LEMMA TokenStepActors ==
    ASSUME NEW w \in Workers, TokenStep(w)
    PROVE  UNCHANGED actors
  BY DEF TokenStep, CodeStep, IssueCode, BeginExchange, ConsumeCode, IssueForCode, RotationStep,
         BeginRefresh, BeginRevoke, Rotate, StartRevoke, FinishRevoke, RevokeAccess, AssertionStep,
         IssueForAssertion, BeginAssert, ClientStep, CheckClient, CheckMint, IssueToClient, IssueMinted

LEMMA EnvironmentActors ==
    ASSUME Environment
    PROVE  UNCHANGED actors
  BY DEF Environment, Lifetimes, CodeExpires, RefreshExpires, AccessExpires, Tick, Restart, Sign

LEMMA PartsApart ==
    /\ ActorOps \cap UserOps = {} /\ TokenOps \cap UserOps = {} /\ ActorOps \cap TokenOps = {}
    /\ "none" \notin ActorOps \cup TokenOps \cup UserOps
  BY DEF ActorOps, TokenOps, UserOps

LEMMA ServesOthers ==
    ASSUME NEW ops, Serves(ops), NEW others, ops \cap others = {}, "none" \notin others
    PROVE  \A v \in Workers : tx'[v].op \in others => tx'[v] = tx[v]
  BY DEF Serves

LEMMA IdentityStarts ==
    ASSUME Init
    PROVE  IdentityInv
  <1>1. DatabaseInv
    BY DatabaseStarts DEF Init
  <1>2. \A w \in Workers : tx[w].op = "none"
    BY NoRequestFields DEF Init, DatabaseInit
  <1> QED BY <1>1, <1>2, ActorsInvStarts, TokensInvStarts, UsersInvStarts DEF Init, IdentityInv, OpsKnown

LEMMA ActorPartKeeps ==
    ASSUME IdentityInv, ActorPart
    PROVE  IdentityInv' /\ ArchivedStep /\ AdminStep
  <1> USE DEF IdentityInv
  <1>1. PICK w \in Workers : ActorStep(w)
    BY DEF ActorPart
  <1>2. UNCHANGED <<db, tokens, users>> /\ UNCHANGED <<db, tokens>> /\ UNCHANGED <<db, users>> /\ db' = db
    BY DEF ActorPart
  <1>3. ActorsInv' /\ DatabaseInv' /\ ArchivedStep /\ ActiveKept /\ Serves(ActorOps)
    BY <1>1, <1>2, ActorStepKeeps
  <1>4. TokensInv'
    BY <1>2, <1>3, ServesOthers, PartsApart, TokensInvKept
  <1>5. UsersInv' /\ AdminStep
    BY <1>2, <1>3, PartsApart, ServedElsewhere, UsersInvKept
  <1> QED BY <1>3, <1>4, <1>5, ServesKnown

LEMMA TokenPartKeeps ==
    ASSUME IdentityInv, TokenPart
    PROVE  IdentityInv' /\ ArchivedStep /\ AdminStep
  <1> USE DEF IdentityInv
  <1>1. UNCHANGED <<db, users>> /\ db' = db
    BY DEF TokenPart
  <1>2. TokensInv' /\ DatabaseInv' /\ Serves(TokenOps) /\ UNCHANGED actors
    BY <1>1, TokenStepKeeps, EnvironmentKeeps, TokenStepActors, EnvironmentActors DEF TokenPart
  <1>3. ActorsKept
    BY <1>1, <1>2, ServesOthers, PartsApart DEF ActorsKept
  <1>4. UsersInv' /\ AdminStep
    BY <1>1, <1>2, PartsApart, ServedElsewhere, UsersInvKept
  <1> QED BY <1>2, <1>3, <1>4, ActorsInvKept, ServesKnown

LEMMA UserPartKeeps ==
    ASSUME IdentityInv, UserPart
    PROVE  IdentityInv' /\ ArchivedStep /\ AdminStep
  <1> USE DEF IdentityInv
  <1>1. UNCHANGED <<db, actors, tokens>> /\ UNCHANGED actors /\ UNCHANGED <<db, tokens>> /\ db' = db
    BY DEF UserPart
  <1>2. UsersInv' /\ DatabaseInv' /\ AdminStep /\ Serves(UserOps)
    <2>1. CASE UsersClock
      <3>1. tx' = tx
        BY <2>1 DEF UsersClock, LockExpires, InviteExpires
      <3> QED BY <1>1, <2>1, <3>1, UsersClockKeeps DEF Serves
    <2>2. ASSUME NEW w \in Workers, UserStep(w)
          PROVE  UsersInv' /\ DatabaseInv' /\ AdminStep /\ Serves(UserOps)
      BY <1>1, <2>2, UserStepKeeps, UserStepServes DEF DatabaseInv
    <2> QED BY <2>1, <2>2 DEF UserPart
  <1>3. ActorsKept
    BY <1>1, <1>2, ServesOthers, PartsApart DEF ActorsKept
  <1>4. TokensInv'
    <2>1. ActiveKept
      BY <1>1 DEF ActiveKept, actors
    <2>2. \A v \in Workers : tx'[v].op \in TokenOps => tx'[v] = tx[v]
      BY <1>2, ServesOthers, PartsApart
    <2> QED BY <1>1, <2>1, <2>2, TokensInvKept
  <1> QED BY <1>2, <1>3, <1>4, ActorsInvKept, ServesKnown

LEMMA QuietKeeps ==
    ASSUME IdentityInv, UNCHANGED <<db, actors, tokens, users>>, Serves({}), DatabaseInv'
    PROVE  IdentityInv' /\ ArchivedStep /\ AdminStep
  <1> USE DEF IdentityInv
  <1>1. \A v \in Workers : tx'[v] = tx[v] \/ tx'[v].op = "none"
    BY DEF Serves
  <1>2. OpsKnown'
    BY <1>1 DEF OpsKnown
  <1>3. ActorsKept
    BY <1>1 DEF ActorsKept, ActorOps
  <1>4. UsersKept
    BY <1>1 DEF UsersKept, UserOps
  <1>5. ActiveKept
    BY DEF ActiveKept, actors
  <1>6. TokensInv'
    BY <1>1, <1>5, TokensInvKept DEF TokenOps
  <1> QED BY <1>2, <1>3, <1>4, <1>6, ActorsInvKept, UsersInvKept

\* Every step keeps the invariant, and is a step of the action properties.
LEMMA IdentityStep ==
    ASSUME IdentityInv, [Next]_vars
    PROVE  IdentityInv' /\ ArchivedStep /\ AdminStep
  <1>1. CASE Failure
    <2>1. PICK w \in Workers : End(w)
      BY <1>1 DEF Failure, Rollback
    <2>2. Turns(w, NoRequest) /\ db' = db
      BY <1>1, <2>1, EndTurns DEF IdentityInv, DatabaseInv, Failure
    <2>3. DatabaseInv' /\ Serves({})
      BY <2>2, EndKeepsDatabase, EndServes DEF IdentityInv
    <2> QED BY <1>1, <2>3, QuietKeeps DEF Failure
  <1>2. CASE UNCHANGED vars
    <2>1. UNCHANGED <<db, actors, tokens, users>> /\ db' = db /\ tx' = tx
      BY <1>2 DEF vars
    <2>2. DatabaseInv' /\ Serves({})
      BY <2>1, StutterKeepsDatabase DEF IdentityInv, Serves
    <2> QED BY <2>1, <2>2, QuietKeeps
  <1> QED BY <1>1, <1>2, ActorPartKeeps, TokenPartKeeps, UserPartKeeps DEF Next

-----------------------------------------------------------------------------
(* Theorems.                                                               *)

\* The parts of the identity service keep their invariants whatever the others do: the
\* strengthening from which the theorems below follow.
THEOREM Invariance == Spec => []IdentityInv
  BY IdentityStarts, IdentityStep, PTL DEF Spec

LEMMA AtMostOne ==
    ASSUME NEW S, \A x, y \in S : x = y
    PROVE  Cardinality(S) <= 1
  <1>1. CASE S = {}
    BY <1>1, FS_EmptySet
  <1>2. ASSUME NEW x \in S
        PROVE  Cardinality(S) <= 1
    <2>1. S = {x}
      OBVIOUS
    <2>2. Cardinality({x}) = 1
      BY FS_Singleton
    <2> QED BY <2>1, <2>2
  <1> QED BY <1>1, <1>2

\* Every variable of the three parts has its type, and on SQLite at most one transaction
\* is open, whoever begins it.
THEOREM TypeCorrect == Spec => []TypeOK
  <1>1. IdentityInv => TypeOK
    BY TokensTypedGives, UsersInvGives
       DEF IdentityInv, DatabaseInv, OneWriter, ActorsInv, TokensInv, TypeOK
  <1> QED BY <1>1, Invariance, PTL

\* A token family never has two refresh tokens that can be rotated, on either database.
THEOREM ChainOfTokens == Spec => []OneRotatable
  <1>1. ASSUME IdentityInv, NEW f \in DOMAIN family
        PROVE  Cardinality(Rotatable(f)) <= 1
    <2>1. \A i, j \in Rotatable(f) : i = j
      BY <1>1 DEF IdentityInv, TokensInv, RotationInv, Chain, Usable, Rotatable
    <2> QED BY <2>1, AtMostOne
  <1>2. IdentityInv => OneRotatable
    BY <1>1 DEF OneRotatable
  <1> QED BY <1>2, Invariance, PTL

\* Where transactions are serial, revocation and reuse detection leave nothing of a family.
THEOREM RevokedWhole == Spec => []FamilyRevokedWholeSerial
  <1>1. IdentityInv => FamilyRevokedWholeSerial
    BY DEF IdentityInv, TokensInv, RotationInv
  <1> QED BY <1>1, Invariance, PTL

\* An authorization code buys one token family at most.
THEOREM CodesBuyOnce == Spec => []CodeBuysOneFamily
  <1>1. ASSUME IdentityInv, NEW c \in Codes
        PROVE  Cardinality(BoughtWith(c)) <= 1
    <2>1. \A f, g \in BoughtWith(c) : f = g
      BY <1>1 DEF IdentityInv, TokensInv, CodeInv, BoughtOnce, Bought, BoughtWith
    <2> QED BY <2>1, AtMostOne
  <1>2. IdentityInv => CodeBuysOneFamily
    BY <1>1 DEF CodeBuysOneFamily
  <1> QED BY <1>2, Invariance, PTL

\* An assertion is exchanged at most once by each life of the process, and only for an
\* agent that is active when its pair is issued.
THEOREM AssertionsHonoured == Spec => AssertionsSound
  <1>1. IdentityInv => AssertionUsedOnce
    BY DEF IdentityInv, TokensInv, ReplayInv, AssertionUsedOnce
  <1>2. ASSUME IdentityInv, NEW w \in Workers, IssueForAssertion(w)
        PROVE  status[tx[w].on] = "active"
    BY <1>2 DEF IdentityInv, TokensInv, AssertHeld, OpsKnown, ActorOps, TokenOps, UserOps, IssueForAssertion
  <1>3. IdentityInv => [\A w \in Workers :
            IssueForAssertion(w) => status[tx[w].on] = "active"]_<<db, tx, actors, tokens>>
    BY <1>2
  <1> QED BY <1>1, <1>3, Invariance, PTL DEF AssertionsSound, AssertionOfActiveAgent

\* Where transactions are serial, an archived actor stays archived and without scopes, but for
\* those an access request decided after it grants.
THEOREM ArchivedStay == Spec => ArchivedForGood
  <1>1. IdentityInv /\ [Next]_vars =>
            [\A a \in ActorIds : Serial =>
              /\ status[a] = "archived" => /\ status'[a] = "archived"
                                           /\ \/ grants'[a] \subseteq grants[a]
                                              \/ \E w \in Workers, s \in Scopes : GrantByRequest(w, a, s)
              /\ status[a] # "archived" /\ status'[a] = "archived" => grants'[a] = {}]_<<db, tx, actors>>
    BY IdentityStep DEF ArchivedStep
  <1> QED BY <1>1, Invariance, PTL DEF Spec, ArchivedForGood

\* Where failures are counted, no more guesses pass than one for every other request.
THEOREM GuessesCounted == Spec => []GuessesBounded
  <1>1. IdentityInv => GuessesBounded
    BY UsersInvGives DEF IdentityInv
  <1> QED BY <1>1, Invariance, PTL

\* Where transactions are serial, an invitation sets one password, and a user has one
\* open invitation at most.
THEOREM InvitationsOnce == Spec => []InvitationsSingle
  <1>1. IdentityInv => InvitationsSingle
    BY UsersInvGives DEF IdentityInv
  <1> QED BY <1>1, Invariance, PTL

\* First-run setup makes one administrator, and org:admin never comes from nothing.
THEOREM AdministratorsDescend == Spec => AdministratorsAccounted
  <1>1. IdentityInv => OneFounder
    BY UsersInvGives DEF IdentityInv
  <1>2. IdentityInv /\ [Next]_vars =>
            [(\E p \in People : user[p].exists) /\ ~AdminPossible => ~AdminPossible']_<<db, tx, users>>
    BY IdentityStep DEF AdminStep
  <1> QED BY <1>1, <1>2, Invariance, PTL DEF Spec, AdministratorsAccounted, AdminFromAdmin
=============================================================================
