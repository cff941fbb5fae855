------------------------------- MODULE Users -------------------------------
(***************************************************************************)
(* The people of the platform: first-run setup, invitations, passwords,    *)
(* lockout after failed logins, permissions.  A handler that reads in one  *)
(* session and writes in another transaction acts on what it read.         *)
(***************************************************************************)
EXTENDS Database, Permissions, Sequences

CONSTANTS
    People,      \* email addresses, each of one user at most
    Grantable,   \* sets of permissions the requests of an instance give
    Threshold,   \* failed_login_lockout_threshold
    MaxInvites, MaxFailures  \* bounds

\* Requests are served, finitely many at a time.
ASSUME UsersOK ==
    /\ Threshold \in Nat \ {0} /\ Grantable \subseteq SUBSET Catalogue
    /\ MaxFailures \in Nat /\ IsFiniteSet(Workers) /\ Workers # {}

VARIABLES
    user,       \* each user's row and secret
    permitted,  \* user_permission_grants
    invites,    \* invite tokens of each user, oldest first
    founders    \* who was created by first-run setup; the sentinel exists with the first

users == <<user, permitted, invites, founders>>

Nobody == [exists |-> FALSE, active |-> FALSE, named |-> FALSE, redeemed |-> FALSE,
           password |-> "none", failed |-> 0, locked |-> "never"]

\* A new row: invited or provisioned, without password; and the first administrator's.
NewUser == [Nobody EXCEPT !.exists = TRUE, !.active = TRUE, !.named = TRUE]
Founder == [NewUser EXCEPT !.redeemed = TRUE, !.password = "own"]

UsersInit ==
    /\ user = [u \in People |-> Nobody]
    /\ permitted = [u \in People |-> {}]
    /\ invites = [u \in People |-> <<>>]
    /\ founders = {}

Free(w) == tx[w].op = "none"

-----------------------------------------------------------------------------
(* Setup and permissions.                                                  *)

\* bootstrap_admin: there is no user yet, deleted ones included ...
BeginSetup(w, u) ==
    /\ \A p \in People : ~user[p].exists
    /\ Begin(w, "setup", u, {}, {})
    /\ UNCHANGED users

\* ... and the sentinel's primary key lets one of the racing callers through.
FinishSetup(w) ==
    LET u == tx[w].on IN
    /\ tx[w].op = "setup"
    /\ founders = {} /\ ~user[u].exists
    /\ user' = [user EXCEPT ![u] = Founder]
    /\ permitted' = [permitted EXCEPT ![u] = {OrgAdmin}]
    /\ founders' = {u}
    /\ End(w)
    /\ UNCHANGED invites

\* _resolve_or_create_user: an identity provider vouches for somebody without account,
\* who gets one with no permission and no password.
ProvisionUser(w, u) ==
    /\ Free(w) /\ MayBegin /\ ~user[u].exists
    /\ user' = [user EXCEPT ![u] = NewUser]
    /\ UNCHANGED <<tx, permitted, invites, founders>>

\* The granter's own permissions are read before the transaction of the grant.
ValidateGrant(w, op, g, u, P) ==
    /\ user[g].exists /\ Admits({<<"users", "write">>}, permitted[g])
    /\ P = {} \/ MayGrant(permitted[g], P)
    /\ Look(w, op, u, P, 0)
    /\ UNCHANGED users

\* UserService.create: the user, its permissions and its first invitation.
CreateUser(w) ==
    LET u == tx[w].on IN
    /\ tx[w].op = "create" /\ ~user[u].exists
    /\ user' = [user EXCEPT ![u] = NewUser]
    /\ permitted' = [permitted EXCEPT ![u] = tx[w].by]
    /\ invites' = [invites EXCEPT ![u] = <<[state |-> "open", uses |-> 0]>>]
    /\ Short(w, "create")
    /\ UNCHANGED founders

\* set_permissions deletes the grants it sees and waits for nobody else's deletion of
\* the same rows ...
BeginAssign(w) ==
    LET u == tx[w].on IN
    /\ tx[w].op = "assign" /\ user[u].exists
    /\ \A v \in Workers \ {w} : tx[v].open /\ tx[v].op = "assigning" /\ tx[v].on = u =>
          tx[v].seen \cap permitted[u] = {}
    /\ Open(w, "assign", "assigning", permitted[u])
    /\ UNCHANGED users

\* ... and inserts the new ones; a row inserted by another meanwhile is a conflict.
FinishAssign(w) ==
    LET u == tx[w].on
        kept == permitted[u] \ tx[w].seen
    IN  /\ tx[w].op = "assigning"
        /\ kept \cap tx[w].by = {}
        /\ permitted' = [permitted EXCEPT ![u] = kept \cup tx[w].by]
        /\ End(w)
        /\ UNCHANGED <<user, invites, founders>>

-----------------------------------------------------------------------------
(* Invitations.                                                            *)

OpenInvites(u) == {k \in DOMAIN invites[u] : invites[u][k].state = "open"}

InviteExpires(u, k) ==
    /\ k \in OpenInvites(u)
    /\ invites' = [invites EXCEPT ![u][k].state = "expired"]
    /\ UNCHANGED <<tx, user, permitted, founders>>

\* reissue_invite refuses a user who has redeemed, in a session of its own ...
CheckReissue(w, u) ==
    /\ user[u].exists /\ ~user[u].redeemed
    /\ Look(w, "reissue", u, {}, 0)
    /\ UNCHANGED users

BeginReissue(w) ==
    /\ Open(w, "reissue", "reissuing", OpenInvites(tx[w].on))
    /\ UNCHANGED users

\* Wrong variant: the older invitations stay open.
FinishReissueKeeping(w) ==
    LET u == tx[w].on IN
    /\ tx[w].op = "reissuing" /\ Len(invites[u]) < MaxInvites
    /\ invites' = [invites EXCEPT ![u] = Append(@, [state |-> "open", uses |-> 0])]
    /\ End(w)
    /\ UNCHANGED <<user, permitted, founders>>

\* ... and then closes the open invitations it reads and adds a new one.
FinishReissue(w) ==
    LET u == tx[w].on
        closed == [k \in DOMAIN invites[u] |->
                     IF k \in tx[w].seen THEN [invites[u][k] EXCEPT !.state = "used"] ELSE invites[u][k]]
    IN  /\ tx[w].op = "reissuing" /\ Len(invites[u]) < MaxInvites
        /\ invites' = [invites EXCEPT ![u] = Append(closed, [state |-> "open", uses |-> 0])]
        /\ End(w)
        /\ UNCHANGED <<user, permitted, founders>>

\* InviteService.redeem: a plain read of an open invitation ...
BeginRedeem(w, u, k) ==
    /\ k \in OpenInvites(u)
    /\ Begin(w, "redeem", u, {}, {k})
    /\ UNCHANGED users

\* ... and the password; neither the user's status nor the invitation is read again.
FinishRedeem(w) ==
    LET u == tx[w].on IN
        /\ tx[w].op = "redeem"
        /\ \E k \in tx[w].seen :
              invites' = [invites EXCEPT ![u][k].state = "used", ![u][k].uses = @ + 1]
        /\ user' = [user EXCEPT ![u].password = "own", ![u].redeemed = TRUE]
        /\ End(w)
        /\ UNCHANGED <<permitted, founders>>

-----------------------------------------------------------------------------
(* Passwords and lockout.                                                  *)

\* login looks at the account in one session; a wrong password goes on with the
\* number of failures it saw there.
BeginLogin(w, u, right) ==
    /\ user[u].exists /\ user[u].named /\ user[u].active
    /\ user[u].password # "none" /\ user[u].locked # "now"
    /\ Look(w, IF right THEN "welcome" ELSE "wrong", u, {}, user[u].failed)
    /\ UNCHANGED users

\* Success resets the failures.
LoginSucceeds(w) ==
    /\ tx[w].op = "welcome"
    /\ user' = [user EXCEPT ![tx[w].on].failed = 0]
    /\ Short(w, "welcome")
    /\ UNCHANGED <<permitted, invites, founders>>

\* A failure adds to the counter as its transaction reads it ...
BeginFailure(w) ==
    /\ tx[w].op = "wrong"
    /\ Open(w, "wrong", "failing", {user[tx[w].on].failed})
    /\ UNCHANGED users

\* Wrong variant: one failure more is let through.
LoginFailsLate(w) ==
    LET u == tx[w].on IN
    /\ tx[w].op = "failing"
    /\ \E count \in tx[w].seen :
          /\ count < MaxFailures
          /\ user' = [user EXCEPT ![u].failed = count + 1,
                                  ![u].locked = IF tx[w].n >= Threshold THEN "now" ELSE @]
    /\ End(w)
    /\ UNCHANGED <<permitted, invites, founders>>

\* ... and locks the account if the number seen at first was one short of the threshold.
LoginFails(w) ==
    LET u == tx[w].on IN
    /\ tx[w].op = "failing"
    /\ \E count \in tx[w].seen :
          /\ count < MaxFailures
          /\ user' = [user EXCEPT ![u].failed = count + 1,
                                  ![u].locked = IF tx[w].n + 1 >= Threshold THEN "now" ELSE @]
    /\ End(w)
    /\ UNCHANGED <<permitted, invites, founders>>

LockExpires(u) ==
    /\ user[u].locked = "now"
    /\ user' = [user EXCEPT ![u].locked = "past"]
    /\ UNCHANGED <<tx, permitted, invites, founders>>

\* change_own_password, by a caller who knows the current one.
ChangePassword(w, u) ==
    /\ Free(w) /\ MayBegin /\ user[u].exists /\ user[u].password # "none"
    /\ user' = [user EXCEPT ![u].password = "own"]
    /\ UNCHANGED <<tx, permitted, invites, founders>>

\* reset_password, by an operator: a temporary password, and no lock.
ResetPassword(w, u) ==
    /\ Free(w) /\ MayBegin /\ user[u].exists /\ user[u].named
    /\ user' = [user EXCEPT ![u].password = "temporary",
                            ![u].failed = 0, ![u].locked = "never"]
    /\ UNCHANGED <<tx, permitted, invites, founders>>

\* disable and enable; enabling asks nothing of the user's state.
SetActive(w, u, active) ==
    /\ Free(w) /\ MayBegin /\ user[u].exists
    /\ user' = [user EXCEPT ![u].active = active]
    /\ UNCHANGED <<tx, permitted, invites, founders>>

\* Deleting a user takes its address away and leaves the row.
DeleteUser(w, u) ==
    /\ Free(w) /\ MayBegin /\ user[u].exists
    /\ user' = [user EXCEPT ![u].named = FALSE, ![u].active = FALSE]
    /\ UNCHANGED <<tx, permitted, invites, founders>>

-----------------------------------------------------------------------------
PermissionStep(w) ==
    \/ \E u \in People : BeginSetup(w, u) \/ ProvisionUser(w, u)
    \/ \E g, u \in People, P \in Grantable, op \in {"create", "assign"} : ValidateGrant(w, op, g, u, P)
    \/ FinishSetup(w) \/ CreateUser(w) \/ BeginAssign(w) \/ FinishAssign(w)

InviteStep(w) ==
    \/ \E u \in People : CheckReissue(w, u) \/ DeleteUser(w, u)
    \/ BeginReissue(w) \/ FinishReissue(w) \/ FinishRedeem(w)
    \/ \E u \in People, k \in 1 .. MaxInvites : BeginRedeem(w, u, k)

LoginStep(w) ==
    \/ \E u \in People, right \in BOOLEAN : BeginLogin(w, u, right)
    \/ LoginSucceeds(w) \/ BeginFailure(w) \/ LoginFails(w)
    \/ \E u \in People : ChangePassword(w, u) \/ ResetPassword(w, u)
    \/ \E u \in People, active \in BOOLEAN : SetActive(w, u, active)

UserStep(w) == PermissionStep(w) \/ InviteStep(w) \/ LoginStep(w)

UsersClock ==
    \E u \in People : LockExpires(u) \/ \E k \in DOMAIN invites[u] : InviteExpires(u, k)

UsersTypeOK ==
    /\ user \in [People -> [exists : BOOLEAN, active : BOOLEAN, named : BOOLEAN, redeemed : BOOLEAN,
                            password : {"none", "own", "temporary"}, failed : 0 .. MaxFailures,
                            locked : {"never", "now", "past"}]]
    /\ permitted \in [People -> SUBSET Catalogue]
    /\ invites \in [People -> Seq([state : {"open", "used", "expired"}, uses : Nat])]
    /\ founders \subseteq People

\* First-run setup makes one administrator, whichever callers race for it with
\* whatever addresses, on either database.
OneFounder == Cardinality(founders) <= 1

\* There is an administrator, or a request that may still make one: setup that found no
\* user, or a grant of org:admin that was validated.
AdminPossible ==
    \/ \E p \in People : OrgAdmin \in Effective(permitted[p])
    \/ \E w \in Workers :
          \/ tx[w].op = "setup"
          \/ tx[w].op \in {"create", "assign", "assigning"} /\ OrgAdmin \in tx[w].by

\* org:admin never comes from nothing: once there is a user, a platform without an
\* administrator, and without such a request, stays without one.
AdminFromAdmin ==
    [][(\E p \in People : user[p].exists) /\ ~AdminPossible => ~AdminPossible']_<<db, tx, users>>

\* Both: administrators descend from the one founder, by grants of administrators.
AdministratorsAccounted == []OneFounder /\ AdminFromAdmin

\* Guessing a password.  The lock is decided on a number read before the failure is
\* recorded, so more guesses than the threshold can get through, but no more than one
\* for every other request in flight (where the counter counts them: on SQLite).
GuessesBounded ==
    Serial => \A u \in People :
        user[u].locked = "never" => user[u].failed <= Threshold + Cardinality(Workers) - 2

\* Where transactions are serial (SQLite), an invitation sets a password at most once,
\* and a user has at most one open invitation.
InvitationsSingle ==
    Serial => \A u \in People :
        /\ Cardinality(OpenInvites(u)) <= 1
        /\ \A k \in DOMAIN invites[u] : invites[u][k].uses <= 1
=============================================================================
