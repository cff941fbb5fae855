----------------------------- MODULE MCIdentity -----------------------------
\* Instances of Identity for TLC.
EXTENDS Identity, TLC

CONSTANTS w1, w2, agent, sa, read, kit, login, jti, ann, bob

Issuer == jti :> agent

\* What grants give: everything, the users alone, or nothing.
Grants == {{OrgAdmin}, {<<"users", "write">>}, {}}

\* A behaviour serves requests of one kind, so that the states of independent parts add
\* up instead of multiplying: the handlers of two kinds share no row they both decide on.
CONSTANT Kinds
VARIABLE kind

\* Invitations and logins start with ann created by the first administrator, bob; for
\* logins she has redeemed her invitation.
MCInit ==
    /\ kind \in Kinds
    /\ DatabaseInit /\ ActorsInit /\ TokensInit
    /\ CASE kind = "invites" ->
              /\ user = (ann :> NewUser @@ bob :> Founder)
              /\ invites = (ann :> <<[state |-> "open", uses |-> 0]>> @@ bob :> <<>>)
              /\ permitted = (ann :> {} @@ bob :> {OrgAdmin}) /\ founders = {bob}
         [] kind = "logins" ->
              /\ user = (ann :> Founder @@ bob :> Founder)
              /\ invites = (ann :> <<[state |-> "used", uses |-> 1]>> @@ bob :> <<>>)
              /\ permitted = (ann :> {} @@ bob :> {OrgAdmin}) /\ founders = {bob}
         [] OTHER -> UsersInit

\* Only ann's account is used there.
OnlyAnn == \A w \in Workers : tx'[w].on # bob /\ user'[bob] = user[bob]

TokenKinds(w) ==
    \/ kind = "codes" /\ (CodeStep(w) \/ RotationStep(w))
    \/ kind = "assertions" /\ AssertionStep(w)
    \/ kind = "clients" /\ ClientStep(w)

Served ==
    \/ kind = "actors" /\ ActorPart
    \/ kind = "clients" /\ ActorPart /\ status'[agent] = "absent"
    \/ kind = "assertions" /\ ActorPart /\ UNCHANGED bound /\ status'[sa] = "absent"
    \/ UNCHANGED <<db, users>> /\ \E w \in Workers : TokenKinds(w)
    \/ UNCHANGED <<db, users>> /\ kind = "codes" /\ Lifetimes
    \/ UNCHANGED <<db, users>> /\ kind = "assertions" /\ (Tick \/ Restart \/ \E j \in Assertions : Sign(j))
    \/ /\ UNCHANGED <<db, actors, tokens>>
       /\ \/ kind = "permissions" /\ \E w \in Workers : PermissionStep(w)
          \/ kind = "invites" /\ ((\E w \in Workers : InviteStep(w)) \/ UsersClock) /\ OnlyAnn
          \/ kind = "logins" /\ ((\E w \in Workers : LoginStep(w)) \/ UsersClock) /\ OnlyAnn

MCNext == UNCHANGED kind /\ (Served \/ Failure)
MCSpec == MCInit /\ [][MCNext]_<<vars, kind>>

Symmetry == Permutations({w1, w2})
=============================================================================
