------------------------------- MODULE Actors -------------------------------
(***************************************************************************)
(* The lifecycle of agents and service accounts: registration, approval,   *)
(* scope grants, toolkit bindings, keys and secrets, archival.  A verb is  *)
(* checked by a plain read and writes the row by its key at the end of its *)
(* transaction; only the handlers of keys lock the actor's row.            *)
(***************************************************************************)
EXTENDS Database, FiniteSets

CONSTANTS
    Agents, ServiceAccounts,
    Scopes,         \* scopes an actor may be granted
    DefaultScopes,  \* DEFAULT_AGENT_SCOPES
    Toolkits

ASSUME ActorsOK == DefaultScopes \subseteq Scopes /\ Agents \cap ServiceAccounts = {}

ActorIds == Agents \cup ServiceAccounts

VARIABLES
    status,  \* of each actor: "absent" until it is created
    grants,  \* actor_scope_grants
    bound,   \* agent_toolkit_bindings
    keys     \* what the actor can authenticate with: "jwks", "apiKey", "secret"

actors == <<status, grants, bound, keys>>

Statuses == {"absent", "pending", "active", "rejected", "disabled", "archived"}
KeyKinds == {"jwks", "apiKey", "secret"}

ActorsInit ==
    /\ status = [a \in ActorIds |-> "absent"]
    /\ grants = [a \in ActorIds |-> {}]
    /\ bound = [a \in ActorIds |-> {}]
    /\ keys = [a \in ActorIds |-> {}]

-----------------------------------------------------------------------------
(* Registration.                                                           *)

\* AgentService.create: an agent an operator creates is active, with the scopes
\* asked for or the default ones.
CreateAgent(w, a, S) ==
    /\ a \in Agents /\ status[a] = "absent"
    /\ tx[w].op = "none" /\ MayBegin
    /\ status' = [status EXCEPT ![a] = "active"]
    /\ grants' = [grants EXCEPT ![a] = IF S = {} THEN DefaultScopes ELSE S]
    /\ UNCHANGED <<tx, bound, keys>>

\* ServiceAccountService.create: approved at once, with the scopes asked for.
CreateServiceAccount(w, a, S) ==
    /\ a \in ServiceAccounts /\ status[a] = "absent"
    /\ tx[w].op = "none" /\ MayBegin
    /\ status' = [status EXCEPT ![a] = "active"]
    /\ grants' = [grants EXCEPT ![a] = S]
    /\ UNCHANGED <<tx, bound, keys>>

\* RegistrationService.register: a pending agent with its public keys, which holds
\* the scopes it asked for until somebody decides.
Register(w, a, S) ==
    /\ a \in Agents /\ status[a] = "absent"
    /\ tx[w].op = "none" /\ MayBegin
    /\ status' = [status EXCEPT ![a] = "pending"]
    /\ grants' = [grants EXCEPT ![a] = S]
    /\ keys' = [keys EXCEPT ![a] = {"jwks"}]
    /\ UNCHANGED <<tx, bound>>

-----------------------------------------------------------------------------
(* Verbs.                                                                  *)

AllowedFrom == [approve |-> {"pending"}, deny |-> {"pending"}, disable |-> {"active"},
                enable |-> {"disabled"}, archive |-> Statuses \ {"absent", "archived"}]
Becomes == [approve |-> "active", deny |-> "rejected", disable |-> "disabled",
            enable |-> "active", archive |-> "archived"]
Verbs == DOMAIN AllowedFrom

\* _check_transition: a plain read.
CheckTransition(w, verb, a) ==
    /\ status[a] \in AllowedFrom[verb]
    /\ Begin(w, verb, a, {}, {})
    /\ UNCHANGED actors

\* Operations that lock the row of their actor.
RowLocks == {"setKey", "clearKey", "assert"}

\* Approving an agent nobody granted anything gives it the default scopes.
GrantsAfter(verb, a) ==
    CASE verb = "archive" -> {}
      [] verb = "approve" /\ a \in Agents /\ grants[a] = {} -> DefaultScopes
      [] OTHER -> grants[a]

\* The verb's writes and its commit; archiving deletes grants and bindings too.
CommitTransition(w, verb) ==
    LET a == tx[w].on IN
    /\ tx[w].op = verb
    /\ ~LockedByOther(w, RowLocks, a)
    /\ status' = [status EXCEPT ![a] = Becomes[verb]]
    /\ grants' = [grants EXCEPT ![a] = GrantsAfter(verb, a)]
    /\ bound' = [bound EXCEPT ![a] = IF verb = "archive" THEN {} ELSE @]
    /\ End(w)
    /\ UNCHANGED keys

-----------------------------------------------------------------------------
(* Scopes, toolkits, keys.                                                 *)

\* Wrong variant: the archived status is not looked at.
BeginReplaceAny(w, a, S) ==
    /\ status[a] # "absent"
    /\ Begin(w, "replace", a, S, grants[a])
    /\ UNCHANGED actors

\* replace_scopes: any actor that is not archived; the old grants are deleted first.
BeginReplace(w, a, S) ==
    /\ status[a] \notin {"absent", "archived"}
    /\ Begin(w, "replace", a, S, grants[a])
    /\ UNCHANGED actors

\* The new grants; one that somebody else has inserted meanwhile breaks the unique
\* index, and the transaction is rolled back instead.
CommitReplace(w) ==
    LET a == tx[w].on
        kept == grants[a] \ tx[w].seen
    IN  /\ tx[w].op = "replace"
        /\ kept \cap tx[w].by = {}
        /\ grants' = [grants EXCEPT ![a] = kept \cup tx[w].by]
        /\ End(w)
        /\ UNCHANGED <<status, bound, keys>>

\* bind_toolkit and unbind_toolkit: the agent must exist, whatever its status.
BindToolkit(w, a, t) ==
    /\ a \in Agents /\ status[a] # "absent" /\ t \notin bound[a]
    /\ tx[w].op = "none" /\ MayBegin
    /\ bound' = [bound EXCEPT ![a] = @ \cup {t}]
    /\ UNCHANGED <<tx, status, grants, keys>>

UnbindToolkit(w, a, t) ==
    /\ a \in Agents /\ status[a] # "absent" /\ t \in bound[a]
    /\ tx[w].op = "none" /\ MayBegin
    /\ bound' = [bound EXCEPT ![a] = @ \ {t}]
    /\ UNCHANGED <<tx, status, grants, keys>>

\* _ensure_active_and_owned locks the row of an active actor ...
BeginKey(w, op, a, kind) ==
    /\ status[a] = "active"
    /\ ~LockedByOther(w, RowLocks, a)
    /\ op = "clearKey" => a \in Agents /\ kind = "apiKey" /\ kind \in keys[a]
    /\ Begin(w, op, a, {kind}, {})
    /\ UNCHANGED actors

\* ... and the key is stored, or revoked, before the lock goes.
CommitKey(w) ==
    LET a == tx[w].on IN
    /\ tx[w].op \in {"setKey", "clearKey"}
    /\ keys' = [keys EXCEPT ![a] = IF tx[w].op = "setKey" THEN @ \cup tx[w].by
                                                           ELSE @ \ tx[w].by]
    /\ End(w)
    /\ UNCHANGED <<status, grants, bound>>

\* An approved access request grants a scope in a transaction of its own, whatever
\* the actor's status (grant_actor_scope, ON CONFLICT DO NOTHING).
GrantByRequest(w, a, s) ==
    /\ status[a] # "absent"
    /\ tx[w].op = "none" /\ MayBegin
    /\ grants' = [grants EXCEPT ![a] = @ \cup {s}]
    /\ UNCHANGED <<tx, status, bound, keys>>

\* ApiKeyResolver: a key speaks for its actor while that is active, with the grants
\* it holds at that moment.
KeyPermissions(a) == IF status[a] = "active" /\ "apiKey" \in keys[a] THEN grants[a] ELSE {}

-----------------------------------------------------------------------------
ActorStep(w) ==
    \/ \E a \in ActorIds, S \in SUBSET Scopes :
          \/ CreateAgent(w, a, S) \/ CreateServiceAccount(w, a, S) \/ Register(w, a, S)
          \/ BeginReplace(w, a, S)
    \/ \E a \in ActorIds, verb \in Verbs : CheckTransition(w, verb, a)
    \/ \E verb \in Verbs : CommitTransition(w, verb)
    \/ CommitReplace(w)
    \/ \E a \in ActorIds, t \in Toolkits : BindToolkit(w, a, t) \/ UnbindToolkit(w, a, t)
    \/ \E a \in ActorIds, op \in {"setKey", "clearKey"}, kind \in {"apiKey", "secret"} :
          BeginKey(w, op, a, kind)
    \/ CommitKey(w)
    \/ \E a \in ActorIds, s \in Scopes : GrantByRequest(w, a, s)

ActorsTypeOK ==
    /\ status \in [ActorIds -> Statuses]
    /\ grants \in [ActorIds -> SUBSET Scopes]
    /\ bound \in [ActorIds -> SUBSET Toolkits]
    /\ keys \in [ActorIds -> SUBSET KeyKinds]

\* Where transactions are serial (SQLite), an archived actor stays archived, and loses
\* its scopes for good: no request that was checked before gives one back, and only an
\* access request that somebody approves still adds one.
ArchivedForGood ==
    [][\A a \in ActorIds : Serial =>
          /\ status[a] = "archived" => /\ status'[a] = "archived"
                                       /\ \/ grants'[a] \subseteq grants[a]
                                          \/ \E w \in Workers, s \in Scopes : GrantByRequest(w, a, s)
          /\ status[a] # "archived" /\ status'[a] = "archived" => grants'[a] = {}
      ]_<<db, tx, actors>>
=============================================================================
