------------------------------ MODULE Toolkits ------------------------------
(***************************************************************************)
(* A toolkit of the control database, as its administrators edit it and    *)
(* the broker reads it: its key, its agents, the credentials of one vendor *)
(* bound to it, and the permission rules of each binding.  Editors see a   *)
(* list of rules; the database has rows with a sequence, and the broker    *)
(* decides by the first row, by sequence, that applies to the request.     *)
(***************************************************************************)
EXTENDS Database, SequencesExt

CONSTANTS
    Credentials,  \* the credentials of the vendor, deleted for good
    Rules,        \* [effect, on, blank]: on is what the rule matches, blank no condition
    Requests,     \* what callers may ask of the vendor's API
    MaxRules,     \* bound: rules of one binding
    MaxSequence   \* bound: toolkit_permission_rules.sequence

ASSUME RulesOK == MaxRules \in Nat /\ MaxSequence \in Nat /\ MaxRules <= MaxSequence + 1

VARIABLES
    toolkit,     \* "none", "active", "inactive" or "deleted"
    key,         \* its key: "none", "live" or "revoked"
    agents,      \* the admin database binds an agent to it
    credentials, \* the credentials there are
    bindings,    \* those bound to the toolkit
    rows,        \* toolkit_permission_rules of each credential: [seq, rule]
    listed       \* history: the list of rules its editors made of each credential

toolkits == <<toolkit, key, agents, credentials, bindings, rows, listed>>

\* What a handler does that takes more than one step.
ToolkitOps == {"unbind_agents", "edit", "bind"}

ToolkitsInit ==
    /\ toolkit = "none" /\ key = "none" /\ agents = FALSE
    /\ credentials = Credentials /\ bindings = {}
    /\ rows = [c \in Credentials |-> {}]
    /\ listed = [c \in Credentials |-> <<>>]

Lists == BoundedSeq(Rules, MaxRules)
Exists == toolkit \in {"active", "inactive"}

\* create: the toolkit, its first key, and bindings without rules.
CreateToolkit(w, cs) ==
    /\ Short(w, "none") /\ toolkit = "none"
    /\ toolkit' = "active" /\ key' = "live" /\ bindings' = cs \cap credentials
    /\ UNCHANGED <<agents, credentials, rows, listed>>

\* update of active.
UpdateToolkit(w, state) ==
    /\ Short(w, "none") /\ Exists /\ toolkit' = state
    /\ UNCHANGED <<key, agents, credentials, bindings, rows, listed>>

\* delete: keys, bindings and rules go with the row; the agents' bindings, of the other
\* database, in a second transaction that a crash may prevent.
DeleteToolkit(w) ==
    /\ tx[w].op = "none" /\ MayBegin /\ Exists
    /\ Look(w, "unbind_agents", 0, {}, 0)
    /\ toolkit' = "deleted" /\ key' = "none" /\ bindings' = {}
    /\ rows' = [c \in Credentials |-> {}] /\ listed' = [c \in Credentials |-> <<>>]
    /\ UNCHANGED <<agents, credentials>>

UnbindAgents(w) ==
    /\ Short(w, "unbind_agents") /\ agents' = FALSE
    /\ UNCHANGED <<toolkit, key, credentials, bindings, rows, listed>>

CreateKey(w) ==
    /\ Short(w, "none") /\ Exists /\ key = "none"
    /\ key' = "live"
    /\ UNCHANGED <<toolkit, agents, credentials, bindings, rows, listed>>

\* A key is revoked, or made valid again.
UpdateKey(w, state) ==
    /\ Short(w, "none") /\ Exists /\ key # "none"
    /\ key' = state
    /\ UNCHANGED <<toolkit, agents, credentials, bindings, rows, listed>>

DeleteKey(w) ==
    /\ Short(w, "none") /\ Exists /\ key # "none"
    /\ key' = "none"
    /\ UNCHANGED <<toolkit, agents, credentials, bindings, rows, listed>>

\* The admin surface binds an agent to the toolkit it was told of.
BindAgent(w) ==
    /\ Short(w, "none") /\ toolkit # "none" /\ agents' = TRUE
    /\ UNCHANGED <<toolkit, key, credentials, bindings, rows, listed>>

\* unbind_credential leaves the rules of the binding in the database.
UnbindCredential(w, c) ==
    /\ Short(w, "none") /\ Exists /\ c \in bindings
    /\ bindings' = bindings \ {c}
    /\ UNCHANGED <<toolkit, key, agents, credentials, rows, listed>>

\* A credential is deleted: its bindings and rules go with the row.
RemoveCredential(w, c) ==
    /\ Short(w, "none") /\ c \in credentials
    /\ credentials' = credentials \ {c} /\ bindings' = bindings \ {c}
    /\ rows' = [rows EXCEPT ![c] = {}] /\ listed' = [listed EXCEPT ![c] = <<>>]
    /\ UNCHANGED <<toolkit, key, agents>>

\* An edit of the rules begins by what it deletes or reads.
BeginEdit(w, c) ==
    /\ Exists /\ c \in bindings
    /\ Begin(w, "edit", c, {}, rows[c])
    /\ UNCHANGED toolkits

BeginBind(w, c) ==
    /\ Exists /\ c \in credentials \ bindings
    /\ Begin(w, "bind", c, {}, rows[c])
    /\ UNCHANGED toolkits

\* The rows it saw are replaced by some, and rows of other transactions stay.
Write(w, kept, added) ==
    rows' = [rows EXCEPT ![tx[w].on] = (@ \ (tx[w].seen \ kept)) \cup added]

Numbered(l, first) == {[seq |-> first + i - 1, rule |-> l[i]] : i \in DOMAIN l}

\* bind_credential: with rules they replace those of an earlier binding, which otherwise
\* count again.  The pair is unique.
CommitBind(w, l) ==
    LET c == tx[w].on IN
    /\ tx[w].op = "bind" /\ Exists /\ c \in credentials \ bindings
    /\ End(w)
    /\ bindings' = bindings \cup {c}
    /\ IF l = <<>> THEN UNCHANGED <<rows, listed>>
       ELSE Write(w, {}, Numbered(l, 0)) /\ listed' = [listed EXCEPT ![c] = l]
    /\ UNCHANGED <<toolkit, key, agents, credentials>>

\* replace_user_rules, of a binding that may be gone by now.
CommitReplace(w, l) ==
    LET c == tx[w].on IN
    /\ tx[w].op = "edit" /\ Exists /\ c \in credentials
    /\ End(w)
    /\ Write(w, {}, Numbered(l, 0))
    /\ listed' = [listed EXCEPT ![c] = l]
    /\ UNCHANGED <<toolkit, key, agents, credentials, bindings>>

\* Wrong variant: a new rule is numbered by how many there are.
NextByCount(kept) == Cardinality(kept)

\* One more than the last sequence that is kept.
NextSequence(kept) == 1 + Max({x.seq : x \in kept} \cup {-1})

\* Rules leave by their place in the list the transaction read, which is by sequence.
Kept(seen, gone) == {x \in seen : Cardinality({y \in seen : y.seq < x.seq}) + 1 \notin gone}

\* The places of a list, in order, without some.
AreLeft(places, l, gone) ==
    /\ Range(places) = DOMAIN l \ gone
    /\ \A i, j \in DOMAIN places : i < j => places[i] < places[j]

\* patch_permissions: some rules leave, and others are added at the end.
CommitPatch(w, gone, l) ==
    LET c == tx[w].on
        kept == Kept(tx[w].seen, gone)
    IN
    /\ tx[w].op = "edit" /\ Exists /\ c \in credentials
    /\ NextSequence(kept) + Len(l) <= MaxSequence + 1
    /\ End(w)
    /\ Write(w, kept, Numbered(l, NextSequence(kept)))
    /\ \E places \in BoundedSeq(DOMAIN listed[c], MaxRules) :
          /\ AreLeft(places, listed[c], gone) /\ Len(places) + Len(l) <= MaxRules
          /\ listed' = [listed EXCEPT ![c] = [i \in DOMAIN places |-> listed[c][places[i]]] \o l]
    /\ UNCHANGED <<toolkit, key, agents, credentials, bindings>>

\* The toolkit, the binding or the rules are refused, or the database fails.
AbandonEdit(w) == tx[w].op \in ToolkitOps /\ End(w) /\ UNCHANGED toolkits

ToolkitStep(w) ==
    \/ \E cs \in SUBSET Credentials : CreateToolkit(w, cs)
    \/ \E state \in {"active", "inactive"} : UpdateToolkit(w, state)
    \/ \E state \in {"live", "revoked"} : UpdateKey(w, state)
    \/ CreateKey(w) \/ DeleteKey(w) \/ DeleteToolkit(w) \/ UnbindAgents(w) \/ BindAgent(w) \/ AbandonEdit(w)
    \/ \E c \in Credentials :
          UnbindCredential(w, c) \/ RemoveCredential(w, c) \/ BeginEdit(w, c) \/ BeginBind(w, c)
    \/ \E l \in Lists :
          \/ CommitBind(w, l) \/ CommitReplace(w, l)
          \/ \E gone \in SUBSET (1..MaxRules) : CommitPatch(w, gone, l)

-----------------------------------------------------------------------------
(* The broker.                                                             *)

\* A rule without conditions that allows is skipped; otherwise it applies if it matches.
Applies(rule, r) == ~(rule.blank /\ rule.effect = "allow") /\ r \in rule.on

\* _RULES_QUERY: the rows of every bound credential of the vendor, by sequence alone.
BrokerRows == UNION {rows[c] : c \in bindings}

\* The effects evaluate_rules may find first: rows of one sequence come in any order.
FirstEffects(r) ==
    LET matching == {x \in BrokerRows : Applies(x.rule, r)} IN
    {x.rule.effect : x \in {x \in matching : \A y \in matching : x.seq <= y.seq}}

\* A key that is not revoked acts as its active toolkit ...
KeyActs == key = "live" /\ toolkit = "active"

\* ... and an agent through one it is bound to, active or not, with a credential of the API.
AgentActs == agents /\ bindings # {}

Selects(caller) == IF caller = "key" THEN KeyActs ELSE AgentActs

Permitted(caller, r) == Selects(caller) /\ "allow" \in FirstEffects(r)
Denied(caller, r)    == ~Selects(caller) \/ FirstEffects(r) # {"allow"}

ToolkitsTypeOK ==
    /\ toolkit \in {"none", "active", "inactive", "deleted"}
    /\ key \in {"none", "live", "revoked"} /\ agents \in BOOLEAN
    /\ bindings \subseteq credentials /\ credentials \subseteq Credentials
    /\ \A c \in Credentials : rows[c] \subseteq [seq : 0..MaxSequence, rule : Rules] /\ listed[c] \in Lists

\* What the list of a binding means to its editor: the first rule that applies decides.
ListAllows(l, r) ==
    \E i \in DOMAIN l :
        /\ Applies(l[i], r) /\ l[i].effect = "allow"
        /\ \A j \in 1..i - 1 : ~Applies(l[j], r)

\* A toolkit with one credential of the vendor permits what the list its editors made says,
\* after any number of replacements, patches and re-bindings, and nothing is left to the
\* order in which the database returns rows; a deleted toolkit permits nothing
\* (ToolkitPermissionRepository against evaluate_rules).
DecisionAsListed ==
    Serial => \A caller \in {"key", "agent"}, r \in Requests :
        /\ toolkit = "deleted" => ~Permitted(caller, r)
        /\ \A c \in bindings : bindings = {c} /\ Selects(caller) =>
              /\ Permitted(caller, r) <=> ListAllows(listed[c], r)
              /\ Permitted(caller, r) <=> ~Denied(caller, r)
=============================================================================
