----------------------------- MODULE Permissions -----------------------------
\* The permission catalogue of the platform and what a set of grants amounts to.
\* A permission is a pair of a resource and what may be done to it.
EXTENDS Naturals, FiniteSets

\* The resources whose write permission implies their read permission.
Managed == {"toolkits", "users", "jobs", "events", "credentials", "agents",
            "service-accounts", "config"}

OrgAdmin == <<"org", "admin">>

Ordinary ==
    (Managed \X {"read", "write"}) \cup ({"capabilities"} \X {"execute", "read"}) \cup
    ({"apis"} \X {"read", "write"}) \cup
    {<<"catalog", "import">>, <<"executions", "read">>, <<"audit", "read">>}

OwnerReads == {"owner"} \X {"credentials", "agents", "toolkits", "access-requests",
                            "service-accounts", "resources"}

Catalogue == Ordinary \cup OwnerReads \cup {OrgAdmin}

\* What a permission implies at once (IMPLICATION_MAP).
Implies(p) ==
    CASE p = OrgAdmin -> Ordinary
      [] p = <<"capabilities", "execute">> ->
            {<<"capabilities", "read">>, <<"apis", "read">>, <<"executions", "read">>}
      [] p = <<"apis", "write">> -> {<<"apis", "read">>, <<"catalog", "import">>}
      [] p = <<"catalog", "import">> -> {<<"apis", "read">>}
      [] p = <<"owner", "resources">> -> {"owner"} \X {"credentials", "agents", "toolkits"}
      [] OTHER -> {<<r, "read">> : r \in {q \in Managed : p = <<q, "write">>}}

\* One round of what a set of permissions implies.
Grown(S) == S \cup UNION {Implies(p) : p \in S}

\* compute_effective: the worklist adds what is implied until nothing is new.
Effective(granted) == Grown(Grown(granted))

\* Two rounds are enough: a third adds nothing to a single grant, and so to none.
ASSUME EffectiveIsClosed ==
    \A p \in Catalogue : \A q \in Effective({p}) : Implies(q) \subseteq Effective({p})

\* Wrong variant: a permission may be granted by whoever may write users.
MayGrantAnything(granter, permissions) ==
    permissions \subseteq Catalogue /\ <<"users", "write">> \in Effective(granter)

\* validate_grants: everything granted exists and is within what the granter has.
MayGrant(granter, permissions) ==
    permissions \subseteq Catalogue /\ permissions \subseteq Effective(granter)

\* get_current_identity: an endpoint asks for one of some permissions, or org:admin.
Admits(required, held) ==
    LET all == Effective(held) IN OrgAdmin \in all \/ all \cap required # {}
=============================================================================
