-------------------------- MODULE MigrationScripts --------------------------
(***************************************************************************)
(* The migrations of the three databases: what each does to the schema     *)
(* when it is applied and when it is taken back.  Of a table only what     *)
(* another migration looks at, changes or may trip over is kept: columns   *)
(* and indexes that come or go later, references, and restrictions that    *)
(* rows may break.                                                         *)
(***************************************************************************)
EXTENDS SequencesExt

Dialects == {"sqlite", "postgres"}

\* do, on which table, what goes and comes of its parts, which tables it refers to; in
\* which databases; outside of any transaction.
Statement(do, t, gone, come, refs) ==
    [do |-> do, on |-> t, gone |-> gone, come |-> come, refs |-> refs,
     only |-> Dialects, alone |-> FALSE]

Create(t, parts, refs) == Statement("create", t, {}, parts, refs)
Drop(t)                == Statement("drop", t, {}, {}, {})
AddPart(t, part)       == Statement("alter", t, {}, {part}, {})
DropPart(t, part)      == Statement("alter", t, {part}, {}, {})
Unlink(t, u)           == Statement("unlink", t, {}, {}, {u})
Rewrite(t)             == Statement("rewrite", t, {}, {}, {})  \* UPDATE

\* batch_alter_table: on SQLite the table is copied, and an index over an expression lost.
Copy(t, gone, come)    == Statement("copy", t, gone, come, {})
Link(t, u)             == Statement("copy", t, {}, {}, {u})
OverExpressions        == {"ix_users_email_lower"}

Only(dialect, s) == [s EXCEPT !.only = {dialect}]
InAutocommit(s)  == [s EXCEPT !.alone = TRUE]   \* in an autocommit_block

Each(Stmt(_), ts)  == [i \in DOMAIN ts |-> Stmt(ts[i])]
Adds(t, parts)     == [i \in DOMAIN parts |-> AddPart(t, parts[i])]
Removes(t, parts)  == [i \in DOMAIN parts |-> DropPart(t, parts[i])]
Drops(ts)          == Each(Drop, ts)

Migration(up, down) == [up |-> up, down |-> down]

\* A migration whose parts are taken back in the opposite order.
Adding(t, parts) == Migration(Adds(t, parts), Removes(t, Reverse(parts)))

\* Tables that are created together, [name, parts, refs], and dropped again.
Creating(ts) ==
    Migration([i \in DOMAIN ts |-> Create(ts[i].name, ts[i].parts, ts[i].refs)],
              Drops([i \in DOMAIN ts |-> ts[Len(ts) + 1 - i].name]))

Table(name, parts, refs) == [name |-> name, parts |-> parts, refs |-> refs]

\* Restrictions: an owner is recorded (created_by NOT NULL), and what else must be there
\* or fit.
Owned(name, refs) == Table(name, {"created_by!"}, refs)
NotNull   == {"created_by!", "owner_id!"}
Short128  == "error:128"
Short30   == "created_by:30"
Widths    == {Short128, Short30}
NoDefault == {"actor_id!", "actor_type!"}

-----------------------------------------------------------------------------
(* migrations/admin/versions.                                              *)

OldJobColumns ==
    {"name", "progress", "friendly_error", "start_time", "end_time", "input_metadata", "results"}

AddJobsTable == Creating(<<Table("jobs", {"created_by!", "type"} \cup OldJobColumns, {"jobs"})>>)

AddAuditEntriesTable == Creating(<<Owned("audit_entries", {})>>)

AlignSharedEnums ==
    Migration(<<Copy("jobs", {"type"}, {"kind"}), Rewrite("jobs"), Rewrite("jobs")>>,
              <<Rewrite("jobs"), Rewrite("jobs"), Copy("jobs", {"kind"}, {"type"})>>)

AddUsersSecretsInvites ==
    Creating(<<Table("users", {"created_by!", "ix_users_email_lower"}, {}),
               Owned("user_secrets", {"users"}), Owned("invite_tokens", {"users"})>>)

AddUserPermissionGrants == Creating(<<Owned("user_permission_grants", {"users"})>>)

AddExecutionRecords == Creating(<<Owned("execution_records", {})>>)

AddEvents == Creating(<<Owned("events", {})>>)

ReconcileJobsAddJobResults ==
    Migration(<<Copy("jobs", OldJobColumns, {Short128, "execution_id"}),
                Create("job_results", {"created_by!"}, {"jobs"})>>,
              <<Drop("job_results"), Copy("jobs", {"execution_id", Short128}, OldJobColumns)>>)

AddContentTypeToJobResults == Adding("job_results", <<"content_type">>)

AddPayloadWidenError ==
    Migration(<<Copy("jobs", {Short128}, {"payload"})>>, <<Copy("jobs", {"payload"}, {Short128})>>)

AddApiHostToExecutionRecords == Adding("execution_records", <<"api_host">>)

AddActorEntities ==
    Creating(<<Table("agents", {"created_by!", "owner_id!"}, {"users", "agents"}),
               Owned("service_accounts", {"users"}), Owned("actor_scope_grants", {})>>)

AddAgentToolkitBindings == Creating(<<Owned("agent_toolkit_bindings", {"agents"})>>)

AddTokenTables == Creating(<<Owned("access_tokens", {}), Owned("refresh_tokens", {})>>)

AddAgentDcrColumns ==
    Adding("agents", <<"jwks", "registration_access_token_hash", "rat_expires_at",
                       "ix_agents_registration_access_token_hash">>)

MakeAgentOwnerIdNullable ==
    Migration(<<Copy("agents", {"owner_id!"}, {})>>, <<Copy("agents", {}, {"owner_id!"})>>)

AddServiceAccountCredentials ==
    Creating(<<Owned("service_account_credentials", {"service_accounts"})>>)

AddExternalIdentitiesAndAuthCodes ==
    Creating(<<Owned("external_identities", {"users"}), Owned("authorization_codes", {})>>)

Loosen(t)  == Copy(t, {"created_by!"}, {})
Tighten(t) == Copy(t, {}, {"created_by!"})

AdminTables ==
    <<"user_secrets", "invite_tokens", "agents", "service_accounts", "service_account_credentials",
      "actor_scope_grants", "agent_toolkit_bindings", "user_permission_grants", "access_tokens",
      "refresh_tokens", "authorization_codes", "external_identities", "audit_entries", "events",
      "execution_records", "jobs", "job_results">>

EmailIndex == Only("sqlite", AddPart("users", "ix_users_email_lower"))

MakeCreatedByNullableAdmin ==
    Migration(<<Loosen("users"), EmailIndex>> \o Each(Loosen, AdminTables),
              <<Only("sqlite", DropPart("users", "ix_users_email_lower")), Tighten("users"),
                EmailIndex>>
                  \o Each(Tighten, AdminTables))

AddActorTypeToJobs == Adding("jobs", <<"actor_type">>)

AddIxAgentToolkitBindingsToolkitId ==
    Adding("agent_toolkit_bindings", <<"ix_agent_toolkit_bindings_toolkit_id">>)

AddActorColumnsToEvents == Adding("events", <<"actor_id", "actor_type", "ix_events_actor">>)

AddJobDurability == Adding("jobs", <<"visible_at", "attempts", "ix_jobs_visible_at">>)

AddActorColumnsToExecutionRecords ==
    Adding("execution_records", <<"actor_id!", "actor_type!", "ix_execution_records_actor">>)

AddAgentCredentials == Creating(<<Table("agent_credentials", {}, {"agents"})>>)

AddSetupSentinel == Creating(<<Table("setup_sentinels", {}, {})>>)

AddOriginToAuditEntries == Adding("audit_entries", <<"origin", "ix_audit_entries_origin">>)

AddOriginToExecutionRecords ==
    Adding("execution_records", <<"origin", "ix_execution_records_origin">>)

AddRepeatedFailureIndex ==
    LET ix == "ix_execution_records_repeated_failure_scan"
    IN Migration(<<InAutocommit(AddPart("execution_records", ix))>>,
                 <<InAutocommit(DropPart("execution_records", ix))>>)

AddProviderConfigs == Creating(<<Table("provider_configs", {}, {})>>)

AddInstanceIdentity == Creating(<<Table("instance_identities", {}, {})>>)

AddIsEphemeralToAccessTokens == Adding("access_tokens", <<"is_ephemeral">>)

AdminVersions ==
    <<AddJobsTable, AddAuditEntriesTable, AlignSharedEnums, AddUsersSecretsInvites,
      AddUserPermissionGrants, AddExecutionRecords, AddEvents, ReconcileJobsAddJobResults,
      AddContentTypeToJobResults, AddPayloadWidenError, AddApiHostToExecutionRecords,
      AddActorEntities, AddAgentToolkitBindings, AddTokenTables, AddAgentDcrColumns,
      MakeAgentOwnerIdNullable, AddServiceAccountCredentials, AddExternalIdentitiesAndAuthCodes,
      MakeCreatedByNullableAdmin, AddActorTypeToJobs, AddIxAgentToolkitBindingsToolkitId,
      AddActorColumnsToEvents, AddJobDurability, AddActorColumnsToExecutionRecords,
      AddAgentCredentials, AddSetupSentinel, AddOriginToAuditEntries, AddOriginToExecutionRecords,
      AddRepeatedFailureIndex, AddProviderConfigs, AddInstanceIdentity,
      AddIsEphemeralToAccessTokens>>

-----------------------------------------------------------------------------
(* migrations/control/versions.                                            *)

ClientCredentialTables ==
    <<Table("credentials", {"created_by!", Short30}, {}),
      Owned("customer_api_keys", {"credentials"}),
      Owned("oauth_client_credentials", {"credentials"})>>

SecretTables ==
    <<Owned("basic_credentials", {"credentials"}),
      Owned("token_value_credentials", {"credentials"}),
      Owned("oauth_tokens", {"credentials"})>>

AddCredentialsTables == Creating(ClientCredentialTables \o SecretTables)

AddKsuidDefaults ==
    LET pg(s) == Only("postgres", s)
        key   == <<"customer_api_keys", "oauth_tokens">>
    IN Migration([i \in {1, 2} |-> pg(AddPart(key[i], "id default"))],
                 [i \in {1, 2} |-> pg(DropPart(key[3 - i], "id default"))])

AddProviderColumnsToCredentials ==
    LET columns == <<"provider", "provider_account_ref">>
        ix      == "ix_credentials_provider"
    IN Adding("credentials", Append(columns, ix))

AddCredentialPreviews ==
    LET on == <<"customer_api_keys", "token_value_credentials">>
        preview == <<"key_preview", "token_preview">>
    IN Migration([i \in {1, 2} |-> AddPart(on[i], preview[i])],
                 [i \in {1, 2} |-> DropPart(on[3 - i], preview[3 - i])])

AddAuthorizeUrl == Adding("oauth_client_credentials", <<"authorize_url">>)

AddConnectStateNonces == Creating(<<Owned("connect_state_nonces", {"credentials"})>>)

AddLocationFieldName == Adding("customer_api_keys", <<"location", "field_name">>)

AddToolkitTables ==
    Creating(<<Owned("toolkits", {}), Owned("toolkit_keys", {"toolkits"}),
               Owned("toolkit_credential_bindings", {"toolkits", "credentials"}),
               Owned("toolkit_permission_rules", {"toolkits", "credentials"})>>)

ControlTables ==
    <<"basic_credentials", "token_value_credentials", "oauth_tokens", "oauth_client_credentials",
      "customer_api_keys", "connect_state_nonces", "toolkits", "toolkit_keys",
      "toolkit_credential_bindings", "toolkit_permission_rules">>

MakeCreatedByNullableControl ==
    LET credentials == {"created_by!", Short30}
    IN Migration(<<Copy("credentials", credentials, {})>> \o Each(Loosen, ControlTables),
                 Append(Each(Tighten, ControlTables), Copy("credentials", {}, credentials)))

AddAccessRequestTables ==
    LET dedup == "uq_access_request_items_pending_dedup"
    IN Migration(<<Create("access_requests", {"created_by!"}, {}),
                   Create("access_request_items", {}, {"access_requests"}),
                   Only("postgres", AddPart("access_request_items", dedup))>>,
                 <<Only("postgres", DropPart("access_request_items", dedup)),
                   Drop("access_request_items"), Drop("access_requests")>>)

AddServerVariables == Adding("credentials", <<"server_variables">>)

AddLookupHash == Adding("toolkit_keys", <<"lookup_hash", "ix_toolkit_keys_lookup_hash">>)

AddExpiryEventMarkers ==
    LET ix == "ix_oauth_tokens_expiry_scan"
        markers == <<"expiring_soon_event_at", "expired_event_at">>
    IN Migration(Append(Adds("oauth_tokens", markers), InAutocommit(AddPart("oauth_tokens", ix))),
                 <<InAutocommit(DropPart("oauth_tokens", ix))>>
                     \o Removes("oauth_tokens", Reverse(markers)))

ControlVersions ==
    <<AddCredentialsTables, AddKsuidDefaults, AddProviderColumnsToCredentials,
      AddCredentialPreviews, AddAuthorizeUrl, AddConnectStateNonces, AddLocationFieldName,
      AddToolkitTables, MakeCreatedByNullableControl, AddAccessRequestTables, AddServerVariables, AddLookupHash,
      AddExpiryEventMarkers>>

-----------------------------------------------------------------------------
(* migrations/registry/versions.                                           *)

OfRevisions == {"api_revisions"}

ApiTables ==
    <<Create("apis", {"created_by!"}, {}),
      Create("api_revisions", {"created_by!", "ix_one_published"}, {"apis"}),
      Link("apis", "api_revisions")>>

OperationTables ==
    <<Create("spec_files", {"created_by!"}, OfRevisions),
      Create("operations", {"created_by!"}, OfRevisions),
      Create("servers", {"created_by!"}, OfRevisions),
      Link("servers", "operations"),
      Create("server_variables", {"created_by!"}, {"servers"})>>

IndexAndSecurityTables ==
    <<Create("operation_url_indexes", {"created_by!"}, {"operations", "api_revisions"}),
      Create("security_schemes", {"created_by!"}, OfRevisions),
      Create("security_scheme_flows", {"created_by!"}, {"security_schemes"})>>

AddRegistryTables ==
    Migration(ApiTables \o OperationTables \o IndexAndSecurityTables,
              <<Only("postgres", Unlink("servers", "operations")),
                Only("postgres", Unlink("apis", "api_revisions"))>>
                  \o Drops(<<"security_scheme_flows", "security_schemes", "operation_url_indexes",
                             "server_variables", "servers", "operations", "spec_files",
                             "api_revisions", "apis">>))

AddSearchEmbeddings == Migration(<<>>, <<>>)

AddApisPagination == Adding("apis", <<"ix_apis_created_at_id">>)

AddRevisionPagination == Adding("api_revisions", <<"ix_api_revisions_api_id_created_at_id">>)

AddOperationsPagination == Adding("operations", <<"ix_operations_revision_id_created_at_id">>)

AddOverlaysTable == Creating(<<Table("overlays", {}, {"apis"})>>)

ChangeOverlaysIdToKsuid ==
    Migration(<<Drop("overlays"), Create("overlays", {"ksuid", "created_by!"}, {"apis"})>>,
              <<Drop("overlays"), Create("overlays", {}, {"apis"})>>)

AddNotesTable == Creating(<<Owned("notes", {"apis"})>>)

RegistryTables ==
    <<"apis", "api_revisions", "spec_files", "operations", "servers", "server_variables",
      "operation_url_indexes", "security_schemes", "security_scheme_flows", "overlays">>

MakeCreatedByNullableRegistry ==
    Migration(Each(Loosen, RegistryTables), Each(Tighten, RegistryTables))

AddCatalogSnapshotTable == Creating(<<Table("catalog_snapshots", {}, {})>>)

AddSourceUrlStateIndex == Adding("api_revisions", <<"ix_api_revisions_source_url_state">>)

\* Wrong variant: the old index stays away when this is taken back.
OriginForgettingIndex ==
    LET put(part)  == AddPart("api_revisions", part)
        away(part) == DropPart("api_revisions", part)
    IN Migration(<<put("origin"), away("ix_one_published"), put("ix_one_active")>>,
                 <<away("ix_one_active"), away("origin")>>)

AddImportedStateAndOrigin ==
    LET put(part)  == AddPart("api_revisions", part)
        away(part) == DropPart("api_revisions", part)
    IN Migration(<<put("origin"), away("ix_one_published"), put("ix_one_active")>>,
                 <<away("ix_one_active"), put("ix_one_published"), away("origin")>>)

AddLexicalSearchText ==
    LET fts      == Only("postgres", AddPart("operations", "ix_operations_search_text_fts"))
        triggers == <<"operations_ai", "operations_au", "operations_ad">>
        lite(s)  == Only("sqlite", s)
    IN Migration(<<AddPart("operations", "search_text"), fts,
                   lite(Create("operations_fts", {}, {}))>>
                     \o [i \in 1..3 |-> lite(AddPart("operations", triggers[i]))],
                 <<Only("postgres", DropPart("operations", "ix_operations_search_text_fts"))>>
                     \o [i \in 1..3 |-> lite(DropPart("operations", triggers[i]))]
                     \o <<lite(Drop("operations_fts")), DropPart("operations", "search_text")>>)

RegistryVersions ==
    <<AddRegistryTables, AddSearchEmbeddings, AddApisPagination, AddRevisionPagination,
      AddOperationsPagination, AddOverlaysTable, ChangeOverlaysIdToKsuid, AddNotesTable,
      MakeCreatedByNullableRegistry, AddCatalogSnapshotTable, AddSourceUrlStateIndex,
      AddImportedStateAndOrigin, AddLexicalSearchText>>
=============================================================================
