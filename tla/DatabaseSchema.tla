--------------------------- MODULE DatabaseSchema ---------------------------
(***************************************************************************)
(* The tables the migrations create, as far as they tie rows together:     *)
(* identity and reference columns, unique keys, and foreign keys with      *)
(* their ON DELETE.  Data columns, their checks, and the indexes are left  *)
(* out.                                                                    *)
(***************************************************************************)
\* A foreign key from column c to a row's id, in the scope that both share:
\* on[x] is the column that column x refers to.
ForeignKey(c, table, scope, onDelete) ==
  [on |-> [x \in {c} \cup scope |-> IF x = c THEN "id" ELSE x],
   table |-> table, onDelete |-> onDelete]

Tenant == {"tenant_id"}
Application == {"application_id", "tenant_id"}
Project == {"project_id", "tenant_id"}

References(c, table, onDelete) == ForeignKey(c, table, {}, onDelete)
InTenant(c, table, onDelete) == ForeignKey(c, table, Tenant, onDelete)
InApplication(c, table, onDelete) == ForeignKey(c, table, Application, onDelete)
InProject(c, table, onDelete) == ForeignKey(c, table, Project, onDelete)

\* columns of a table; the ones that may be null; unique keys; references.
Table(columns, optional, unique, references) ==
  [columns |-> columns \cup optional, optional |-> optional,
   unique |-> unique, references |-> references]

Id == {"id"}
Owned == {"id", "tenant_id"}
ProjectOwned == {"id", "project_id", "tenant_id"}

OfProject == InTenant("project_id", "projects", "restrict")

-----------------------------------------------------------------------------
(* The tenancy chain.                                                      *)
TenantsTable == Table({"id", "slug"}, {}, {Id, {"slug"}}, {})

UsersTable ==
  Table(Owned, {}, {Id, Owned},
        {References("tenant_id", "tenants", "restrict")})

ApplicationsTable ==
  Table(Owned, {}, {Id, Owned},
        {References("tenant_id", "tenants", "restrict")})

ProjectsTable ==
  Table(Owned \cup {"application_id"}, {},
        {Id, Owned, Owned \cup {"application_id"}},
        {InTenant("application_id", "applications", "restrict")})

-----------------------------------------------------------------------------
(* Access.                                                                 *)
RoleAssignmentsTable ==
  Table({"id", "tenant_id", "user_id", "application_id"}, {"project_id"},
        {Id, {"user_id", "application_id", "project_id"}},
        {InTenant("user_id", "users", "cascade"),
         InTenant("application_id", "applications", "cascade"),
         InApplication("project_id", "projects", "cascade")})

ApiKeysTable ==
  Table({"id", "tenant_id", "application_id"}, {"created_by_user_id"},
        {Id, {"id", "application_id", "tenant_id"}},
        {InTenant("application_id", "applications", "restrict"),
         InTenant("created_by_user_id", "users", "restrict")})

ApiKeyProjectsTable ==
  Table({"tenant_id", "application_id", "api_key_id", "project_id"}, {},
        {{"api_key_id", "project_id"}},
        {InApplication("api_key_id", "api_keys", "cascade"),
         InApplication("project_id", "projects", "restrict")})

-----------------------------------------------------------------------------
(* Folders, assets, and what belongs to an asset.                          *)
FoldersTable ==
  Table(ProjectOwned, {"parent_id"}, {Id, ProjectOwned},
        {OfProject, InProject("parent_id", "folders", "restrict")})

\* assets_current_version_fk: the version is one of this asset.
AssetsTable ==
  Table(ProjectOwned, {"folder_id", "current_version_id"}, {Id, ProjectOwned},
        {OfProject, InProject("folder_id", "folders", "restrict"),
         [on |-> [current_version_id |-> "id", id |-> "asset_id",
                  project_id |-> "project_id", tenant_id |-> "tenant_id"],
          table |-> "asset_versions", onDelete |-> "restrict"]})

AssetVersionsTable_Cascade ==
  Table(ProjectOwned \cup {"asset_id"}, {},
        {Id, ProjectOwned, ProjectOwned \cup {"asset_id"}},
        {InProject("asset_id", "assets", "cascade")})

AssetVersionsTable ==
  Table(ProjectOwned \cup {"asset_id"}, {},
        {Id, ProjectOwned, ProjectOwned \cup {"asset_id"}},
        {InProject("asset_id", "assets", "restrict")})

AssetMetadataTable ==
  Table(ProjectOwned \cup {"asset_id"}, {}, {Id},
        {InProject("asset_id", "assets", "cascade")})

ImageDerivativesTable ==
  Table(ProjectOwned \cup {"asset_version_id"}, {}, {Id},
        {InProject("asset_version_id", "asset_versions", "restrict")})

TagsTable == Table(ProjectOwned, {}, {Id, ProjectOwned}, {OfProject})

AssetTagsTable_ById ==
  Table({"tenant_id", "project_id", "asset_id", "tag_id"}, {},
        {{"asset_id", "tag_id"}},
        {InProject("asset_id", "assets", "cascade"),
         InTenant("tag_id", "tags", "cascade")})

AssetTagsTable ==
  Table({"tenant_id", "project_id", "asset_id", "tag_id"}, {},
        {{"asset_id", "tag_id"}},
        {InProject("asset_id", "assets", "cascade"),
         InProject("tag_id", "tags", "cascade")})

CollectionsTable == Table(ProjectOwned, {}, {Id, ProjectOwned}, {OfProject})

CollectionAssetsTable ==
  Table({"tenant_id", "project_id", "collection_id", "asset_id"}, {},
        {{"collection_id", "asset_id"}},
        {InProject("collection_id", "collections", "cascade"),
         InProject("asset_id", "assets", "restrict")})

-----------------------------------------------------------------------------
(* Webhooks, metering, the audit trail and idempotency keys.               *)
WebhooksTable ==
  Table(Owned \cup {"application_id"}, {}, {Id, Owned},
        {InTenant("application_id", "applications", "restrict")})

WebhookDeliveriesTable ==
  Table(Owned \cup {"webhook_id"}, {}, {Id},
        {InTenant("webhook_id", "webhooks", "cascade")})

\* One metric, one day.
UsageTable ==
  Table({"tenant_id", "application_id", "project_id"}, {}, {{"project_id"}},
        {InApplication("project_id", "projects", "restrict")})

QuotaOverridesTable ==
  Table({"tenant_id"}, {}, {{"tenant_id"}},
        {References("tenant_id", "tenants", "cascade")})

\* Only the tenant is a reference: an entry outlives what it describes.
AuditLogsTable ==
  Table(Owned, {}, {Id}, {References("tenant_id", "tenants", "restrict")})

UsageEventLedgerTable ==
  Table({"event_id", "tenant_id"}, {}, {{"event_id"}},
        {References("tenant_id", "tenants", "cascade")})

IdempotencyKeysTable ==
  Table({"tenant_id", "project_id", "key"}, {},
        {{"tenant_id", "project_id", "key"}},
        {InTenant("project_id", "projects", "cascade")})

-----------------------------------------------------------------------------
Schema ==
  [tenants |-> TenantsTable, users |-> UsersTable,
   applications |-> ApplicationsTable, projects |-> ProjectsTable,
   role_assignments |-> RoleAssignmentsTable, api_keys |-> ApiKeysTable,
   api_key_projects |-> ApiKeyProjectsTable, folders |-> FoldersTable,
   assets |-> AssetsTable, asset_versions |-> AssetVersionsTable,
   asset_metadata |-> AssetMetadataTable,
   image_derivatives |-> ImageDerivativesTable, tags |-> TagsTable,
   asset_tags |-> AssetTagsTable, collections |-> CollectionsTable,
   collection_assets |-> CollectionAssetsTable, webhooks |-> WebhooksTable,
   webhook_deliveries |-> WebhookDeliveriesTable, usage |-> UsageTable,
   quota_overrides |-> QuotaOverridesTable, audit_logs |-> AuditLogsTable,
   usage_event_ledger |-> UsageEventLedgerTable,
   idempotency_keys |-> IdempotencyKeysTable]

TableNames == DOMAIN Schema

\* TENANT_OWNED_TABLES: the tables scoped() opens, true for project-owned.
ProjectOwnedTables ==
  {"usage", "folders", "assets", "asset_versions", "asset_metadata",
   "image_derivatives", "tags", "asset_tags", "collections",
   "collection_assets", "idempotency_keys"}

TenantOwnedTables ==
  ProjectOwnedTables \cup
  {"users", "applications", "projects", "role_assignments", "api_keys",
   "api_key_projects", "webhooks", "webhook_deliveries", "quota_overrides",
   "audit_logs", "usage_event_ledger"}

\* What image_delivery_app may do; audit_logs is append-only for it.
Granted(operation, table) ==
  table = "audit_logs" => operation \in {"select", "insert"}
=============================================================================
