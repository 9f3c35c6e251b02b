---------------------------- MODULE TenancyProofs ----------------------------
(***************************************************************************)
(* Proofs about what tenants consist of: TenantDatabase, for every set of  *)
(* rows, ids and principals, any number of rows and statements, and every  *)
(* order of them; and Provisioning, for any number of commands, slugs and  *)
(* permissions, however commands race and wherever they stop.              *)
(***************************************************************************)
EXTENDS TenantDatabase, Provisioning, FiniteSetTheorems, TLAPS

\* What a statement may do follows from the foreign keys' columns and from
\* their ON DELETE, so the schema's facts come first.

-----------------------------------------------------------------------------
(***************************************************************************)
(* Facts about the schema                                                  *)
(***************************************************************************)
\* Each table by its name.
LEMMA SchemaTables ==
  /\ Schema["tenants"] = TenantsTable
  /\ Schema["users"] = UsersTable
  /\ Schema["applications"] = ApplicationsTable
  /\ Schema["projects"] = ProjectsTable
  /\ Schema["role_assignments"] = RoleAssignmentsTable
  /\ Schema["api_keys"] = ApiKeysTable
  /\ Schema["api_key_projects"] = ApiKeyProjectsTable
  /\ Schema["folders"] = FoldersTable
  /\ Schema["assets"] = AssetsTable
  /\ Schema["asset_versions"] = AssetVersionsTable
  /\ Schema["asset_metadata"] = AssetMetadataTable
  /\ Schema["image_derivatives"] = ImageDerivativesTable
  /\ Schema["tags"] = TagsTable
  /\ Schema["asset_tags"] = AssetTagsTable
  /\ Schema["collections"] = CollectionsTable
  /\ Schema["collection_assets"] = CollectionAssetsTable
  /\ Schema["webhooks"] = WebhooksTable
  /\ Schema["webhook_deliveries"] = WebhookDeliveriesTable
  /\ Schema["usage"] = UsageTable
  /\ Schema["quota_overrides"] = QuotaOverridesTable
  /\ Schema["audit_logs"] = AuditLogsTable
  /\ Schema["usage_event_ledger"] = UsageEventLedgerTable
  /\ Schema["idempotency_keys"] = IdempotencyKeysTable
BY DEF Schema

\* The tables.
LEMMA Names ==
  TableNames =
    {"tenants", "users", "applications", "projects", "role_assignments",
     "api_keys", "api_key_projects", "folders", "assets", "asset_versions",
     "asset_metadata", "image_derivatives", "tags", "asset_tags",
     "collections", "collection_assets", "webhooks", "webhook_deliveries",
     "usage", "quota_overrides", "audit_logs", "usage_event_ledger",
     "idempotency_keys"}
BY DEF TableNames, Schema

\* A foreign key refers to columns that are never null and never updated.
\* Nothing that cascades is the target of a cascade, and every cascade is
\* from a row to rows of its tenant and, below a project, of its project.
SoundKey(t, f) ==
  /\ f.table \in TableNames
  /\ f.onDelete \in {"cascade", "restrict"}
  /\ DOMAIN f.on \subseteq Schema[t].columns
  /\ \A c \in DOMAIN f.on :
       f.on[c] \in Schema[f.table].columns \ Schema[f.table].optional
  /\ f.onDelete = "cascade" =>
       /\ \A g \in Schema[f.table].references : g.onDelete = "restrict"
       /\ t \notin {"tenants", "asset_versions", "image_derivatives", "audit_logs"}
       /\ f.table # "tenants" =>
            "tenant_id" \in DOMAIN f.on /\ f.on["tenant_id"] = "tenant_id"
       /\ {t, f.table} \subseteq ProjectOwnedTables =>
            "project_id" \in DOMAIN f.on /\ f.on["project_id"] = "project_id"

\* So are all foreign keys of the migrations.
LEMMA KeysAreSound ==
  \A t \in TableNames : \A f \in Schema[t].references : SoundKey(t, f)
BY SchemaTables, Names
   DEF SoundKey, Table, ForeignKey, References, InTenant, InApplication,
       InProject, OfProject, Tenant, Application, Project, Id, Owned,
       ProjectOwned, TenantsTable, UsersTable, ApplicationsTable,
       ProjectsTable, RoleAssignmentsTable, ApiKeysTable, ApiKeyProjectsTable,
       FoldersTable, AssetsTable, AssetVersionsTable, AssetMetadataTable,
       ImageDerivativesTable, TagsTable, AssetTagsTable, CollectionsTable,
       CollectionAssetsTable, WebhooksTable, WebhookDeliveriesTable,
       UsageTable, QuotaOverridesTable, AuditLogsTable, UsageEventLedgerTable,
       IdempotencyKeysTable, ProjectOwnedTables

\* Table t refers from column c to a row of table, in scope.
KeyIn(t, c, table, scope) ==
  /\ c \notin scope
  /\ scope \subseteq Schema[t].columns \ Schema[t].optional
  /\ \E onDelete \in {"cascade", "restrict"} :
       ForeignKey(c, table, scope, onDelete) \in Schema[t].references

\* The keys that the chain from a row to its tenant follows.
LEMMA ChainKeys ==
  /\ \A t \in {"users", "applications", "quota_overrides", "audit_logs",
               "usage_event_ledger"} :
       KeyIn(t, "tenant_id", "tenants", {})
  /\ \A t \in {"projects", "role_assignments", "api_keys", "webhooks"} :
       KeyIn(t, "application_id", "applications", Tenant)
  /\ \A t \in {"role_assignments", "api_key_projects", "usage"} :
       KeyIn(t, "project_id", "projects", Application)
  /\ \A t \in {"folders", "assets", "tags", "collections",
               "idempotency_keys"} :
       KeyIn(t, "project_id", "projects", Tenant)
  /\ \A t \in {"asset_versions", "asset_metadata", "asset_tags",
               "collection_assets"} :
       KeyIn(t, "asset_id", "assets", Project)
  /\ KeyIn("image_derivatives", "asset_version_id", "asset_versions", Project)
  /\ KeyIn("webhook_deliveries", "webhook_id", "webhooks", Tenant)
BY SchemaTables
   DEF KeyIn, Table, References, InTenant, InApplication,
       InProject, OfProject, Tenant, Application, Project, Id, Owned,
       ProjectOwned, UsersTable, ApplicationsTable,
       ProjectsTable, RoleAssignmentsTable, ApiKeysTable, ApiKeyProjectsTable,
       FoldersTable, AssetsTable, AssetVersionsTable, AssetMetadataTable,
       ImageDerivativesTable, TagsTable, AssetTagsTable, CollectionsTable,
       CollectionAssetsTable, WebhooksTable, WebhookDeliveriesTable,
       UsageTable, QuotaOverridesTable, AuditLogsTable, UsageEventLedgerTable,
       IdempotencyKeysTable

\* A column outside the scope refers in all the scope that both rows have.
WholeKey(t, c) ==
  \E scope \in {Tenant, Application, Project} :
    /\ KeyIn(t, c, TableOf[c], scope)
    /\ (ScopeOf \cap Schema[t].columns \cap Schema[TableOf[c]].columns) \ {c}
         \subseteq scope

\* So does each column but the scope's own and the current version.
LEMMA OtherKeys ==
  \A t \in TableNames : \A c \in Schema[t].columns \cap DOMAIN TableOf :
    c \in ScopeOf \/ c = "current_version_id" \/ WholeKey(t, c)
BY SchemaTables, Names
   DEF WholeKey, KeyIn, TableOf, ScopeOf, Table, References, InTenant, InApplication,
       InProject, OfProject, Tenant, Application, Project, Id, Owned,
       ProjectOwned, TenantsTable, UsersTable, ApplicationsTable,
       ProjectsTable, RoleAssignmentsTable, ApiKeysTable, ApiKeyProjectsTable,
       FoldersTable, AssetsTable, AssetVersionsTable, AssetMetadataTable,
       ImageDerivativesTable, TagsTable, AssetTagsTable, CollectionsTable,
       CollectionAssetsTable, WebhooksTable, WebhookDeliveriesTable,
       UsageTable, QuotaOverridesTable, AuditLogsTable, UsageEventLedgerTable,
       IdempotencyKeysTable

-----------------------------------------------------------------------------
(***************************************************************************)
(* From a row to its tenant                                                *)
(***************************************************************************)
\* p is what column c of r refers to in scope.
ParentOf(r, c, scope, p) == p["id"] = r[c] /\ \A s \in scope : r[s] = p[s]

\* A row whose reference is not null has the row it refers to, in its scope.
LEMMA Parent ==
  ASSUME NEW rows, NEW t, NEW c, NEW table, NEW scope, KeyIn(t, c, table, scope),
         NEW r, Fits(t, r, rows), r[c] # Null
  PROVE  \E p \in rows[table] : ParentOf(r, c, scope, p)
<1>1. PICK onDelete :
        ForeignKey(c, table, scope, onDelete) \in Schema[t].references
  BY DEF KeyIn
<1> DEFINE f == ForeignKey(c, table, scope, onDelete)
<1>2. /\ f.table = table /\ DOMAIN f.on = {c} \cup scope /\ f.on[c] = "id"
      /\ \A s \in scope : f.on[s] = s
  BY DEF ForeignKey, KeyIn
<1>3. Satisfied(r, f, rows)
  BY <1>1 DEF Fits
<1>4. \A x \in DOMAIN f.on : r[x] # Null
  BY <1>2 DEF Fits, KeyIn
<1> HIDE DEF f
<1>5. PICK p \in rows[table] : \A x \in DOMAIN f.on : r[x] = p[f.on[x]]
  BY <1>2, <1>3, <1>4 DEF Satisfied, Refers
<1> QED BY <1>2, <1>5 DEF ParentOf

\* The tenant, application or project that r refers to, in r's scope.
TenantOf(r, p) == p["id"] = r["tenant_id"]

ApplicationOf(r, p) ==
  p["id"] = r["application_id"] /\ p["tenant_id"] = r["tenant_id"]

ProjectOf(r, p) ==
  /\ p["id"] = r["project_id"] /\ p["tenant_id"] = r["tenant_id"]
  /\ "application_id" \in DOMAIN r => p["application_id"] = r["application_id"]

\* Every table but tenants has a tenant, and what may be null.
LEMMA Columns ==
  /\ \A t \in TableNames \ {"tenants"} :
       "tenant_id" \in Schema[t].columns \ Schema[t].optional
  /\ \A t \in TableNames :
       /\ "application_id" \notin Schema[t].optional
       /\ "project_id" \in Schema[t].optional => t = "role_assignments"
       /\ "application_id" \in Schema[t].columns =>
            t \in {"projects", "role_assignments", "api_keys",
                   "api_key_projects", "webhooks", "usage"}
       /\ "project_id" \in Schema[t].columns =>
            t \in {"role_assignments", "api_key_projects", "usage", "folders",
                   "assets", "tags", "collections", "idempotency_keys",
                   "asset_versions", "asset_metadata", "asset_tags",
                   "collection_assets", "image_derivatives"}
       /\ t \in ProjectOwnedTables => "project_id" \in Schema[t].columns
  /\ Schema["tenants"].columns = {"id", "slug"}
  /\ Schema["applications"].columns = {"id", "tenant_id"}
  /\ Schema["projects"].columns = {"id", "tenant_id", "application_id"}
  /\ \A t \in {"folders", "assets", "tags", "collections", "idempotency_keys",
               "asset_versions", "asset_metadata", "asset_tags",
               "collection_assets", "image_derivatives"} :
       /\ {"project_id", "tenant_id"} \subseteq Schema[t].columns \ Schema[t].optional
       /\ "application_id" \notin Schema[t].columns
  /\ \A t \in {"asset_versions", "asset_metadata", "asset_tags",
               "collection_assets"} :
       "asset_id" \in Schema[t].columns \ Schema[t].optional
  /\ "asset_version_id" \in
       Schema["image_derivatives"].columns \ Schema["image_derivatives"].optional
  /\ "webhook_id" \in
       Schema["webhook_deliveries"].columns \ Schema["webhook_deliveries"].optional
  /\ \A t \in {"projects", "role_assignments", "api_keys", "webhooks",
               "api_key_projects", "usage"} :
       "application_id" \in Schema[t].columns \ Schema[t].optional
  /\ \A t \in {"api_key_projects", "usage"} :
       "project_id" \in Schema[t].columns \ Schema[t].optional
BY SchemaTables, Names
   DEF Table, Id, Owned, ProjectOwned, TenantsTable, UsersTable, ApplicationsTable,
       ProjectsTable, RoleAssignmentsTable, ApiKeysTable, ApiKeyProjectsTable,
       FoldersTable, AssetsTable, AssetVersionsTable, AssetMetadataTable,
       ImageDerivativesTable, TagsTable, AssetTagsTable, CollectionsTable,
       CollectionAssetsTable, WebhooksTable, WebhookDeliveriesTable,
       UsageTable, QuotaOverridesTable, AuditLogsTable, UsageEventLedgerTable,
       IdempotencyKeysTable, ProjectOwnedTables

\* assets_current_version_fk, the one key that ends at another column.
LEMMA CurrentVersion ==
  /\ \A t \in TableNames : "current_version_id" \in Schema[t].columns => t = "assets"
  /\ {"id", "project_id", "tenant_id"} \subseteq
       Schema["assets"].columns \ Schema["assets"].optional
  /\ [on |-> [current_version_id |-> "id", id |-> "asset_id",
              project_id |-> "project_id", tenant_id |-> "tenant_id"],
      table |-> "asset_versions", onDelete |-> "restrict"]
       \in Schema["assets"].references
BY SchemaTables, Names
   DEF Table, Id, Owned, ProjectOwned, TenantsTable, UsersTable, ApplicationsTable,
       ProjectsTable, RoleAssignmentsTable, ApiKeysTable, ApiKeyProjectsTable,
       FoldersTable, AssetsTable, AssetVersionsTable, AssetMetadataTable,
       ImageDerivativesTable, TagsTable, AssetTagsTable, CollectionsTable,
       CollectionAssetsTable, WebhooksTable, WebhookDeliveriesTable,
       UsageTable, QuotaOverridesTable, AuditLogsTable, UsageEventLedgerTable,
       IdempotencyKeysTable

\* role_assignments, api_keys, webhooks and projects name their application;
\* the others reach it through their project.
LEMMA HasProject ==
  ASSUME NEW rows, Consistent(rows), NEW t \in TableNames, NEW r, Fits(t, r, rows),
         "project_id" \in DOMAIN r, r["project_id"] # Null
  PROVE  \E p \in rows["projects"] : ProjectOf(r, p)
<1>1. DOMAIN r = Schema[t].columns
  BY DEF Fits
<1>2. ASSUME NEW u \in {"folders", "assets", "tags", "collections",
                        "idempotency_keys"},
             NEW q, Fits(u, q, rows)
      PROVE  \E p \in rows["projects"] : ProjectOf(q, p)
  <2>1. KeyIn(u, "project_id", "projects", Tenant)
    BY ChainKeys
  <2>2. q["project_id"] # Null /\ "application_id" \notin DOMAIN q
    BY <1>2, Columns DEF Fits
  <2>3. PICK p \in rows["projects"] : ParentOf(q, "project_id", Tenant, p)
    BY <1>2, <2>1, <2>2, Parent
  <2> QED BY <2>2, <2>3 DEF ParentOf, ProjectOf, Tenant
<1>3. ASSUME NEW u \in {"asset_versions", "asset_metadata", "asset_tags",
                        "collection_assets"},
             NEW q, Fits(u, q, rows)
      PROVE  \E p \in rows["projects"] : ProjectOf(q, p)
  <2>1. KeyIn(u, "asset_id", "assets", Project)
    BY ChainKeys
  <2>2. q["asset_id"] # Null /\ "application_id" \notin DOMAIN q
    BY <1>3, Columns DEF Fits
  <2>3. PICK a \in rows["assets"] : ParentOf(q, "asset_id", Project, a)
    BY <1>3, <2>1, <2>2, Parent
  <2>4. Fits("assets", a, rows)
    BY Names DEF Consistent
  <2>5. PICK p \in rows["projects"] : ProjectOf(a, p)
    BY <1>2, <2>4
  <2> QED BY <2>2, <2>3, <2>5 DEF ParentOf, ProjectOf, Project
<1>4. CASE t \in {"folders", "assets", "tags", "collections", "idempotency_keys"}
  BY <1>4, <1>2
<1>5. CASE t \in {"asset_versions", "asset_metadata", "asset_tags",
                  "collection_assets"}
  BY <1>5, <1>3
<1>6. CASE t = "image_derivatives"
  <2>1. KeyIn("image_derivatives", "asset_version_id", "asset_versions", Project)
    BY ChainKeys
  <2>2. r["asset_version_id"] # Null /\ "application_id" \notin DOMAIN r
    BY <1>6, Columns DEF Fits
  <2>3. PICK v \in rows["asset_versions"] : ParentOf(r, "asset_version_id", Project, v)
    BY <1>6, <2>1, <2>2, Parent
  <2>4. Fits("asset_versions", v, rows)
    BY Names DEF Consistent
  <2>5. PICK p \in rows["projects"] : ProjectOf(v, p)
    BY <1>3, <2>4
  <2> QED BY <2>2, <2>3, <2>5 DEF ParentOf, ProjectOf, Project
<1>7. CASE t \in {"role_assignments", "api_key_projects", "usage"}
  <2>1. KeyIn(t, "project_id", "projects", Application)
    BY <1>7, ChainKeys
  <2>2. PICK p \in rows["projects"] : ParentOf(r, "project_id", Application, p)
    BY <2>1, Parent
  <2> QED BY <2>2 DEF ParentOf, ProjectOf, Application
<1> QED BY <1>1, <1>4, <1>5, <1>6, <1>7, Columns

\* A row with an application refers to it, in its tenant.
LEMMA HasApplication ==
  ASSUME NEW rows, Consistent(rows), NEW t \in TableNames, NEW r, Fits(t, r, rows),
         "application_id" \in DOMAIN r
  PROVE  \E p \in rows["applications"] : ApplicationOf(r, p)
<1>1. DOMAIN r = Schema[t].columns
  BY DEF Fits
<1>2. ASSUME NEW u \in {"projects", "role_assignments", "api_keys", "webhooks"},
             NEW q, Fits(u, q, rows)
      PROVE  \E p \in rows["applications"] : ApplicationOf(q, p)
  <2>1. KeyIn(u, "application_id", "applications", Tenant)
    BY ChainKeys
  <2>2. q["application_id"] # Null
    BY <1>2, Columns DEF Fits
  <2>3. PICK p \in rows["applications"] : ParentOf(q, "application_id", Tenant, p)
    BY <1>2, <2>1, <2>2, Parent
  <2> QED BY <2>3 DEF ParentOf, ApplicationOf, Tenant
<1>3. CASE t \in {"projects", "role_assignments", "api_keys", "webhooks"}
  BY <1>3, <1>2
<1>4. CASE t \in {"api_key_projects", "usage"}
  <2>1. r["project_id"] # Null /\ "project_id" \in DOMAIN r
    BY <1>4, Columns DEF Fits
  <2>2. PICK p \in rows["projects"] : ProjectOf(r, p)
    BY <2>1, HasProject
  <2>3. Fits("projects", p, rows)
    BY Names DEF Consistent
  <2>4. PICK a \in rows["applications"] : ApplicationOf(p, a)
    BY <1>2, <2>3
  <2> QED BY <2>2, <2>4 DEF ProjectOf, ApplicationOf
<1> QED BY <1>1, <1>3, <1>4, Columns

\* A row of any table but tenants refers to its tenant.
LEMMA HasTenant ==
  ASSUME NEW rows, Consistent(rows), NEW t \in TableNames, NEW r, Fits(t, r, rows),
         t # "tenants"
  PROVE  \E p \in rows["tenants"] : TenantOf(r, p)
<1>1. ASSUME NEW u \in {"users", "applications", "quota_overrides", "audit_logs",
                        "usage_event_ledger"},
             NEW q, Fits(u, q, rows)
      PROVE  \E p \in rows["tenants"] : TenantOf(q, p)
  <2>1. KeyIn(u, "tenant_id", "tenants", {})
    BY ChainKeys
  <2>2. q["tenant_id"] # Null
    BY <1>1, Columns, Names DEF Fits
  <2> QED BY <1>1, <2>1, <2>2, Parent DEF ParentOf, TenantOf
<1>2. ASSUME NEW u \in TableNames, NEW q, Fits(u, q, rows),
             "application_id" \in DOMAIN q
      PROVE  \E p \in rows["tenants"] : TenantOf(q, p)
  <2>1. PICK a \in rows["applications"] : ApplicationOf(q, a)
    BY <1>2, HasApplication
  <2>2. Fits("applications", a, rows)
    BY Names DEF Consistent
  <2>3. PICK p \in rows["tenants"] : TenantOf(a, p)
    BY <1>1, <2>2
  <2> QED BY <2>1, <2>3 DEF ApplicationOf, TenantOf
<1>3. CASE t \in {"users", "applications", "quota_overrides", "audit_logs",
                  "usage_event_ledger"}
  BY <1>3, <1>1
<1>4. CASE t \in {"projects", "role_assignments", "api_keys", "webhooks",
                  "api_key_projects", "usage"}
  BY <1>4, <1>2, Columns DEF Fits
<1>5. CASE t \in {"folders", "assets", "tags", "collections", "idempotency_keys",
                  "asset_versions", "asset_metadata", "asset_tags",
                  "collection_assets", "image_derivatives"}
  <2>1. r["project_id"] # Null /\ "project_id" \in DOMAIN r
    BY <1>5, Columns DEF Fits
  <2>2. PICK q \in rows["projects"] : ProjectOf(r, q)
    BY <2>1, HasProject
  <2>3. Fits("projects", q, rows)
    BY Names DEF Consistent
  <2>4. "application_id" \in DOMAIN q
    BY <2>3, Columns DEF Fits
  <2>5. PICK p \in rows["tenants"] : TenantOf(q, p)
    BY <1>2, <2>3, <2>4, Names
  <2> QED BY <2>2, <2>5 DEF ProjectOf, TenantOf
<1>6. CASE t = "webhook_deliveries"
  <2>1. KeyIn("webhook_deliveries", "webhook_id", "webhooks", Tenant)
    BY ChainKeys
  <2>2. r["webhook_id"] # Null
    BY <1>6, Columns DEF Fits
  <2>3. PICK w \in rows["webhooks"] : ParentOf(r, "webhook_id", Tenant, w)
    BY <1>6, <2>1, <2>2, Parent
  <2>4. Fits("webhooks", w, rows)
    BY Names DEF Consistent
  <2>5. "application_id" \in DOMAIN w
    BY <2>4, Columns DEF Fits
  <2>6. PICK p \in rows["tenants"] : TenantOf(w, p)
    BY <1>2, <2>4, <2>5, Names
  <2> QED BY <2>3, <2>6 DEF ParentOf, TenantOf, Tenant
<1> QED BY <1>3, <1>4, <1>5, <1>6, Names

-----------------------------------------------------------------------------
(***************************************************************************)
(* What each statement leaves                                              *)
(***************************************************************************)
TablesOK ==
  /\ DOMAIN db = TableNames /\ Consistent(db) /\ Unique(db)
  /\ family \subseteq TableNames

\* The rows of table u that a delete of rows of t takes along.
TakenWith(t, rows, u) ==
  {r \in db[u] : \E f \in Schema[u].references :
     /\ f.onDelete = "cascade" /\ f.table = t
     /\ \E p \in rows : Refers(r, f, p)}

\* What a delete removes: its rows, and those that refer to one by a key that
\* cascades.  Nothing is the target of one that was itself taken along.
LEMMA RemovedRows ==
  ASSUME NEW t \in TableNames, NEW rows, NEW u \in TableNames
  PROVE  Removed(t, rows)[u] =
           (IF u = t THEN rows ELSE {}) \cup TakenWith(t, rows, u)
<1> DEFINE base == [x \in TableNames |-> IF x = t THEN rows ELSE {}]
           once == Cascade(base)
<1>1. ASSUME NEW f \in Schema[u].references, f.onDelete = "cascade"
      PROVE  once[f.table] = base[f.table]
  <2>1. f.table \in TableNames
    BY KeysAreSound DEF SoundKey
  <2>2. \A g \in Schema[f.table].references : g.onDelete # "cascade"
    BY <1>1, KeysAreSound DEF SoundKey
  <2>3. ReferringTo(f.table, base, "cascade") = {}
    BY <2>2 DEF ReferringTo
  <2>4. once[f.table] = base[f.table] \cup ReferringTo(f.table, base, "cascade")
    BY <2>1 DEF Cascade
  <2> QED BY <2>3, <2>4
<1>2. ReferringTo(u, once, "cascade") = ReferringTo(u, base, "cascade")
  <2> HIDE DEF once, base
  <2> QED BY <1>1 DEF ReferringTo
<1>3. once[u] = base[u] \cup ReferringTo(u, base, "cascade")
  BY DEF Cascade
<1>4. Removed(t, rows)[u] = once[u] \cup ReferringTo(u, once, "cascade")
  BY DEF Removed, Cascade
<1>5. Removed(t, rows)[u] = base[u] \cup ReferringTo(u, base, "cascade")
  BY <1>2, <1>3, <1>4
<1>6. ReferringTo(u, base, "cascade") = TakenWith(t, rows, u)
  <2>1. ASSUME NEW f \in Schema[u].references
        PROVE  base[f.table] = IF f.table = t THEN rows ELSE {}
    BY KeysAreSound DEF SoundKey
  <2> HIDE DEF base
  <2> QED BY <2>1 DEF ReferringTo, TakenWith
<1> QED BY <1>5, <1>6

\* A reference stays satisfied when the row it refers to stays.
LEMMA InsertKeeps ==
  ASSUME TablesOK, NEW t \in TableNames, NEW r, Insert(t, r)
  PROVE  DOMAIN db' = TableNames /\ Consistent(db') /\ Unique(db')
<1>1. /\ DOMAIN db' = TableNames /\ db'[t] = db[t] \cup {r}
      /\ \A u \in TableNames : u # t => db'[u] = db[u]
  BY DEF TablesOK, Insert
<1>2. ASSUME NEW u \in TableNames, NEW q, Fits(u, q, db) PROVE Fits(u, q, db')
  <2>1. ASSUME NEW f \in Schema[u].references PROVE Satisfied(q, f, db')
    <3>1. Satisfied(q, f, db) /\ f.table \in TableNames
      BY <1>2, KeysAreSound DEF Fits, SoundKey
    <3>2. db[f.table] \subseteq db'[f.table]
      BY <1>1, <3>1
    <3> QED BY <3>1, <3>2 DEF Satisfied
  <2> QED BY <1>2, <2>1 DEF Fits
<1>3. Consistent(db')
  <2> SUFFICES ASSUME NEW u \in TableNames, NEW q \in db'[u]
               PROVE  Fits(u, q, db)
    BY <1>2 DEF Consistent
  <2> QED BY <1>1 DEF TablesOK, Consistent, Insert, Accepts
<1>4. Unique(db')
  <2>1. \A key \in Schema[t].unique, q \in db[t] : \E c \in key : q[c] # r[c]
    BY DEF Insert, Accepts, Distinct
  <2> QED BY <1>1, <2>1 DEF TablesOK, Unique
<1> QED BY <1>1, <1>3, <1>4

\* What refers to a row that goes is gone too, or stops the delete.
LEMMA DeleteKeeps ==
  ASSUME TablesOK, NEW t \in TableNames, NEW rows, Delete(t, rows)
  PROVE  DOMAIN db' = TableNames /\ Consistent(db') /\ Unique(db')
<1> DEFINE gone == Removed(t, rows)
<1>1. DOMAIN db' = TableNames /\ \A u \in TableNames : db'[u] = db[u] \ gone[u]
  BY DEF Delete
<1>2. ASSUME NEW u \in TableNames, NEW r \in db'[u],
             NEW f \in Schema[u].references, NEW p \in db[f.table],
             Refers(r, f, p)
      PROVE  p \in db'[f.table]
  <2>1. f.table \in TableNames /\ f.onDelete \in {"cascade", "restrict"}
    BY KeysAreSound DEF SoundKey
  <2>2. r \in db[u] /\ r \notin gone[u]
    BY <1>1
  <2>3. CASE f.onDelete = "restrict"
    <3>1. ReferringTo(u, gone, "restrict") \subseteq gone[u]
      BY DEF Delete, Deletable
    <3>2. p \notin gone[f.table]
      BY <1>2, <2>2, <2>3, <3>1 DEF ReferringTo
    <3> QED BY <1>1, <2>1, <3>2
  <2>4. CASE f.onDelete = "cascade"
    <3>1. ~(f.table = t /\ p \in rows)
      BY <1>2, <2>2, <2>4, RemovedRows DEF TakenWith
    <3>2. \A g \in Schema[f.table].references : g.onDelete # "cascade"
      BY <2>4, KeysAreSound DEF SoundKey
    <3>3. p \notin gone[f.table]
      BY <2>1, <3>1, <3>2, RemovedRows DEF TakenWith
    <3> QED BY <1>1, <2>1, <3>3
  <2> QED BY <2>1, <2>3, <2>4
<1>3. Consistent(db')
  <2> SUFFICES ASSUME NEW u \in TableNames, NEW r \in db'[u]
               PROVE  Fits(u, r, db')
    BY DEF Consistent
  <2>1. Fits(u, r, db)
    BY <1>1 DEF TablesOK, Consistent
  <2>2. ASSUME NEW f \in Schema[u].references PROVE Satisfied(r, f, db')
    <3>1. Satisfied(r, f, db)
      BY <2>1 DEF Fits
    <3> QED BY <1>2, <3>1 DEF Satisfied
  <2> QED BY <2>1, <2>2 DEF Fits
<1>4. Unique(db')
  BY <1>1 DEF TablesOK, Unique
<1> QED BY <1>1, <1>3, <1>4

\* An update changes a column that may be null, which nothing refers to.
LEMMA UpdateKeeps ==
  ASSUME TablesOK, NEW t \in TableNames, NEW q \in db[t],
         NEW c \in Schema[t].optional, NEW v, Update(t, {q}, c, v)
  PROVE  /\ DOMAIN db' = TableNames /\ Consistent(db') /\ Unique(db')
         /\ Fits(t, [q EXCEPT ![c] = v], db)
<1> DEFINE new == [q EXCEPT ![c] = v]
<1>1. /\ DOMAIN db' = TableNames /\ db'[t] = (db[t] \ {q}) \cup {new}
      /\ \A u \in TableNames : u # t => db'[u] = db[u]
  BY DEF TablesOK, Update
<1>2. Fits(t, q, db)
  BY DEF TablesOK, Consistent
<1>3. DOMAIN new = Schema[t].columns
      /\ \A x \in Schema[t].columns : x # c => new[x] = q[x]
  BY <1>2 DEF Fits
<1>4. Fits(t, new, db)
  <2>1. \A f \in Schema[t].references : Satisfied(new, f, db)
    BY DEF Update
  <2> QED BY <1>2, <1>3, <2>1 DEF Fits
<1>5. ASSUME NEW u \in TableNames, NEW r, Fits(u, r, db)
      PROVE  Fits(u, r, db')
  <2>1. ASSUME NEW f \in Schema[u].references, NEW p \in db[f.table],
               Refers(r, f, p)
        PROVE  \E p2 \in db'[f.table] : Refers(r, f, p2)
    <3>1. f.table \in TableNames
          /\ \A x \in DOMAIN f.on :
               f.on[x] \in Schema[f.table].columns \ Schema[f.table].optional
      BY KeysAreSound DEF SoundKey
    <3>2. CASE f.table = t /\ p = q
      <4>1. \A x \in DOMAIN f.on : f.on[x] \in Schema[t].columns /\ f.on[x] # c
        BY <3>1, <3>2
      <4>2. \A x \in DOMAIN f.on : new[f.on[x]] = p[f.on[x]]
        BY <1>3, <3>2, <4>1
      <4>3. Refers(r, f, new)
        BY <2>1, <4>2 DEF Refers
      <4> HIDE DEF new
      <4> QED BY <1>1, <3>2, <4>3
    <3>3. CASE ~(f.table = t /\ p = q)
      <4>1. p \in db'[f.table]
        BY <1>1, <3>1, <3>3
      <4> QED BY <2>1, <4>1
    <3> QED BY <3>2, <3>3
  <2>2. ASSUME NEW f \in Schema[u].references PROVE Satisfied(r, f, db')
    <3>1. Satisfied(r, f, db)
      BY <1>5 DEF Fits
    <3> QED BY <2>1, <3>1 DEF Satisfied
  <2> QED BY <1>5, <2>2 DEF Fits
<1>6. Consistent(db')
  <2> SUFFICES ASSUME NEW u \in TableNames, NEW r \in db'[u]
               PROVE  Fits(u, r, db)
    BY <1>5 DEF Consistent
  <2>1. CASE u = t /\ r = new
    BY <1>4, <2>1
  <2>2. CASE ~(u = t /\ r = new)
    BY <1>1, <2>2 DEF TablesOK, Consistent
  <2> QED BY <2>1, <2>2
<1>7. Unique(db')
  <2>1. \A key \in Schema[t].unique, p \in db[t] \ {q} :
          \E x \in key : p[x] # new[x]
    <3>1. Distinct(t, new, [db EXCEPT ![t] = @ \ {q}])
      BY DEF Update
    <3> QED BY <3>1 DEF Distinct, TablesOK
  <2> HIDE DEF new
  <2> QED BY <1>1, <2>1 DEF TablesOK, Unique
<1> QED BY <1>1, <1>4, <1>6, <1>7

\* What a step may do to the tables.
Statement(t) ==
  \/ \E r : Insert(t, r)
  \/ \E rows : Delete(t, rows)
  \/ \E r \in db[t], c \in Schema[t].optional : \E v : Update(t, {r}, c, v)

\* Only a statement changes rows, on a table of the family.
LEMMA StatementsOnly ==
  ASSUME TablesOK, [TenantNext]_tenantVars
  PROVE  /\ family' = family
         /\ \/ UNCHANGED db
            \/ \E t \in family : Statement(t) /\ statement'.table = t
<1>1. ASSUME NEW t \in family, ScopedInsert(t) \/ UnscopedInsert(t)
      PROVE  family' = family /\ Statement(t) /\ statement'.table = t
  BY <1>1 DEF ScopedInsert, UnscopedInsert, Scoped, Unscoped, Statement
<1>2. ASSUME NEW t \in family, ScopedDelete(t) \/ UnscopedDelete(t)
      PROVE  family' = family /\ Statement(t) /\ statement'.table = t
  <2>1. \E r \in db[t] : Delete(t, {r})
    BY <1>2 DEF ScopedDelete, UnscopedDelete
  <2> QED BY <1>2, <2>1
          DEF ScopedDelete, UnscopedDelete, Scoped, Unscoped, Statement
<1>3. ASSUME NEW t \in family, ScopedUpdate(t)
      PROVE  family' = family /\ Statement(t) /\ statement'.table = t
  BY <1>3 DEF ScopedUpdate, Scoped, Statement
<1>4. ASSUME NEW ctx \in Principals,
             EnterTenant(ctx) \/ \E p \in Ids("projects") : Enter(ctx, p)
      PROVE  UNCHANGED <<db, family>>
  BY <1>4 DEF EnterTenant, Enter
<1>5. CASE Leave
  BY <1>5 DEF Leave
<1>6. CASE UNCHANGED tenantVars
  BY <1>6 DEF tenantVars
<1> QED BY <1>1, <1>2, <1>3, <1>4, <1>5, <1>6 DEF TenantNext

\* Every statement leaves consistent rows.
LEMMA TablesStep == TablesOK /\ [TenantNext]_tenantVars => TablesOK'
<1> SUFFICES ASSUME TablesOK, [TenantNext]_tenantVars PROVE TablesOK'
  OBVIOUS
<1>1. family' \subseteq TableNames
  BY StatementsOnly DEF TablesOK
<1>2. CASE UNCHANGED db
  BY <1>1, <1>2 DEF TablesOK
<1>3. CASE \E t \in family : Statement(t)
  <2>1. PICK t \in TableNames : Statement(t)
    BY <1>3 DEF TablesOK
  <2>2. DOMAIN db' = TableNames /\ Consistent(db') /\ Unique(db')
    BY <2>1, InsertKeeps, DeleteKeeps, UpdateKeeps DEF Statement
  <2> QED BY <1>1, <2>2 DEF TablesOK
<1> QED BY <1>2, <1>3, StatementsOnly

\* The rows of the start are consistent (TenantAssumption).
LEMMA TablesInit == TenantInit => TablesOK
BY TenantAssumption DEF TenantInit, TablesOK

\* A row that fits beside consistent rows refers to rows in its scope.
LEMMA InScopeOf ==
  ASSUME NEW rows, Consistent(rows), NEW t \in TableNames, NEW r, Fits(t, r, rows),
         NEW c \in DOMAIN r \cap DOMAIN TableOf, r[c] # Null
  PROVE  \E p \in rows[TableOf[c]] :
           /\ p.id = r[c]
           /\ \A s \in ScopeOf \cap DOMAIN r \cap DOMAIN p : s # c => r[s] = p[s]
<1>1. DOMAIN r = Schema[t].columns
  BY DEF Fits
<1>2. CASE c = "tenant_id"
  <2>1. t # "tenants"
    BY <1>1, <1>2, Columns
  <2>2. PICK p \in rows["tenants"] : TenantOf(r, p)
    BY <2>1, HasTenant
  <2>3. DOMAIN p = {"id", "slug"}
    BY Names, Columns DEF Consistent, Fits
  <2>4. TableOf[c] = "tenants"
    BY <1>2 DEF TableOf
  <2> QED BY <1>2, <2>2, <2>3, <2>4 DEF TenantOf, ScopeOf
<1>3. CASE c = "application_id"
  <2>1. PICK p \in rows["applications"] : ApplicationOf(r, p)
    BY <1>3, HasApplication
  <2>2. DOMAIN p = {"id", "tenant_id"}
    BY Names, Columns DEF Consistent, Fits
  <2>3. TableOf[c] = "applications"
    BY <1>3 DEF TableOf
  <2> QED BY <1>3, <2>1, <2>2, <2>3 DEF ApplicationOf, ScopeOf
<1>4. CASE c = "project_id"
  <2>1. PICK p \in rows["projects"] : ProjectOf(r, p)
    BY <1>4, HasProject
  <2>2. TableOf[c] = "projects"
    BY <1>4 DEF TableOf
  <2> QED BY <1>4, <2>1, <2>2 DEF ProjectOf, ScopeOf
<1>5. CASE c = "current_version_id"
  <2>1. t = "assets"
    BY <1>1, <1>5, CurrentVersion
  <2> DEFINE f == [on |-> [current_version_id |-> "id", id |-> "asset_id",
                           project_id |-> "project_id",
                           tenant_id |-> "tenant_id"],
                   table |-> "asset_versions", onDelete |-> "restrict"]
  <2>2. f \in Schema["assets"].references
    BY CurrentVersion
  <2>3. Satisfied(r, f, rows)
    BY <2>1, <2>2 DEF Fits
  <2>4. \A x \in DOMAIN f.on : r[x] # Null
    BY <1>5, <2>1, CurrentVersion DEF Fits
  <2>5. PICK p \in rows["asset_versions"] : Refers(r, f, p)
    BY <2>3, <2>4 DEF Satisfied
  <2>6. /\ p["id"] = r[c] /\ p["project_id"] = r["project_id"]
        /\ p["tenant_id"] = r["tenant_id"]
    BY <1>5, <2>5 DEF Refers
  <2>7. "application_id" \notin DOMAIN r
    BY <1>1, <2>1, Columns
  <2>8. TableOf[c] = "asset_versions"
    BY <1>5 DEF TableOf
  <2> HIDE DEF f
  <2> QED BY <2>6, <2>7, <2>8 DEF ScopeOf
<1>6. CASE c \notin ScopeOf /\ c # "current_version_id"
  <2>1. WholeKey(t, c)
    BY <1>1, <1>6, OtherKeys
  <2>2. PICK scope : /\ KeyIn(t, c, TableOf[c], scope)
                     /\ (ScopeOf \cap Schema[t].columns
                           \cap Schema[TableOf[c]].columns) \ {c} \subseteq scope
    BY <2>1 DEF WholeKey
  <2>3. PICK p \in rows[TableOf[c]] : ParentOf(r, c, scope, p)
    BY <2>2, Parent
  <2>4. TableOf[c] \in TableNames
    BY Names DEF TableOf
  <2>5. DOMAIN p = Schema[TableOf[c]].columns
    BY <2>4 DEF Consistent, Fits
  <2> QED BY <1>1, <2>2, <2>3, <2>5 DEF ParentOf
<1> QED BY <1>2, <1>3, <1>4, <1>5, <1>6 DEF ScopeOf

(***************************************************************************)
(* Whatever statements ran, scoped or not, with whatever payload, a row    *)
(* and the rows it refers to are of one tenant, application and project    *)
(* (the migrations' foreign keys; scoped.ts).                              *)
(***************************************************************************)
THEOREM ScopedReferences == TenantSpec => []ReferencesStayInScope
<1>1. TablesOK => ReferencesStayInScope
  <2> SUFFICES ASSUME TablesOK, NEW t \in TableNames, NEW r \in db[t],
                      NEW c \in DOMAIN r \cap DOMAIN TableOf, r[c] # Null
               PROVE  \E p \in db[TableOf[c]] :
                        /\ p.id = r[c]
                        /\ \A s \in ScopeOf \cap DOMAIN r \cap DOMAIN p :
                             s # c => r[s] = p[s]
    BY DEF ReferencesStayInScope
  <2>1. Consistent(db) /\ Fits(t, r, db)
    BY DEF TablesOK, Consistent
  <2> QED BY <2>1, InScopeOf
<1> QED BY <1>1, TablesInit, TablesStep, PTL DEF TenantSpec

(***************************************************************************)
(* No step takes an audit entry away, nor a row that points to an object   *)
(* in storage unless the statement is a delete from that row's own table   *)
(* (ON DELETE of the migrations' foreign keys and the role's grants).      *)
(***************************************************************************)
THEOREM NothingErased == TenantSpec => NothingIsErasedSilently
<1>1. ASSUME TablesOK, [TenantNext]_tenantVars PROVE [ErasedByName]_tenantVars
  <2> SUFFICES
        ASSUME NEW t \in {"asset_versions", "image_derivatives", "audit_logs"},
               NEW r \in db[t] \ db'[t]
        PROVE  t # "audit_logs" /\ statement'.table = t
    BY DEF ErasedByName
  <2>1. t \in TableNames
    BY Names
  <2>2. PICK u \in TableNames : Statement(u) /\ statement'.table = u
    BY <1>1, StatementsOnly DEF TablesOK
  <2>3. ASSUME NEW q, Insert(u, q) PROVE FALSE
    BY <1>1, <2>1, <2>3 DEF Insert, TablesOK
  <2>4. ASSUME NEW rows, Delete(u, rows) PROVE t = u /\ t # "audit_logs"
    <3>1. r \in Removed(u, rows)[t]
      BY <2>1, <2>4 DEF Delete
    <3>2. \A f \in Schema[t].references : f.onDelete # "cascade"
      BY <2>1, KeysAreSound DEF SoundKey
    <3>3. TakenWith(u, rows, t) = {}
      BY <3>2 DEF TakenWith
    <3>4. t = u
      BY <2>1, <3>1, <3>3, RemovedRows
    <3> QED BY <2>4, <3>4 DEF Delete, Granted
  <2>5. ASSUME NEW q, NEW c, NEW v, Update(u, {q}, c, v)
        PROVE  t = u /\ t # "audit_logs"
    BY <1>1, <2>1, <2>5 DEF Update, Granted, TablesOK
  <2> QED BY <2>2, <2>3, <2>4, <2>5 DEF Statement
<1> QED BY <1>1, TablesInit, TablesStep, PTL DEF TenantSpec, NothingIsErasedSilently

-----------------------------------------------------------------------------
(***************************************************************************)
(* What a request may reach                                                *)
(***************************************************************************)
\* The project that a request is in was its key's to enter, and has not
\* become another application's since.
InReach ==
  session.project # Null =>
    /\ session.access = {"all"} \/ session.project \in session.access
    /\ \A p \in db["projects"] :
         p.id = session.project => p.application_id = session.application

ReachInv == TablesOK /\ InReach

\* No request has entered.
LEMMA ReachInit == TenantInit => ReachInv
BY TablesInit DEF TenantInit, ReachInv, InReach, NoSession

\* A project keeps its application while a request is in it.
LEMMA StatementKeepsReach ==
  ASSUME ReachInv, NEW t \in TableNames, Statement(t), UNCHANGED session
  PROVE  InReach'
<1>1. "projects" \in TableNames /\ Schema["projects"].optional = {}
  BY Names, SchemaTables DEF ProjectsTable, Table
<1>2. \A p \in db'["projects"] : p \in db["projects"] \/ p.id # session.project
  <2>1. CASE \E r : Insert(t, r)
    BY <1>1, <2>1 DEF Insert, ReachInv, TablesOK
  <2>2. CASE \E rows : Delete(t, rows)
    BY <1>1, <2>2 DEF Delete
  <2>3. ASSUME NEW c \in Schema[t].optional, NEW r, NEW v, Update(t, {r}, c, v)
        PROVE  db'["projects"] = db["projects"]
    BY <1>1, <2>3 DEF Update, ReachInv, TablesOK
  <2> QED BY <2>1, <2>2, <2>3 DEF Statement
<1> QED BY <1>2 DEF ReachInv, InReach

\* Entering finds the one project with the id (unique), and its application.
LEMMA ReachStep == ReachInv /\ [TenantNext]_tenantVars => ReachInv'
<1> SUFFICES ASSUME ReachInv, [TenantNext]_tenantVars PROVE InReach'
  BY TablesStep DEF ReachInv
<1>1. ASSUME NEW ctx \in Principals, NEW p, Enter(ctx, p) PROVE InReach'
  <2>1. session' = [ctx EXCEPT !.project = p] /\ db' = db
    BY <1>1 DEF Enter
  <2>2. /\ session'.project = p /\ session'.access = ctx.access
        /\ session'.application = ctx.application
    BY <2>1, TenantAssumption
  <2>3. PICK r \in db["projects"] : r.id = p /\ r.application_id = ctx.application
    BY <1>1 DEF Enter, FindProject
  <2>4. \A q \in db["projects"] : q.id = p => q = r
    <3>1. {"id"} \in Schema["projects"].unique /\ "projects" \in TableNames
      BY Names, SchemaTables DEF ProjectsTable, Table, Id
    <3> QED BY <2>3, <3>1 DEF ReachInv, TablesOK, Unique
  <2>5. ctx.access = {"all"} \/ p \in ctx.access
    BY <1>1 DEF Enter
  <2> QED BY <2>1, <2>2, <2>3, <2>4, <2>5 DEF InReach
<1>2. ASSUME NEW ctx \in Principals, EnterTenant(ctx) PROVE InReach'
  BY <1>2, TenantAssumption DEF EnterTenant, InReach
<1>3. CASE Leave
  BY <1>3 DEF Leave, InReach, NoSession
<1>4. ASSUME NEW t \in family,
             \/ ScopedInsert(t) \/ ScopedDelete(t) \/ ScopedUpdate(t)
             \/ UnscopedInsert(t) \/ UnscopedDelete(t)
      PROVE  InReach'
  <2>1. t \in TableNames
    BY DEF ReachInv, TablesOK
  <2>2. Statement(t) /\ UNCHANGED session
    BY <1>4 DEF ScopedInsert, ScopedDelete, ScopedUpdate, UnscopedInsert,
                UnscopedDelete, Scoped, Unscoped, Statement
  <2> QED BY <2>1, <2>2, StatementKeepsReach
<1>5. CASE UNCHANGED tenantVars
  BY <1>5 DEF tenantVars, ReachInv, InReach
<1> QED BY <1>1, <1>2, <1>3, <1>4, <1>5 DEF TenantNext

\* Row r of table u is one that the request's statement on t may change.
Reached(t, u, r) ==
  /\ Fits(u, r, db)
  /\ u = "tenants" \/ r.tenant_id = session.tenant
  /\ {u, t} \subseteq ProjectOwnedTables => r.project_id = session.project

\* A row in scope carries the context's tenant and project.
LEMMA ScopedRow ==
  ASSUME NEW t, NEW r, InScope(t, session, r)
  PROVE  /\ r.tenant_id = session.tenant
         /\ t \in ProjectOwnedTables => r.project_id = session.project
BY DEF InScope, ScopeColumns

\* Whatever the payload says.
LEMMA StampIsInScope ==
  ASSUME NEW t, NEW r PROVE InScope(t, session, Stamp(t, session, r))
BY DEF InScope, Stamp, ScopeColumns

\* An insert changes the row in scope alone.
LEMMA InsertReaches ==
  ASSUME ReachInv, NEW t \in TableNames, ScopedInsert(t),
         NEW u \in TableNames, NEW r \in Changed(u)
  PROVE  Reached(t, u, r)
<1>1. PICK q : InScope(t, session, q) /\ Insert(t, q)
  BY StampIsInScope DEF ScopedInsert
<1>2. u = t /\ r = q
  BY <1>1 DEF Insert, Changed, ReachInv, TablesOK
<1> QED BY <1>1, <1>2, ScopedRow DEF Reached, Insert, Accepts

\* A delete takes along rows of the tenant and project of the row deleted.
LEMMA DeleteReaches ==
  ASSUME ReachInv, NEW t \in TableNames \ {"tenants"}, ScopedDelete(t),
         NEW u \in TableNames, NEW r \in Changed(u)
  PROVE  Reached(t, u, r)
<1>1. PICK q \in db[t] : InScope(t, session, q) /\ Delete(t, {q})
  BY DEF ScopedDelete
<1>2. r \in db[u] /\ r \in Removed(t, {q})[u]
  BY <1>1 DEF Delete, Changed
<1>3. Fits(u, r, db)
  BY <1>2 DEF ReachInv, TablesOK, Consistent
<1>4. CASE u = t /\ r = q
  BY <1>1, <1>3, <1>4, ScopedRow DEF Reached
<1>5. CASE ~(u = t /\ r = q)
  <2>1. r \in TakenWith(t, {q}, u)
    BY <1>2, <1>5, RemovedRows
  <2>2. PICK f \in Schema[u].references :
          f.onDelete = "cascade" /\ f.table = t /\ Refers(r, f, q)
    BY <2>1 DEF TakenWith
  <2>3. r.tenant_id = q.tenant_id
    BY <2>2, KeysAreSound DEF SoundKey, Refers
  <2>4. {u, t} \subseteq ProjectOwnedTables => r.project_id = q.project_id
    BY <2>2, KeysAreSound DEF SoundKey, Refers
  <2> QED BY <1>1, <1>3, <2>3, <2>4, ScopedRow DEF Reached
<1> QED BY <1>4, <1>5

\* An update leaves the tenant and project of its row.
LEMMA UpdateReaches ==
  ASSUME ReachInv, NEW t \in TableNames \ {"tenants"}, ScopedUpdate(t),
         NEW u \in TableNames, NEW r \in Changed(u)
  PROVE  Reached(t, u, r)
<1>1. PICK q \in db[t], c \in Schema[t].optional : \E v :
        InScope(t, session, q) /\ Update(t, {q}, c, v)
  BY DEF ScopedUpdate
<1>2. PICK v : InScope(t, session, q) /\ Update(t, {q}, c, v)
  BY <1>1
<1> DEFINE new == [q EXCEPT ![c] = v]
<1>3. u = t /\ r \in {q, new}
  BY <1>2 DEF Update, Changed, ReachInv, TablesOK
<1>4. Fits(t, q, db) /\ Fits(t, new, db)
  BY <1>2, UpdateKeeps DEF ReachInv, TablesOK, Consistent
<1>5. /\ c # "tenant_id" /\ "tenant_id" \in DOMAIN q
      /\ t \in ProjectOwnedTables => c # "project_id" /\ "project_id" \in DOMAIN q
  BY <1>4, Columns DEF Fits, ProjectOwnedTables
<1>6. /\ new.tenant_id = q.tenant_id
      /\ t \in ProjectOwnedTables => new.project_id = q.project_id
  BY <1>5
<1> QED BY <1>2, <1>3, <1>4, <1>6, ScopedRow DEF Reached

\* What a request's statement changes is within reach.
LEMMA RequestReaches ==
  ASSUME ReachInv, [TenantNext]_tenantVars, statement'.by = "request", db' # db
  PROVE  RequestStaysInReach
<1>1. PICK t \in family \cap TenantOwnedTables :
        ScopedInsert(t) \/ ScopedDelete(t) \/ ScopedUpdate(t)
  <2>1. ASSUME NEW t \in family, UnscopedInsert(t) \/ UnscopedDelete(t) PROVE FALSE
    BY <2>1 DEF UnscopedInsert, UnscopedDelete, Unscoped
  <2>2. ASSUME NEW ctx, NEW p, EnterTenant(ctx) \/ Enter(ctx, p) PROVE FALSE
    BY <2>2 DEF EnterTenant, Enter
  <2>3. ~Leave /\ ~UNCHANGED tenantVars
    BY DEF Leave, tenantVars
  <2> QED BY <2>1, <2>2, <2>3 DEF TenantNext
<1>2. t \in TableNames \ {"tenants"}
  BY <1>1 DEF ReachInv, TablesOK, TenantOwnedTables, ProjectOwnedTables
<1>3. ~ScopeError(t, session) /\ statement'.table = t
  BY <1>1 DEF ScopedInsert, ScopedDelete, ScopedUpdate, Scoped
<1>4. SUFFICES ASSUME NEW u \in TableNames, NEW r \in Changed(u)
               PROVE  /\ u = "tenants" \/ r.tenant_id = session.tenant
                      /\ {u, t} \subseteq ProjectOwnedTables =>
                           /\ r.project_id = session.project
                           /\ \/ session.access = {"all"}
                              \/ r.project_id \in session.access
                           /\ \E p \in db["projects"] :
                                /\ p.id = r.project_id
                                /\ p.application_id = session.application
  BY <1>3 DEF RequestStaysInReach
<1>5. Reached(t, u, r)
  BY <1>1, <1>2, InsertReaches, DeleteReaches, UpdateReaches
<1>6. CASE {u, t} \subseteq ProjectOwnedTables
  <2>1. session.project # Null /\ r.project_id = session.project
    BY <1>3, <1>5, <1>6 DEF ScopeError, Reached
  <2>2. "project_id" \in DOMAIN r
    BY <1>5, <1>6, Columns DEF Reached, Fits
  <2>3. PICK p \in db["projects"] : ProjectOf(r, p)
    BY <1>5, <2>1, <2>2, HasProject DEF Reached, ReachInv, TablesOK
  <2> QED BY <1>5, <2>1, <2>3 DEF Reached, ReachInv, InReach, ProjectOf
<1> QED BY <1>5, <1>6 DEF Reached

(***************************************************************************)
(* What a request changes is its key's tenant's and, through a             *)
(* project-owned table, in the project that it entered, which its key      *)
(* covers and whose application is the key's (enter of project-access.ts;  *)
(* scoped.ts), whatever runs between its entering and its statements.      *)
(***************************************************************************)
THEOREM RequestsReach == TenantSpec => RequestsStayInReach
<1>1. ReachInv /\ [TenantNext]_tenantVars =>
        [statement'.by = "request" /\ db' # db => RequestStaysInReach]_tenantVars
  BY RequestReaches
<1> QED BY <1>1, ReachInit, ReachStep, PTL DEF TenantSpec, RequestsStayInReach

-----------------------------------------------------------------------------
(***************************************************************************)
(* Provisioning                                                            *)
(***************************************************************************)
Labels == {"new", "parsed", "inserted", "committed", "keyed", "stopped"}
            \cup Exits

ProvisionTypes ==
  /\ step \in [Commands -> Labels]
  /\ tables = [tenants |-> tables.tenants,
               applications |-> tables.applications,
               projects |-> tables.projects, api_keys |-> tables.api_keys,
               audit_logs |-> tables.audit_logs]

KeyRow(c) == [of |-> c, tenant |-> c, permissions |-> asked[c].permissions]

TenantIsThere(c) == TenantRow(c) \in tables.tenants

\* How far a command has come, and what is committed of it.
Progress(c) ==
  /\ TenantIsThere(c) =>
       /\ step[c] \in {"committed", "keyed", "stopped"} \cup Exits
       /\ step[c] \in Exits => \E t \in told : t.of = c
       /\ ChildRow(c, c) \in tables.applications
       /\ ChildRow(c, c) \in tables.projects
       /\ AuditRow(c, "tenant.provisioned") \in tables.audit_logs
  /\ step[c] \in {"committed", "keyed"} => TenantIsThere(c)
  /\ step[c] = "keyed" => KeyRow(c) \in tables.api_keys

\* A key and its audit entry exist together.
KeyAudited(c) ==
  From("api_keys", c) # {} <=>
    AuditRow(c, "api_key.created") \in tables.audit_logs

\* The one that has inserted a slug is the only one, and has it to itself.
SlugIsFree(c) ==
  step[c] = "inserted" =>
    /\ ~Taken(asked[c].slug)
    /\ \A d \in Commands : step[d] = "inserted" /\ asked[d].slug = asked[c].slug
                             => d = c

\* Every tenant is of a command, and no two have one slug.
TenantsDiffer ==
  /\ \A row \in tables.tenants : \E c \in Commands : row = TenantRow(c)
  /\ \A p, q \in tables.tenants : p.slug = q.slug => p = q

\* Who was shown a key has it, and a tenant.
ToldTruly ==
  \A t \in told : \E c \in Commands :
    /\ t = [of |-> c, asked |-> asked[c]]
    /\ TenantIsThere(c) /\ KeyRow(c) \in tables.api_keys

ProvisionInv ==
  /\ ProvisionTypes /\ TenantsDiffer /\ ToldTruly
  /\ \A c \in Commands : Progress(c) /\ KeyAudited(c) /\ SlugIsFree(c)

-----------------------------------------------------------------------------
\* A command that moves on without a row (parse, failure, stop) loses nothing.
LEMMA MoveKeeps ==
  ASSUME ProvisionInv, NEW c \in Commands, NEW from, NEW to \in Labels,
         Goes(c, from, to), to \notin {"inserted", "committed", "keyed"},
         from \in {"new", "parsed"} \/ to = "stopped",
         UNCHANGED <<asked, tables, told>>
  PROVE  ProvisionInv'
<1>1. step' = [step EXCEPT ![c] = to] /\ step[c] = from
  BY DEF Goes
<1>2. ProvisionTypes'
  BY <1>1 DEF ProvisionInv, ProvisionTypes
<1>3. TenantsDiffer' /\ ToldTruly'
  BY DEF ProvisionInv, TenantsDiffer, ToldTruly, TenantIsThere, TenantRow, KeyRow
<1>4. ASSUME NEW d \in Commands
      PROVE  (Progress(d) /\ KeyAudited(d) /\ SlugIsFree(d))'
  <2>1. step'[d] = step[d] \/ (d = c /\ step'[d] = to)
    BY <1>1 DEF ProvisionInv, ProvisionTypes
  <2>2. Progress(d) /\ KeyAudited(d) /\ SlugIsFree(d)
    BY DEF ProvisionInv
  <2>3. TenantIsThere(d)' <=> TenantIsThere(d)
    BY DEF TenantIsThere, TenantRow
  <2>4. Progress(d)'
    <3>1. CASE step'[d] = step[d]
      BY <2>2, <2>3, <3>1 DEF Progress, ChildRow, AuditRow, KeyRow
    <3>2. CASE d = c /\ step'[d] = to
      <4>2. TenantIsThere(c) => to = "stopped"
        BY <1>1, <2>2, <3>2 DEF Progress, Exits
      <4> QED BY <2>2, <2>3, <3>2, <4>2
              DEF Progress, ChildRow, AuditRow, KeyRow, Exits
    <3> QED BY <2>1, <3>1, <3>2
  <2>5. KeyAudited(d)'
    BY <2>2 DEF KeyAudited, From, AuditRow
  <2>6. SlugIsFree(d)'
    BY <1>1, <2>1, <2>2 DEF SlugIsFree, Taken, ProvisionInv, ProvisionTypes
  <2> QED BY <2>4, <2>5, <2>6
<1> QED BY <1>2, <1>3, <1>4 DEF ProvisionInv

\* The INSERT of a tenant (tenants_slug_uk) reserves a slug that is free.
LEMMA FirstInsertKeeps ==
  ASSUME ProvisionInv, NEW c \in Commands, Goes(c, "parsed", "inserted"),
         ~Inserting(asked[c].slug), ~Taken(asked[c].slug),
         UNCHANGED <<asked, tables, told>>
  PROVE  ProvisionInv'
<1>1. step' = [step EXCEPT ![c] = "inserted"] /\ step[c] = "parsed"
  BY DEF Goes
<1>2. ProvisionTypes'
  BY <1>1 DEF ProvisionInv, ProvisionTypes, Labels
<1>3. TenantsDiffer' /\ ToldTruly'
  BY DEF ProvisionInv, TenantsDiffer, ToldTruly, TenantIsThere, TenantRow, KeyRow
<1>4. ASSUME NEW d \in Commands
      PROVE  (Progress(d) /\ KeyAudited(d) /\ SlugIsFree(d))'
  <2>1. IF d = c THEN step'[d] = "inserted" ELSE step'[d] = step[d]
    BY <1>1 DEF ProvisionInv, ProvisionTypes
  <2>2. Progress(d) /\ KeyAudited(d) /\ SlugIsFree(d)
    BY DEF ProvisionInv
  <2>3. TenantIsThere(d)' <=> TenantIsThere(d)
    BY DEF TenantIsThere, TenantRow
  <2>4. Progress(d)'
    BY <1>1, <2>1, <2>2, <2>3 DEF Progress, ChildRow, AuditRow, KeyRow, Exits
  <2>5. KeyAudited(d)'
    BY <2>2 DEF KeyAudited, From, AuditRow
  <2>6. SlugIsFree(d)'
    <3>1. ASSUME NEW e \in Commands
          PROVE  step'[e] = IF e = c THEN "inserted" ELSE step[e]
      BY <1>1 DEF ProvisionInv, ProvisionTypes
    <3> QED BY <2>2, <3>1 DEF SlugIsFree, Taken, Inserting
  <2> QED BY <2>4, <2>5, <2>6
<1> QED BY <1>2, <1>3, <1>4 DEF ProvisionInv

\* The first COMMIT shows a tenant with all that belongs to it.
LEMMA CommitKeeps ==
  ASSUME ProvisionInv, NEW c \in Commands, CommitTenant(c)
  PROVE  ProvisionInv'
<1>1. /\ step' = [step EXCEPT ![c] = "committed"] /\ step[c] = "inserted"
      /\ asked' = asked /\ told' = told
      /\ tables'.tenants = tables.tenants \cup {TenantRow(c)}
      /\ tables'.applications = tables.applications \cup {ChildRow(c, c)}
      /\ tables'.projects = tables.projects \cup {ChildRow(c, c)}
      /\ tables'.audit_logs =
           tables.audit_logs \cup {AuditRow(c, "tenant.provisioned")}
      /\ tables'.api_keys = tables.api_keys
  BY DEF CommitTenant, Goes, ProvisionInv, ProvisionTypes
<1>2. ProvisionTypes'
  <2>1. step' \in [Commands -> Labels]
    BY <1>1 DEF ProvisionInv, ProvisionTypes, Labels
  <2>2. tables' = [tenants |-> tables'.tenants,
                   applications |-> tables'.applications,
                   projects |-> tables'.projects,
                   api_keys |-> tables'.api_keys,
                   audit_logs |-> tables'.audit_logs]
    BY DEF ProvisionInv, ProvisionTypes, CommitTenant
  <2> QED BY <2>1, <2>2 DEF ProvisionTypes
<1>3. ~Taken(asked[c].slug)
  BY <1>1 DEF ProvisionInv, SlugIsFree
<1>4. \A d \in Commands : TenantIsThere(d)' <=> TenantIsThere(d) \/ d = c
  <2>1. \A d \in Commands : TenantRow(d) = TenantRow(c) => d = c
    BY DEF TenantRow
  <2> QED BY <1>1, <2>1 DEF TenantIsThere, TenantRow
<1>5. TenantsDiffer'
  BY <1>1, <1>3 DEF ProvisionInv, TenantsDiffer, TenantRow, Taken
<1>6. ToldTruly'
  BY <1>1, <1>4 DEF ProvisionInv, ToldTruly, KeyRow
<1>7. ASSUME NEW d \in Commands
      PROVE  (Progress(d) /\ KeyAudited(d) /\ SlugIsFree(d))'
  <2>1. \A e \in Commands :
          step'[e] = IF e = c THEN "committed" ELSE step[e]
    BY <1>1 DEF ProvisionInv, ProvisionTypes
  <2>2. Progress(d) /\ KeyAudited(d) /\ SlugIsFree(d)
    BY DEF ProvisionInv
  <2>3. Progress(d)'
    BY <1>1, <1>4, <2>1, <2>2 DEF Progress, ChildRow, AuditRow, KeyRow, Exits
  <2>4. KeyAudited(d)'
    <3>1. AuditRow(d, "api_key.created") # AuditRow(c, "tenant.provisioned")
      BY DEF AuditRow
    <3>2. AuditRow(d, "api_key.created")' = AuditRow(d, "api_key.created")
      BY DEF AuditRow
    <3> QED BY <1>1, <2>2, <3>1, <3>2 DEF KeyAudited, From
  <2>5. SlugIsFree(d)'
    <3>1. ASSUME step'[d] = "inserted" PROVE asked[d].slug # asked[c].slug
      BY <1>1, <2>1, <3>1 DEF ProvisionInv, SlugIsFree
    <3> QED BY <1>1, <2>1, <2>2, <3>1 DEF SlugIsFree, Taken, TenantRow
  <2> QED BY <2>3, <2>4, <2>5
<1> QED BY <1>2, <1>5, <1>6, <1>7 DEF ProvisionInv

\* The second transaction adds a key and its entry, and nothing else.
LEMMA CreateKeyKeeps ==
  ASSUME ProvisionInv, NEW c \in Commands, CreateKey(c)
  PROVE  ProvisionInv'
<1>1. /\ step' = [step EXCEPT ![c] = "keyed"] /\ step[c] = "committed"
      /\ asked' = asked /\ told' = told
      /\ tables'.tenants = tables.tenants
      /\ tables'.applications = tables.applications
      /\ tables'.projects = tables.projects
      /\ tables'.audit_logs =
           tables.audit_logs \cup {AuditRow(c, "api_key.created")}
      /\ tables'.api_keys = tables.api_keys \cup {KeyRow(c)}
  BY DEF CreateKey, Goes, ProvisionInv, ProvisionTypes, KeyRow
<1>2. ProvisionTypes'
  <2>1. step' \in [Commands -> Labels]
    BY <1>1 DEF ProvisionInv, ProvisionTypes, Labels
  <2>2. tables' = [tenants |-> tables'.tenants,
                   applications |-> tables'.applications,
                   projects |-> tables'.projects,
                   api_keys |-> tables'.api_keys,
                   audit_logs |-> tables'.audit_logs]
    BY DEF ProvisionInv, ProvisionTypes, CreateKey
  <2> QED BY <2>1, <2>2 DEF ProvisionTypes
<1>3. \A d : TenantIsThere(d)' <=> TenantIsThere(d)
  BY <1>1 DEF TenantIsThere, TenantRow
<1>4. TenantsDiffer' /\ ToldTruly'
  BY <1>1, <1>3 DEF ProvisionInv, TenantsDiffer, ToldTruly, TenantRow, KeyRow
<1>5. ASSUME NEW d \in Commands
      PROVE  (Progress(d) /\ KeyAudited(d) /\ SlugIsFree(d))'
  <2>1. \A e \in Commands : step'[e] = IF e = c THEN "keyed" ELSE step[e]
    BY <1>1 DEF ProvisionInv, ProvisionTypes
  <2>2. Progress(d) /\ KeyAudited(d) /\ SlugIsFree(d)
    BY DEF ProvisionInv
  <2>3. Progress(d)'
    BY <1>1, <1>3, <2>1, <2>2 DEF Progress, ChildRow, AuditRow, KeyRow, Exits
  <2>4. KeyAudited(d)'
    <3>1. CASE d = c
      <4>1. KeyRow(c) \in From("api_keys", c)'
        BY <1>1 DEF From, KeyRow
      <4> QED BY <1>1, <3>1, <4>1 DEF KeyAudited, AuditRow
    <3>2. CASE d # c
      <4>1. From("api_keys", d)' = From("api_keys", d)
        BY <1>1, <3>2 DEF From, KeyRow
      <4>2. AuditRow(d, "api_key.created") # AuditRow(c, "api_key.created")
        BY <3>2 DEF AuditRow
      <4>3. AuditRow(d, "api_key.created")' = AuditRow(d, "api_key.created")
        BY DEF AuditRow
      <4> QED BY <1>1, <2>2, <4>1, <4>2, <4>3 DEF KeyAudited
    <3> QED BY <3>1, <3>2
  <2>5. SlugIsFree(d)'
    BY <1>1, <2>1, <2>2 DEF SlugIsFree, Taken
  <2> QED BY <2>3, <2>4, <2>5
<1> QED BY <1>2, <1>4, <1>5 DEF ProvisionInv

\* The key that is printed is the one that was committed.
LEMMA ShowKeyKeeps ==
  ASSUME ProvisionInv, NEW c \in Commands, ShowKey(c)
  PROVE  ProvisionInv'
<1>1. /\ step[c] = "keyed" /\ asked' = asked /\ tables' = tables
      /\ told' = told \cup {[of |-> c, asked |-> asked[c]]}
      /\ \E to \in {"success", "failed"} : step' = [step EXCEPT ![c] = to]
  BY DEF ShowKey, Goes
<1>2. ProvisionTypes'
  BY <1>1 DEF ProvisionInv, ProvisionTypes, Labels, Exits
<1>3. \A d : /\ TenantIsThere(d)' <=> TenantIsThere(d)
             /\ KeyRow(d)' = KeyRow(d)
  BY <1>1 DEF TenantIsThere, TenantRow, KeyRow
<1>4. TenantIsThere(c) /\ KeyRow(c) \in tables.api_keys
  BY <1>1 DEF ProvisionInv, Progress
<1>5. TenantsDiffer'
  BY <1>1 DEF ProvisionInv, TenantsDiffer, TenantRow
<1>6. ToldTruly'
  BY <1>1, <1>3, <1>4 DEF ProvisionInv, ToldTruly
<1>7. ASSUME NEW d \in Commands
      PROVE  (Progress(d) /\ KeyAudited(d) /\ SlugIsFree(d))'
  <2>1. \A e \in Commands \ {c} : step'[e] = step[e]
    BY <1>1 DEF ProvisionInv, ProvisionTypes
  <2>2. step'[c] \in {"success", "failed"}
    BY <1>1 DEF ProvisionInv, ProvisionTypes
  <2>3. Progress(d) /\ KeyAudited(d) /\ SlugIsFree(d)
    BY DEF ProvisionInv
  <2>4. Progress(d)'
    <3>1. CASE d # c
      BY <1>1, <1>3, <2>1, <2>3, <3>1
         DEF Progress, ChildRow, AuditRow, Exits
    <3>2. CASE d = c
      <4>1. \E t \in told' : t.of = d
        <5> DEFINE t == [of |-> c, asked |-> asked[c]]
        <5>1. t \in told' /\ t.of = d
          BY <1>1, <3>2
        <5> QED BY <5>1
      <4>2. TenantIsThere(d)
        BY <1>4, <3>2
      <4> QED BY <1>1, <2>2, <2>3, <3>2, <4>1, <4>2
              DEF Progress, ChildRow, AuditRow, Exits
    <3> QED BY <3>1, <3>2
  <2>5. KeyAudited(d)'
    BY <1>1, <2>3 DEF KeyAudited, From, AuditRow
  <2>6. SlugIsFree(d)'
    BY <1>1, <2>1, <2>2, <2>3 DEF SlugIsFree, Taken
  <2> QED BY <2>4, <2>5, <2>6
<1> QED BY <1>2, <1>5, <1>6, <1>7 DEF ProvisionInv

\* Every step of a command, whichever and in whatever order, keeps it all.
LEMMA ProvisionStep ==
  ProvisionInv /\ [ProvisionNext]_provisionVars => ProvisionInv'
<1> SUFFICES ASSUME ProvisionInv, [ProvisionNext]_provisionVars
             PROVE  ProvisionInv'
  OBVIOUS
<1>1. ASSUME NEW c \in Commands, Parse(c) \/ Fails(c) PROVE ProvisionInv'
  <2>1. PICK from \in {"new", "parsed"}, to \in {"parsed", "usage", "failed"} :
          Goes(c, from, to) /\ UNCHANGED <<asked, tables, told>>
    BY <1>1 DEF Parse, Fails
  <2> QED BY <2>1, MoveKeeps DEF Labels, Exits
<1>2. ASSUME NEW c \in Commands, InsertTenant(c) PROVE ProvisionInv'
  <2>1. CASE Taken(asked[c].slug)
    BY <1>2, <2>1, MoveKeeps DEF InsertTenant, Labels, Exits
  <2>2. CASE ~Taken(asked[c].slug)
    BY <1>2, <2>2, FirstInsertKeeps DEF InsertTenant
  <2> QED BY <2>1, <2>2
<1>3. ASSUME NEW c \in Commands, Stop(c) PROVE ProvisionInv'
  BY <1>3, MoveKeeps DEF Stop, Labels
<1>4. CASE UNCHANGED provisionVars
  BY <1>4 DEF provisionVars, ProvisionInv, ProvisionTypes, TenantsDiffer,
              ToldTruly, Progress, KeyAudited, SlugIsFree, TenantIsThere,
              TenantRow, KeyRow, ChildRow, AuditRow, From, Taken
<1> QED
  BY <1>1, <1>2, <1>3, <1>4, CommitKeeps, CreateKeyKeeps, ShowKeyKeeps
     DEF ProvisionNext

\* A set of which any two elements are one has at most one.
LEMMA AtMostOne ==
  ASSUME NEW S, \A x, y \in S : x = y
  PROVE  Cardinality(S) <= 1
<1>1. CASE S = {}
  <2>1. Cardinality({}) = 0
    BY FS_EmptySet
  <2> QED BY <1>1, <2>1
<1>2. ASSUME NEW x \in S PROVE Cardinality(S) <= 1
  <2>1. S = {x}
    BY <1>2
  <2>2. Cardinality({x}) = 1
    BY FS_Singleton
  <2> QED BY <2>1, <2>2
<1> QED BY <1>1, <1>2

(***************************************************************************)
(* A slug has one tenant, a tenant all that belongs to it, a shown key is  *)
(* what was asked for, and only a stopped command leaves a tenant without  *)
(* a shown key (tenancy.provisioning.ts provisionTenant, provision.ts).    *)
(***************************************************************************)
THEOREM WholeProvisioning == ProvisionSpec => []ProvisioningIsWhole
<1>1. ProvisionInit => ProvisionInv
  BY DEF ProvisionInit, ProvisionInv, ProvisionTypes, Labels, TenantsDiffer,
         ToldTruly, Progress, KeyAudited, SlugIsFree, TenantIsThere, From
<1>2. ProvisionInv => ProvisioningIsWhole
  <2> SUFFICES ASSUME ProvisionInv PROVE ProvisioningIsWhole
    OBVIOUS
  <2>1. ASSUME NEW s \in Slugs
        PROVE  Cardinality({row \in tables.tenants : row.slug = s}) <= 1
    <3> DEFINE S == {row \in tables.tenants : row.slug = s}
    <3>1. \A row1, row2 \in S : row1 = row2
      BY DEF ProvisionInv, TenantsDiffer
    <3>2. Cardinality(S) <= 1
      <4> HIDE DEF S
      <4> QED BY <3>1, AtMostOne
    <3> QED BY <3>2
  <2>2. ASSUME NEW row \in tables.tenants
        PROVE  /\ From("applications", row.of) # {}
               /\ From("projects", row.of) # {}
               /\ AuditRow(row.of, "tenant.provisioned") \in tables.audit_logs
               /\ step[row.of] \in Exits => \E t \in told : t.of = row.of
    <3>1. PICK c \in Commands : row = TenantRow(c)
      BY DEF ProvisionInv, TenantsDiffer
    <3>2. row.of = c /\ TenantIsThere(c)
      BY <2>2, <3>1 DEF TenantRow, TenantIsThere
    <3>3. Progress(c)
      BY DEF ProvisionInv
    <3> QED BY <3>2, <3>3 DEF Progress, From, ChildRow
  <2>3. ASSUME NEW t \in told
        PROVE  /\ [of |-> t.of, slug |-> t.asked.slug] \in tables.tenants
               /\ [of |-> t.of, tenant |-> t.of,
                   permissions |-> t.asked.permissions] \in tables.api_keys
    <3>1. PICK c \in Commands :
            /\ t = [of |-> c, asked |-> asked[c]]
            /\ TenantIsThere(c) /\ KeyRow(c) \in tables.api_keys
      BY DEF ProvisionInv, ToldTruly
    <3>2. t.of = c /\ t.asked = asked[c]
      BY <3>1
    <3> QED BY <3>1, <3>2 DEF TenantIsThere, TenantRow, KeyRow
  <2>4. \A c \in Commands : KeyAudited(c)
    BY DEF ProvisionInv
  <2> QED BY <2>1, <2>2, <2>3, <2>4, Zenon
          DEF ProvisioningIsWhole, KeyAudited
<1> QED BY <1>1, <1>2, ProvisionStep, PTL DEF ProvisionSpec
=============================================================================
