--------------------------- MODULE TenantDatabase ---------------------------
(***************************************************************************)
(* Who may touch which row.  Requests enter a project with a verified      *)
(* credential (authentication.ts, project-access.ts) and reach tables only *)
(* through scoped() (scoped.ts); what has no single tenant goes through    *)
(* unsafeUnscoped().  Both run as the application role against the foreign *)
(* keys of the migrations.  The migrations keep what that role may not do, *)
(* the purge of audit entries, for jobs of the owner role; the repository  *)
(* has no such job, and the model none.                                    *)
(*                                                                         *)
(* A request enters in one step and works in later ones, so rows may       *)
(* change in between.  Updates set a reference; no code of the repository  *)
(* sets a row's tenant_id or project_id.                                   *)
(***************************************************************************)
EXTENDS DatabaseSchema, Naturals, FiniteSets, FiniteSetsExt, TLC

CONSTANTS
  Chain,     \* the rows every instance starts with, by table
  Families,  \* sets of tables; a behaviour works on one (a bound)
  FreshIds,  \* FreshIds[t]: the ids that rows of t may get (a bound)
  MaxRows,   \* rows beyond Chain (a bound)
  Principals \* the credentials' contexts (toTenantContext)

VARIABLES
  db,        \* db[t]: the rows of table t (committed)
  family,
  session,   \* the context of the request that has entered, or NoSession
  statement  \* the last statement: who made it, on which table (history)

tenantVars == <<db, family, session, statement>>

Null == "null"
NoSession == [tenant |-> Null, project |-> Null]
NoStatement == [by |-> "nobody", table |-> Null]

TenantInit ==
  /\ db = Chain
  /\ family \in Families
  /\ session = NoSession
  /\ statement = NoStatement

-----------------------------------------------------------------------------
(* PostgreSQL's part: keys and foreign keys (MATCH SIMPLE).                *)
Refers(r, f, p) == \A c \in DOMAIN f.on : r[c] = p[f.on[c]]

Satisfied(r, f, rows) ==
  \/ \E c \in DOMAIN f.on : r[c] = Null
  \/ \E p \in rows[f.table] : Refers(r, f, p)

\* nulls not distinct only matters where a key may be null, in
\* role_assignments_scope_uk, which says so.
Distinct(t, r, rows) ==
  \A key \in Schema[t].unique, q \in rows[t] :
    \E c \in key : q[c] # r[c]

\* A row of t as its columns and references allow it beside rows.
Fits(t, r, rows) ==
  /\ DOMAIN r = Schema[t].columns
  /\ \A c \in Schema[t].columns \ Schema[t].optional : r[c] # Null
  /\ \A f \in Schema[t].references : Satisfied(r, f, rows)

Accepts(t, r, rows) == Fits(t, r, rows) /\ Distinct(t, r, rows)

Consistent(rows) ==
  \A t \in TableNames : \A r \in rows[t] : Fits(t, r, rows)

Unique(rows) ==
  \A t \in TableNames : \A r, q \in rows[t] :
    r # q => \A key \in Schema[t].unique : \E c \in key : r[c] # q[c]

\* The rows of table u that refer to a row of gone, by table.
ReferringTo(u, gone, onDelete) ==
  {r \in db[u] : \E f \in Schema[u].references :
     f.onDelete = onDelete /\ \E p \in gone[f.table] : Refers(r, f, p)}

Cascade(gone) ==
  [u \in TableNames |-> gone[u] \cup ReferringTo(u, gone, "cascade")]

\* A delete takes along what cascades from it, twice as far as any chain of
\* cascades in the schema goes.
Removed(t, rows) ==
  Cascade(Cascade([u \in TableNames |-> IF u = t THEN rows ELSE {}]))

Deletable(gone) ==
  \A u \in TableNames : ReferringTo(u, gone, "restrict") \subseteq gone[u]

\* newId gives no project the id of the one that a request is working in.
Insert(t, r) ==
  /\ Granted("insert", t)
  /\ Accepts(t, r, db)
  /\ t = "projects" => r.id # session.project
  /\ db' = [db EXCEPT ![t] = @ \cup {r}]

Delete(t, rows) ==
  LET gone == Removed(t, rows)
  IN /\ Granted("delete", t)
     /\ Deletable(gone)
     /\ db' = [u \in TableNames |-> db[u] \ gone[u]]

Update(t, rows, c, v) ==
  LET new == {[r EXCEPT ![c] = v] : r \in rows}
  IN /\ Granted("update", t)
     /\ \A r \in new :
          /\ Distinct(t, r, [db EXCEPT ![t] = @ \ rows])
          /\ \A f \in Schema[t].references : Satisfied(r, f, db)
     /\ db' = [db EXCEPT ![t] = (@ \ rows) \cup new]

-----------------------------------------------------------------------------
(* Rows a statement may try to write: a fresh id, and any rows that exist  *)
(* for its references, whoever owns them.                                  *)
TableOf ==
  [tenant_id |-> "tenants", application_id |-> "applications",
   project_id |-> "projects", user_id |-> "users",
   created_by_user_id |-> "users", api_key_id |-> "api_keys",
   parent_id |-> "folders", folder_id |-> "folders", asset_id |-> "assets",
   current_version_id |-> "asset_versions",
   asset_version_id |-> "asset_versions", tag_id |-> "tags",
   collection_id |-> "collections", webhook_id |-> "webhooks"]

Ids(t) == {r.id : r \in db[t]}

Candidates(t, c) ==
  CASE c \in DOMAIN TableOf ->
         Ids(TableOf[c]) \cup (IF c \in Schema[t].optional THEN {Null} ELSE {})
    [] c = "id" -> FreshIds[t] \ Ids(t)
    [] OTHER -> FreshIds[t]

\* The rows with one of its choices for each column.
Rows(t) ==
  LET extend(c, rows) ==
        {r @@ (c :> v) : r \in rows, v \in Candidates(t, c)}
  IN FoldSet(extend, {<<>>}, Schema[t].columns)

Extra ==
  LET size(t, n) == n + Cardinality(db[t] \ Chain[t])
  IN FoldSet(size, 0, TableNames)

-----------------------------------------------------------------------------
(* scoped.ts                                                               *)

\* The columns a statement on t is pinned to; none when it must throw.
ScopeColumns(t, ctx) ==
  IF t \in ProjectOwnedTables
  THEN [tenant_id |-> ctx.tenant, project_id |-> ctx.project]
  ELSE [tenant_id |-> ctx.tenant]

ScopeError(t, ctx) == t \in ProjectOwnedTables /\ ctx.project = Null

InScope(t, ctx, r) ==
  \A c \in DOMAIN ScopeColumns(t, ctx) : r[c] = ScopeColumns(t, ctx)[c]

\* The context comes last: it overwrites what the payload says.
Stamp(t, ctx, r) ==
  LET scope == ScopeColumns(t, ctx)
  IN [c \in DOMAIN scope \cup DOMAIN r |->
        IF c \in DOMAIN scope THEN scope[c] ELSE r[c]]

-----------------------------------------------------------------------------
(* Requests.                                                               *)
FindProject(ctx, p) ==
  {r \in db["projects"] : r.id = p /\ InScope("projects", ctx, r)}

\* enter, for a principal that holds the route's permission.
Enter_AnyApplication(ctx, p) ==
  /\ session = NoSession
  /\ ctx.access = {"all"} \/ p \in ctx.access
  /\ FindProject(ctx, p) # {}
  /\ session' = [ctx EXCEPT !.project = p]
  /\ UNCHANGED <<db, family, statement>>

Enter(ctx, p) ==
  /\ session = NoSession
  /\ ctx.access = {"all"} \/ p \in ctx.access
  /\ \E r \in FindProject(ctx, p) : r.application_id = ctx.application
  /\ session' = [ctx EXCEPT !.project = p]
  /\ UNCHANGED <<db, family, statement>>

\* A route without a project in its path.
EnterTenant(ctx) ==
  /\ session = NoSession
  /\ session' = ctx
  /\ UNCHANGED <<db, family, statement>>

Leave ==
  /\ session # NoSession
  /\ session' = NoSession
  /\ UNCHANGED <<db, family, statement>>

Scoped(t) ==
  /\ session # NoSession /\ ~ScopeError(t, session)
  /\ statement' = [by |-> "request", table |-> t]
  /\ UNCHANGED <<family, session>>

\* insertInto(t, values) and, with a chained values(), what the caller says,
\* which must agree with the context.
ScopedInsert(t) ==
  /\ Scoped(t) /\ Extra < MaxRows
  /\ \E r \in Rows(t) :
       \/ Insert(t, Stamp(t, session, r))
       \/ InScope(t, session, r) /\ Insert(t, r)

\* deleteFrom and updateTable, where id is anything.
ScopedDelete(t) ==
  /\ Scoped(t)
  /\ \E r \in db[t] \ Chain[t] : InScope(t, session, r) /\ Delete(t, {r})

ScopedUpdate(t) ==
  /\ Scoped(t)
  /\ \E r \in db[t], c \in Schema[t].optional : \E v \in Candidates(t, c) :
       InScope(t, session, r) /\ Update(t, {r}, c, v)

-----------------------------------------------------------------------------
(* unsafeUnscoped: whatever the application role may write, in any tenant. *)
Unscoped(t) ==
  /\ statement' = [by |-> "unscoped", table |-> t]
  /\ UNCHANGED <<family, session>>

UnscopedInsert(t) ==
  /\ Unscoped(t) /\ Extra < MaxRows
  /\ \E r \in Rows(t) : Insert(t, r)

UnscopedDelete(t) == Unscoped(t) /\ \E r \in db[t] : Delete(t, {r})

TenantNext ==
  \/ \E ctx \in Principals :
       EnterTenant(ctx) \/ \E p \in Ids("projects") : Enter(ctx, p)
  \/ Leave
  \/ \E t \in family :
       \/ t \in TenantOwnedTables
          /\ (ScopedInsert(t) \/ ScopedDelete(t) \/ ScopedUpdate(t))
       \/ UnscopedInsert(t) \/ UnscopedDelete(t)

TenantSpec == TenantInit /\ [][TenantNext]_tenantVars

-----------------------------------------------------------------------------
ASSUME TenantAssumption ==
  /\ DOMAIN Chain = TableNames /\ Consistent(Chain) /\ Unique(Chain)
  /\ Families \subseteq SUBSET TableNames
  /\ \A ctx \in Principals :
       /\ DOMAIN ctx = {"tenant", "application", "project", "access"}
       /\ ctx.tenant # Null /\ ctx.project = Null

(***************************************************************************)
(* "A cross-tenant parent/child mismatch is unrepresentable" (the tenancy  *)
(* chain), and so is one across projects (ADR-022 point 2) or, for a key's *)
(* and a grant's projects, across applications: whatever statements ran,   *)
(* a row and the row its reference names by id agree on the scope columns  *)
(* both have.                                                              *)
(***************************************************************************)
ScopeOf == {"tenant_id", "application_id", "project_id"}

ReferencesStayInScope ==
  \A t \in TableNames : \A r \in db[t] :
    \A c \in DOMAIN r \cap DOMAIN TableOf :
      r[c] # Null =>
        \E p \in db[TableOf[c]] :
          /\ p.id = r[c]
          /\ \A s \in ScopeOf \cap DOMAIN r \cap DOMAIN p : s # c => r[s] = p[s]

Changed(t) == (db[t] \ db'[t]) \cup (db'[t] \ db[t])

(***************************************************************************)
(* A request changes rows of its key's tenant only and, through a          *)
(* project-owned table, only rows of the project in its path, which        *)
(* belongs to its key's application and coverage; what its deletes take    *)
(* along included.                                                         *)
(***************************************************************************)
RequestStaysInReach ==
  \A t \in TableNames : \A r \in Changed(t) :
    /\ t = "tenants" \/ r.tenant_id = session.tenant
    /\ {t, statement'.table} \subseteq ProjectOwnedTables =>
         /\ r.project_id = session.project
         /\ session.access = {"all"} \/ r.project_id \in session.access
         /\ \E p \in db["projects"] :
              p.id = r.project_id /\ p.application_id = session.application

RequestsStayInReach ==
  [][statement'.by = "request" /\ db' # db => RequestStaysInReach]_tenantVars

ErasedByName ==
  \A t \in {"asset_versions", "image_derivatives", "audit_logs"} :
    \A r \in db[t] \ db'[t] : t # "audit_logs" /\ statement'.table = t

(***************************************************************************)
(* Rows that point to an object in storage go only when a statement        *)
(* deletes them by name ("the purge must delete the object before the row, *)
(* never lose the pointer to it"), and the application's statements take   *)
(* no audit entry: neither is taken along by the deletion of another row.  *)
(***************************************************************************)
NothingIsErasedSilently == [][ErasedByName]_tenantVars
=============================================================================
