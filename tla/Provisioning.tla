---------------------------- MODULE Provisioning ----------------------------
(***************************************************************************)
(* The operator's command that creates a tenant with its first             *)
(* application, project and API key (provision.ts,                         *)
(* tenancy.provisioning.ts).  The tenant and its key are two transactions, *)
(* commands may race for a slug, and any of them may stop between two of   *)
(* its steps: an error, a kill, or a commit whose answer is lost.          *)
(***************************************************************************)
EXTENDS Naturals, FiniteSets

CONSTANTS
  Commands,    \* invocations; each draws the ids of its rows (newId)
  Slugs,
  Permissions, \* isPermission
  Unknown      \* a permission that is none

VARIABLES
  step,   \* step[c]: where invocation c is, or how it exited
  asked,  \* asked[c]: its arguments
  tables, \* committed rows, by table; a row names the invocation it is from
  told    \* the keys whose plaintext was printed, with what was asked for

provisionVars == <<step, asked, tables, told>>

Missing == "missing"
Arguments == [slug : Slugs \cup {Missing},
              permissions : SUBSET (Permissions \cup {Unknown}) \ {{}}]
Exits == {"success", "failed", "usage"}

ProvisionInit ==
  /\ step = [c \in Commands |-> "new"]
  /\ asked \in [Commands -> Arguments]
  /\ tables = [tenants |-> {}, applications |-> {}, projects |-> {},
               api_keys |-> {}, audit_logs |-> {}]
  /\ told = {}

Goes(c, from, to) == step[c] = from /\ step' = [step EXCEPT ![c] = to]

WellFormed(c) ==
  asked[c].slug # Missing /\ asked[c].permissions \subseteq Permissions

Parse(c) ==
  /\ Goes(c, "new", IF WellFormed(c) THEN "parsed" ELSE "usage")
  /\ UNCHANGED <<asked, tables, told>>

\* parseConfig, the connection, or a slug or name that its check refuses.
Fails(c) ==
  /\ Goes(c, "parsed", "failed")
  /\ UNCHANGED <<asked, tables, told>>

Taken(slug) == \E row \in tables.tenants : row.slug = slug
Inserting(slug) ==
  \E d \in Commands : step[d] = "inserted" /\ asked[d].slug = slug

\* insert into tenants.  tenants_slug_uk waits for a transaction that has
\* inserted the same slug, and fails once it has committed.
InsertTenant(c) ==
  /\ ~Inserting(asked[c].slug)
  /\ Goes(c, "parsed", IF Taken(asked[c].slug) THEN "failed" ELSE "inserted")
  /\ UNCHANGED <<asked, tables, told>>

TenantRow(c) == [of |-> c, slug |-> asked[c].slug]
ChildRow(c, tenant) == [of |-> c, tenant |-> tenant]
AuditRow(c, action) == [of |-> c, tenant |-> c, action |-> action]

\* A tenant that commits alone, its application and project after it.
CommitTenant_Alone(c) ==
  /\ Goes(c, "inserted", "committed")
  /\ tables' = [tables EXCEPT !.tenants = @ \cup {TenantRow(c)}]
  /\ UNCHANGED <<asked, told>>

\* The application, the project and the audit entry, and COMMIT.
CommitTenant(c) ==
  /\ Goes(c, "inserted", "committed")
  /\ tables' = [tables EXCEPT
       !.tenants = @ \cup {TenantRow(c)},
       !.applications = @ \cup {ChildRow(c, c)},
       !.projects = @ \cup {ChildRow(c, c)},
       !.audit_logs = @ \cup {AuditRow(c, "tenant.provisioned")}]
  /\ UNCHANGED <<asked, told>>

\* apiKeys.create as the system, which is exempt from the grant check.
CreateKey(c) ==
  /\ Goes(c, "committed", "keyed")
  /\ \E row \in tables.applications : row.of = c /\ row.tenant = c
  /\ tables' = [tables EXCEPT
       !.api_keys = @ \cup {[of |-> c, tenant |-> c,
                             permissions |-> asked[c].permissions]},
       !.audit_logs = @ \cup {AuditRow(c, "api_key.created")}]
  /\ UNCHANGED <<asked, told>>

\* The key is printed; closing the pool after it may still fail.
ShowKey(c) ==
  /\ Goes(c, "keyed", "success") \/ Goes(c, "keyed", "failed")
  /\ told' = told \cup {[of |-> c, asked |-> asked[c]]}
  /\ UNCHANGED <<asked, tables>>

\* The command ends here; an open transaction rolls back.
Stop(c) ==
  /\ \E at \in {"inserted", "committed", "keyed"} : Goes(c, at, "stopped")
  /\ UNCHANGED <<asked, tables, told>>

ProvisionNext ==
  \E c \in Commands :
    \/ Parse(c) \/ Fails(c) \/ InsertTenant(c) \/ CommitTenant(c)
    \/ CreateKey(c) \/ ShowKey(c) \/ Stop(c)

ProvisionSpec == ProvisionInit /\ [][ProvisionNext]_provisionVars

-----------------------------------------------------------------------------
From(table, c) == {row \in tables[table] : row.of = c}

(***************************************************************************)
(* However commands race and wherever they stop: a slug has one tenant;    *)
(* a tenant has its application, its project and its audit entry from the  *)
(* moment it exists; a key and its entry exist together; who is shown a    *)
(* key has a tenant under the slug asked for and a key of it with exactly  *)
(* the permissions asked for; and a tenant is left without a shown key     *)
(* only by a command that was stopped, the one case in which its slug is   *)
(* taken and no key can be had (provisionTenant's two transactions).       *)
(***************************************************************************)
ProvisioningIsWhole ==
  /\ \A s \in Slugs :
       Cardinality({row \in tables.tenants : row.slug = s}) <= 1
  /\ \A row \in tables.tenants :
       LET c == row.of
       IN /\ From("applications", c) # {} /\ From("projects", c) # {}
          /\ AuditRow(c, "tenant.provisioned") \in tables.audit_logs
          /\ step[c] \in Exits => \E t \in told : t.of = c
  /\ \A c \in Commands :
       From("api_keys", c) # {} <=>
         AuditRow(c, "api_key.created") \in tables.audit_logs
  /\ \A t \in told :
       /\ [of |-> t.of, slug |-> t.asked.slug] \in tables.tenants
       /\ [of |-> t.of, tenant |-> t.of, permissions |-> t.asked.permissions]
            \in tables.api_keys
=============================================================================
