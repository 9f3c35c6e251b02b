---------------------------- MODULE MCComponents ----------------------------
(***************************************************************************)
(* The components that share no state with each other, in one run: a       *)
(* behaviour works on one of them, and the others rest in one of their     *)
(* initial states.  So the run has the sum of their states, not the        *)
(* product, and each component's properties are checked on all of its own. *)
(***************************************************************************)
EXTENDS MCTransformParams, FailureLimiter, ApiProcess, ProxyTokens,
        TenantDatabase, Provisioning, MCConfiguration

VARIABLE component

vars == <<component, transformVars, limiterVars, apiVars, proxyVars,
          tenantVars, provisionVars, configVars>>

-----------------------------------------------------------------------------
(* TenantDatabase: two tenants, one with two applications and three        *)
(* projects; the tables that one behaviour works on.                       *)
Child(i, t) == [id |-> i, tenant_id |-> t]
ProjectIn(i, a, t) == [id |-> i, application_id |-> a, tenant_id |-> t]

BoundedChain ==
  [t \in TableNames |->
     CASE t = "tenants" -> {[id |-> "acme", slug |-> "acme"],
                            [id |-> "bolt", slug |-> "bolt"]}
       [] t = "applications" -> {Child("shop", "acme"), Child("blog", "acme"),
                                 Child("app", "bolt")}
       [] t = "projects" -> {ProjectIn("p1", "shop", "acme"),
                             ProjectIn("p2", "shop", "acme"),
                             ProjectIn("p3", "blog", "acme"),
                             ProjectIn("p4", "app", "bolt")}
       [] OTHER -> {}]

BoundedFamilies ==
  {{"folders", "assets"}, {"assets", "asset_versions", "image_derivatives"},
   {"assets", "tags", "asset_tags"},
   {"assets", "collections", "collection_assets"},
   {"assets", "asset_metadata", "folders"},
   {"users", "role_assignments", "projects"},
   {"users", "api_keys", "api_key_projects"},
   {"webhooks", "webhook_deliveries"},
   {"projects", "usage", "idempotency_keys"},
   {"tenants", "quota_overrides", "usage_event_ledger"},
   {"applications", "audit_logs", "tenants"}}

BoundedIds ==
  [t \in TableNames |->
     CASE t \in {"tenants", "applications", "projects"} -> {}
       [] t \in {"folders", "assets"} -> {"x", "y"}
       [] OTHER -> {"x"}]

KeyOf(projects) == [tenant |-> "acme", application |-> "shop",
                    project |-> Null, access |-> projects]

BoundedPrincipals == {KeyOf({"all"}), KeyOf({"p1", "p3"})}

-----------------------------------------------------------------------------
TransformRests ==
  /\ query = <<>> /\ result = Pending
  /\ context = CHOOSE c \in BoundedContexts : TRUE

TenantRests ==
  /\ family = CHOOSE f \in BoundedFamilies : TRUE
  /\ TenantInit

ProvisionRests ==
  /\ asked = [c \in Commands |-> CHOOSE a \in Arguments : TRUE]
  /\ ProvisionInit

ConfigRests ==
  /\ program = "migrate" /\ env = <<>> /\ dotenv = NoFile
  /\ outcome = "stopped" /\ report = {} /\ failures = 0
  /\ config = NoConfig

Init ==
  /\ component \in {"transform", "limiter", "api", "proxy", "tenants",
                    "provisioning", "configuration"}
  /\ IF component = "transform" THEN TransformInit ELSE TransformRests
  /\ IF component = "tenants" THEN TenantInit ELSE TenantRests
  /\ IF component = "provisioning" THEN ProvisionInit ELSE ProvisionRests
  /\ IF component = "configuration" THEN ConfigInit ELSE ConfigRests
  /\ LimiterInit /\ ApiInit /\ ProxyInit

Transform ==
  /\ component = "transform" /\ Answer
  /\ UNCHANGED <<component, limiterVars, apiVars, proxyVars, tenantVars,
                 provisionVars, configVars>>

Limiter ==
  /\ component = "limiter" /\ LimiterNext
  /\ UNCHANGED <<component, transformVars, apiVars, proxyVars, tenantVars,
                 provisionVars, configVars>>

Api ==
  /\ component = "api" /\ ApiNext
  /\ UNCHANGED <<component, transformVars, limiterVars, proxyVars,
                 tenantVars, provisionVars, configVars>>

Proxy ==
  /\ component = "proxy" /\ ProxyNext
  /\ UNCHANGED <<component, transformVars, limiterVars, apiVars, tenantVars,
                 provisionVars, configVars>>

Tenants ==
  /\ component = "tenants" /\ TenantNext
  /\ UNCHANGED <<component, transformVars, limiterVars, apiVars, proxyVars,
                 provisionVars, configVars>>

Provision ==
  /\ component = "provisioning" /\ ProvisionNext
  /\ UNCHANGED <<component, transformVars, limiterVars, apiVars, proxyVars,
                 tenantVars, configVars>>

Configure ==
  /\ component = "configuration" /\ ConfigNext
  /\ UNCHANGED <<component, transformVars, limiterVars, apiVars, proxyVars,
                 tenantVars, provisionVars>>

Next ==
  \/ Transform \/ Limiter \/ Api \/ Proxy \/ Tenants \/ Provision
  \/ Configure

\* ApiFairness asks nothing of the other behaviours: in its initial state
\* the API process has no fair step to take.
Spec == Init /\ [][Next]_vars /\ ApiFairness
=============================================================================
