-------------------------- MODULE MCConfiguration --------------------------
(***************************************************************************)
(* Deployments for TLC: the variables of one provider, and what they       *)
(* depend on, take every value; the others have the values they need.      *)
(***************************************************************************)
EXTENDS Configuration, TLC

\* Functions of some of the variables, to some of the values.
Partial(variables, values) ==
  UNION {[given -> values] : given \in SUBSET variables}

ProviderVariables(p) ==
  CASE p = "local" -> {"STORAGE_LOCAL_ROOT"}
    [] p = "s3" -> {"STORAGE_S3_BUCKET"} \cup S3Pair
    [] p = "azure-blob" -> RequiredBy(p, TRUE)
    [] p = "sftp" -> RequiredBy(p, TRUE) \cup SftpSecrets
    [] p = "webdav" -> {"STORAGE_WEBDAV_URL", "STORAGE_WEBDAV_USERNAME"}

\* sftp has the most variables; what is wrong with a value does not differ.
ProviderValues(p) ==
  CASE p = "sftp" -> {"ok"}
    [] p = "s3" -> {"ok", ""}
    [] OTHER -> {"ok", "bad", ""}

Needed ==
  [v \in {"DATABASE_URL", "REDIS_URL", "API_KEY_PEPPER"} \cup ProxyVariables
     |-> "ok"]

NodeEnvSettings ==
  {<<>>} \cup {"NODE_ENV" :> value : value \in {"production", "alien", ""}}

ProviderSettings ==
  UNION {{("STORAGE_PROVIDER" :> p) @@ s :
            s \in Partial(ProviderVariables(p), ProviderValues(p))} :
         p \in StorageProviders}

\* Around a provider: one thing that is wrong elsewhere, or nothing.
Elsewhere ==
  {<<>>, "API_KEY_PEPPER" :> "example", "API_KEY_PEPPER" :> "bad",
   "DATABASE_URL" :> "", "DATABASE_POOL_MAX" :> "bad",
   "DATABASE_POOL_MAX" :> "alien", "PUBLIC_BASE_URL" :> "",
   "STORAGE_PROXY_SIGNING_SECRET" :> "bad"}

Files ==
  {NoFile, Needed, "NODE_ENV" :> "production",
   Needed @@ ("STORAGE_PROVIDER" :> "s3") @@ ("STORAGE_S3_BUCKET" :> ""),
   Needed @@ ("API_KEY_PEPPER" :> "example") @@ ("DATABASE_URL" :> "")}

BoundedDeployments ==
  {[program |-> p, env |-> e @@ n @@ s @@ Needed, dotenv |-> NoFile] :
     p \in {"api", "worker"}, e \in Elsewhere, n \in NodeEnvSettings,
     s \in ProviderSettings}
  \cup
  {[program |-> p, env |-> e @@ n, dotenv |-> f] :
     p \in DOMAIN Schemas, e \in Elsewhere, n \in NodeEnvSettings, f \in Files}

\* Only the variables that are marked as required.
Bare == {[program |-> p,
          env |-> Restrict(Needed,
                    {v \in DOMAIN Needed \cap DOMAIN Schemas[p] :
                       Schemas[p][v].unset = Required}),
          dotenv |-> NoFile] : p \in DOMAIN Schemas}
=============================================================================
