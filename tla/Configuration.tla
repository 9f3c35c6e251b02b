--------------------------- MODULE Configuration ---------------------------
(***************************************************************************)
(* How a program reads its configuration (load-config.ts, fragments.ts,    *)
(* and the schemas of the api, the worker, provision and migrate), and the *)
(* operator who starts it, reads the report and repairs what it names.     *)
(*                                                                         *)
(* A value is what the schema makes of it: "ok" passes; "bad" has the type *)
(* and fails a check on it (a pattern, a length, a range); "alien" has not *)
(* the type (no number, not of the enumeration); "" is the empty string;   *)
(* "example" is the pepper of .env.example.                                *)
(***************************************************************************)
EXTENDS Naturals, Functions

CONSTANTS
  Deployments, \* what an operator may start: [program, env, dotenv]
  NoFile       \* no .env file

VARIABLES
  program,  \* api, worker, provision or migrate
  env,      \* the process environment: a function of the variables it sets
  dotenv,   \* the .env file beside the program: a function, or NoFile
  outcome,    \* "stopped", "refused", "threw" or "running"
  report,   \* the variables that the last ConfigError named
  failures, \* how many times the program refused to start (history)
  config    \* the values it runs with, by variable, and its storage

configVars == <<program, env, dotenv, outcome, report, failures, config>>

-----------------------------------------------------------------------------
(* The schemas.  A field has the values it accepts and what it is when     *)
(* unset: a default, undefined, or an issue (Required).                    *)
Required == "required"
Undefined == "undefined"
Default == "default"

Field(values, unset) == [values |-> values, unset |-> unset]
Fields(variables, unset) == [v \in variables |-> Field({"ok"}, unset)]
Only(variable, field) == [v \in {variable} |-> field]

\* What f says, and what g says where f says nothing.
Over(f, g) ==
  [v \in DOMAIN f \cup DOMAIN g |-> IF v \in DOMAIN f THEN f[v] ELSE g[v]]

NodeEnvs == {"development", "test", "production"}
StorageProviders == {"local", "s3", "azure-blob", "sftp", "webdav"}
NativePresignProviders == {"s3", "azure-blob"}

ProcessFragment ==
  Over(Fields({"LOG_LEVEL", "SERVICE_VERSION"}, Default),
       Only("NODE_ENV", Field(NodeEnvs, "development")))

DatabaseFragment ==
  Over(Fields({"DATABASE_URL"}, Required),
       Fields({"DATABASE_POOL_MAX", "DATABASE_STATEMENT_TIMEOUT_MS"}, Default))

RedisFragment == Fields({"REDIS_URL"}, Required)

CredentialsFragment ==
  Only("API_KEY_PEPPER", Field({"ok", "example"}, Required))

StorageFragment ==
  Over(Only("STORAGE_PROVIDER", Field(StorageProviders, "local")),
  Over(Fields({"STORAGE_S3_REGION", "STORAGE_S3_FORCE_PATH_STYLE",
               "STORAGE_SFTP_PORT", "STORAGE_SFTP_ROOT",
               "STORAGE_WEBDAV_ROOT"}, Default),
       Fields({"STORAGE_LOCAL_ROOT",
               "STORAGE_S3_ENDPOINT", "STORAGE_S3_BUCKET",
               "STORAGE_S3_ACCESS_KEY_ID", "STORAGE_S3_SECRET_ACCESS_KEY",
               "STORAGE_AZURE_ACCOUNT_NAME", "STORAGE_AZURE_ACCOUNT_KEY",
               "STORAGE_AZURE_CONTAINER", "STORAGE_AZURE_ENDPOINT",
               "STORAGE_SFTP_HOST", "STORAGE_SFTP_USERNAME",
               "STORAGE_SFTP_PASSWORD", "STORAGE_SFTP_PRIVATE_KEY",
               "STORAGE_SFTP_HOST_KEY_SHA256",
               "STORAGE_WEBDAV_URL", "STORAGE_WEBDAV_USERNAME",
               "STORAGE_WEBDAV_PASSWORD",
               "STORAGE_PROXY_SIGNING_SECRET", "PUBLIC_BASE_URL"},
              Undefined)))

ServerFragment ==
  Over(ProcessFragment,
       Over(DatabaseFragment, Over(RedisFragment, StorageFragment)))

WorkerSchema ==
  Over(ServerFragment,
       Fields({"WORKER_IMAGE_CONCURRENCY", "WORKER_WEBHOOK_CONCURRENCY",
               "WORKER_USAGE_CONCURRENCY"}, Default))

ApiSchema ==
  Over(ServerFragment,
       Over(CredentialsFragment, Fields({"HTTP_HOST", "HTTP_PORT"}, Default)))

ProvisionSchema ==
  Over(ProcessFragment, Over(DatabaseFragment, CredentialsFragment))

Schemas ==
  [api |-> ApiSchema, worker |-> WorkerSchema,
   provision |-> ProvisionSchema, migrate |-> DatabaseFragment]

ASSUME DeploymentsAssumption ==
  \A d \in Deployments : d.program \in DOMAIN Schemas

-----------------------------------------------------------------------------
(* The cross-field rules: the variables they name, given parsed values.    *)
RefineCredentials(e) ==
  IF e["NODE_ENV"] = "production" /\ e["API_KEY_PEPPER"] = "example"
  THEN {"API_KEY_PEPPER"} ELSE {}

RequiredBy(provider, production) ==
  CASE provider = "local" ->
         IF production THEN {"STORAGE_LOCAL_ROOT"} ELSE {}
    [] provider = "s3" -> {"STORAGE_S3_BUCKET"}
    [] provider = "azure-blob" ->
         {"STORAGE_AZURE_ACCOUNT_NAME", "STORAGE_AZURE_ACCOUNT_KEY",
          "STORAGE_AZURE_CONTAINER"}
    [] provider = "sftp" ->
         {"STORAGE_SFTP_HOST", "STORAGE_SFTP_USERNAME"} \cup
         (IF production THEN {"STORAGE_SFTP_HOST_KEY_SHA256"} ELSE {})
    [] provider = "webdav" -> {"STORAGE_WEBDAV_URL"}
    [] OTHER -> {}

Unset(e, variables) == {v \in variables : e[v] = Undefined}

S3Pair == {"STORAGE_S3_ACCESS_KEY_ID", "STORAGE_S3_SECRET_ACCESS_KEY"}
ProxyVariables == {"STORAGE_PROXY_SIGNING_SECRET", "PUBLIC_BASE_URL"}
SftpSecrets == {"STORAGE_SFTP_PASSWORD", "STORAGE_SFTP_PRIVATE_KEY"}

RefineStorage(e) ==
  LET provider == e["STORAGE_PROVIDER"]
  IN Unset(e, RequiredBy(provider, e["NODE_ENV"] = "production"))
     \cup (IF provider = "sftp" /\ Unset(e, SftpSecrets) = SftpSecrets
           THEN {"STORAGE_SFTP_PASSWORD"} ELSE {})
     \cup (IF Unset(e, S3Pair) = S3Pair THEN {} ELSE Unset(e, S3Pair))
     \cup (IF provider \in NativePresignProviders
           THEN {} ELSE Unset(e, ProxyVariables))

\* A plausible slip: the api's own rules take the place of the shared ones.
Refine_Replaced(p, e) ==
  IF p \in {"api", "provision"} THEN RefineCredentials(e)
  ELSE IF p = "worker" THEN RefineStorage(e) ELSE {}

Refine(p, e) ==
  CASE p = "api" -> RefineStorage(e) \cup RefineCredentials(e)
    [] p = "worker" -> RefineStorage(e)
    [] p = "provision" -> RefineCredentials(e)
    [] p = "migrate" -> {}

-----------------------------------------------------------------------------
(* parseConfig and withDotEnv.                                             *)
WithoutEmpty(raw) == Restrict(raw, {v \in DOMAIN raw : raw[v] # ""})

Production(raw) ==
  "NODE_ENV" \in DOMAIN raw /\ raw["NODE_ENV"] = "production"

\* A plausible slip: the file wins over the environment.
WithDotEnv_FileWins(raw, file) ==
  IF Production(raw) \/ file = NoFile THEN raw ELSE Over(file, raw)

\* Another: the file is read in production too.
WithDotEnv_Always(raw, file) == IF file = NoFile THEN raw ELSE Over(raw, file)

WithDotEnv(raw, file) ==
  IF Production(raw) \/ file = NoFile THEN raw ELSE Over(raw, file)

Invalid(schema, raw) ==
  {v \in DOMAIN schema :
     IF v \in DOMAIN raw THEN raw[v] \notin schema[v].values
                         ELSE schema[v].unset = Required}

Parsed(schema, raw) ==
  [v \in DOMAIN schema |-> IF v \in DOMAIN raw THEN raw[v]
                                               ELSE schema[v].unset]

\* zod runs the cross-field rules although a check failed, but not when a
\* value is missing or has not its type.
Aborts(variables, raw) ==
  \E v \in variables : v \in DOMAIN raw => raw[v] = "alien"

Issues(p, raw) ==
  LET schema == Schemas[p]
      invalid == Invalid(schema, raw)
  IN IF Aborts(invalid, raw)
     THEN invalid ELSE invalid \cup Refine(p, Parsed(schema, raw))

-----------------------------------------------------------------------------
(* toStorageConfig: the variables that present insists on, and the         *)
(* configuration it makes of the others.                                   *)
Presents(provider) ==
  CASE provider = "s3" ->
         {"STORAGE_S3_BUCKET", "STORAGE_S3_REGION",
          "STORAGE_S3_FORCE_PATH_STYLE"}
    [] provider = "azure-blob" ->
         {"STORAGE_AZURE_ACCOUNT_NAME", "STORAGE_AZURE_ACCOUNT_KEY",
          "STORAGE_AZURE_CONTAINER"}
    [] provider = "sftp" ->
         {"STORAGE_SFTP_HOST", "STORAGE_SFTP_PORT", "STORAGE_SFTP_USERNAME",
          "STORAGE_SFTP_ROOT"}
    [] provider = "webdav" -> {"STORAGE_WEBDAV_URL", "STORAGE_WEBDAV_ROOT"}
    [] OTHER -> {}

\* credentials and root stand for the fields that are not passed on as read.
ToStorageConfig(e) ==
  LET provider == e["STORAGE_PROVIDER"]
  IN [provider |-> provider,
      passed |-> {v \in Presents(provider) \cup SftpSecrets \cup
                    {"STORAGE_SFTP_HOST_KEY_SHA256"} : e[v] # Undefined},
      static |-> provider = "s3" /\ Unset(e, S3Pair) = {},
      root |-> IF e["STORAGE_LOCAL_ROOT"] = Undefined
               THEN Default ELSE e["STORAGE_LOCAL_ROOT"]]

Throws(e) == Unset(e, Presents(e["STORAGE_PROVIDER"])) # {}

HasStorage(p) == p \in {"api", "worker"}
NoStorage == [provider |-> Undefined]
NoConfig == [values |-> <<>>, storage |-> NoStorage]

-----------------------------------------------------------------------------
ConfigInit ==
  /\ \E d \in Deployments :
       program = d.program /\ env = d.env /\ dotenv = d.dotenv
  /\ outcome = "stopped" /\ report = {} /\ failures = 0 /\ config = NoConfig

\* What parseConfig validates.
Given == WithoutEmpty(WithDotEnv(env, dotenv))

\* The ConfigError names its variables and the process exits with 1.
Refuse ==
  /\ outcome = "stopped" /\ Issues(program, Given) # {}
  /\ outcome' = "refused"
  /\ report' = Issues(program, Given)
  /\ failures' = failures + 1
  /\ UNCHANGED <<program, env, dotenv, config>>

Start ==
  LET e == Parsed(Schemas[program], Given)
      threw == HasStorage(program) /\ Throws(e)
  IN /\ outcome = "stopped" /\ Issues(program, Given) = {}
     /\ outcome' = IF threw THEN "threw" ELSE "running"
     /\ config' = IF threw THEN NoConfig
                  ELSE [values |-> e,
                        storage |-> IF HasStorage(program)
                                    THEN ToStorageConfig(e) ELSE NoStorage]
     /\ UNCHANGED <<program, env, dotenv, report, failures>>

Repaired(v, nodeEnv, provider) ==
  CASE v = "NODE_ENV" -> nodeEnv
    [] v = "STORAGE_PROVIDER" -> provider
    [] OTHER -> "ok"

\* The operator gives each variable named a good value, where it counts.
Repair ==
  /\ outcome = "refused"
  /\ \E n \in NodeEnvs, p \in StorageProviders :
       env' = Over([v \in report |-> Repaired(v, n, p)], env)
  /\ outcome' = "stopped" /\ report' = {}
  /\ UNCHANGED <<program, dotenv, failures, config>>

ConfigNext == Refuse \/ Start \/ Repair
ConfigSpec == ConfigInit /\ [][ConfigNext]_configVars

-----------------------------------------------------------------------------
Value(v) == IF v \in DOMAIN config.values THEN config.values[v] ELSE Undefined

(***************************************************************************)
(* A process that starts can work: toStorageConfig "never throws for a     *)
(* parsed configuration" (fragments.ts), no half of a static credential is *)
(* dropped in silence, an SFTP login has a secret, and uploads can be      *)
(* presigned by the provider or through the proxy.                         *)
(***************************************************************************)
ConfigurationIsUsable ==
  /\ outcome # "threw"
  /\ outcome = "running" /\ HasStorage(program) =>
       LET storage == config.storage
       IN /\ storage.provider = "s3" =>
               \A v \in S3Pair : storage.static <=> Value(v) # Undefined
          /\ storage.provider = "sftp" => SftpSecrets \cap storage.passed # {}
          /\ storage.provider \in NativePresignProviders
             \/ Unset(config.values, ProxyVariables) = {}

(***************************************************************************)
(* What a production process never runs with: the published pepper, a      *)
(* directory nobody chose, an SFTP server nobody pinned, or a value that   *)
(* only a stray .env file has (docs/DEVOPS/03, load-config.ts).  The last  *)
(* is promised where the environment itself says production: a process     *)
(* that learns it from the .env file's own NODE_ENV has read that file.    *)
(***************************************************************************)
ProductionIsSafe ==
  /\ outcome = "running" /\ Value("NODE_ENV") = "production" =>
       /\ Value("API_KEY_PEPPER") # "example"
       /\ config.storage.provider = "local" => config.storage.root # Default
       /\ config.storage.provider = "sftp" =>
            "STORAGE_SFTP_HOST_KEY_SHA256" \in config.storage.passed
  /\ outcome = "running" /\ Production(env) =>
       \A v \in DOMAIN config.values \ DOMAIN WithoutEmpty(env) :
         Value(v) = Schemas[program][v].unset

(***************************************************************************)
(* The reports lead somewhere: an operator who repairs what they name is   *)
(* refused at most twice, or three times when a repair of NODE_ENV took    *)
(* the .env file away (parseConfig, withDotEnv).                           *)
(***************************************************************************)
RepairsSuffice == failures <= IF dotenv = NoFile THEN 2 ELSE 3

(***************************************************************************)
(* The test "defaults to local storage under .data/storage outside         *)
(* production" (config.test.ts) and docs/DEVOPS/03: who sets the           *)
(* variables marked as required, and no others, can start.                 *)
(***************************************************************************)
DefaultsAreAccepted ==
  outcome = "refused" =>
    LET schema == Schemas[program]
    IN \/ dotenv # NoFile
       \/ DOMAIN env # {v \in DOMAIN schema : schema[v].unset = Required}
       \/ \E v \in DOMAIN env : env[v] \notin schema[v].values
=============================================================================
