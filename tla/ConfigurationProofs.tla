------------------------ MODULE ConfigurationProofs ------------------------
(***************************************************************************)
(* Proofs about Configuration for every set of deployments: environments   *)
(* and .env files with any variables and any values.                       *)
(***************************************************************************)
EXTENDS Configuration, TLAPS

-----------------------------------------------------------------------------
(***************************************************************************)
(* The schemas                                                             *)
(***************************************************************************)
\* The variables that are one of several words.
Choices == {"NODE_ENV", "STORAGE_PROVIDER"}

Programs == {"api", "worker", "provision", "migrate"}

\* What the cross-field rules may name.
Optional ==
  {"STORAGE_LOCAL_ROOT", "STORAGE_S3_BUCKET", "STORAGE_AZURE_ACCOUNT_NAME",
   "STORAGE_AZURE_ACCOUNT_KEY", "STORAGE_AZURE_CONTAINER",
   "STORAGE_SFTP_HOST", "STORAGE_SFTP_USERNAME",
   "STORAGE_SFTP_HOST_KEY_SHA256", "STORAGE_WEBDAV_URL"}
    \cup S3Pair \cup ProxyVariables \cup SftpSecrets

\* The variables of the storage that have a default.
Defaulted ==
  {"STORAGE_S3_REGION", "STORAGE_S3_FORCE_PATH_STYLE", "STORAGE_SFTP_PORT",
   "STORAGE_SFTP_ROOT", "STORAGE_WEBDAV_ROOT"}

\* Those that have none.
Undefaulted ==
  Optional \cup
  {"STORAGE_S3_ENDPOINT", "STORAGE_AZURE_ENDPOINT",
   "STORAGE_WEBDAV_USERNAME", "STORAGE_WEBDAV_PASSWORD"}

\* A field of a group.
LEMMA FieldsAt ==
  ASSUME NEW S, NEW unset
  PROVE  /\ DOMAIN Fields(S, unset) = S
         /\ \A v \in S : /\ Fields(S, unset)[v].values = {"ok"}
                         /\ Fields(S, unset)[v].unset = unset
BY DEF Fields, Field

\* What the proofs need to know of a field: the values of the two choices,
\* and that every other one takes "ok" and none takes the empty string.
SoundField(v, field) ==
  /\ "" \notin field.values
  /\ v = "NODE_ENV" => field.values = NodeEnvs
  /\ v = "STORAGE_PROVIDER" => field.values = StorageProviders
  /\ v \notin Choices => "ok" \in field.values

Sound(schema) == \A v \in DOMAIN schema : SoundField(v, schema[v])

\* Schemas are put together from fragments; each fragment is sound.
LEMMA SoundOver ==
  ASSUME NEW f, NEW g, Sound(f), Sound(g)
  PROVE  Sound(Over(f, g))
<1>1. SUFFICES ASSUME NEW v \in DOMAIN Over(f, g)
               PROVE  SoundField(v, Over(f, g)[v])
  BY DEF Sound
<1>2. CASE v \in DOMAIN f
  <2>1. Over(f, g)[v] = f[v]  BY <1>2 DEF Over
  <2>2. QED  BY <2>1, <1>2 DEF Sound
<1>3. CASE v \notin DOMAIN f
  <2>1. v \in DOMAIN g  BY <1>3 DEF Over
  <2>2. Over(f, g)[v] = g[v]  BY <1>3, <2>1 DEF Over
  <2>3. QED  BY <2>1, <2>2 DEF Sound
<1>4. QED  BY <1>2, <1>3

\* ... a group of plain fields is,
LEMMA SoundFields ==
  ASSUME NEW S, NEW unset, S \cap Choices = {}
  PROVE  Sound(Fields(S, unset))
<1>1. SUFFICES ASSUME NEW v \in S
               PROVE  SoundField(v, Fields(S, unset)[v])
  BY FieldsAt DEF Sound
<1>2. Fields(S, unset)[v].values = {"ok"}  BY FieldsAt
<1>3. QED  BY <1>2 DEF SoundField, Choices

\* ... and so is a single sound field.
LEMMA SoundOnly ==
  ASSUME NEW v, NEW field, SoundField(v, field)
  PROVE  Sound(Only(v, field))
<1>1. DOMAIN Only(v, field) = {v} /\ Only(v, field)[v] = field  BY DEF Only
<1>2. QED  BY <1>1 DEF Sound

\* So the fragments are sound,
LEMMA SoundFragments ==
  /\ Sound(ProcessFragment) /\ Sound(DatabaseFragment)
  /\ Sound(RedisFragment) /\ Sound(CredentialsFragment)
  /\ Sound(StorageFragment)
<1>1. Sound(ProcessFragment)
  <2>1. SoundField("NODE_ENV", Field(NodeEnvs, "development"))
    BY DEF SoundField, Field, Choices, NodeEnvs
  <2>2. QED
    BY <2>1, SoundOver, SoundOnly, SoundFields DEF ProcessFragment, Choices
<1>2. Sound(DatabaseFragment)
  BY SoundOver, SoundFields DEF DatabaseFragment, Choices
<1>3. Sound(RedisFragment)  BY SoundFields DEF RedisFragment, Choices
<1>4. Sound(CredentialsFragment)
  <2>1. SoundField("API_KEY_PEPPER", Field({"ok", "example"}, Required))
    BY DEF SoundField, Field, Choices
  <2>2. QED  BY <2>1, SoundOnly DEF CredentialsFragment
<1>5. Sound(StorageFragment)
  <2>1. SoundField("STORAGE_PROVIDER", Field(StorageProviders, "local"))
    BY DEF SoundField, Field, Choices, StorageProviders
  <2>2. QED
    BY <2>1, SoundOver, SoundOnly, SoundFields DEF StorageFragment, Choices
<1>6. QED  BY <1>1, <1>2, <1>3, <1>4, <1>5

\* The schema of each program.
LEMMA SchemasAt ==
  /\ DOMAIN Schemas = Programs
  /\ Schemas["api"] = ApiSchema /\ Schemas["worker"] = WorkerSchema
  /\ Schemas["provision"] = ProvisionSchema
  /\ Schemas["migrate"] = DatabaseFragment
BY DEF Schemas, Programs

\* ... and with them the schemas.
LEMMA SoundSchemas ==
  \A p \in DOMAIN Schemas : Sound(Schemas[p])
<1>1. Sound(ServerFragment)
  BY SoundFragments, SoundOver DEF ServerFragment
<1>2. Sound(WorkerSchema)
  BY <1>1, SoundOver, SoundFields DEF WorkerSchema, Choices
<1>3. Sound(Fields({"HTTP_HOST", "HTTP_PORT"}, Default))
  BY SoundFields DEF Choices
<1>4. Sound(ApiSchema)
  BY <1>1, <1>3, SoundFragments, SoundOver DEF ApiSchema
<1>5. Sound(ProvisionSchema)
  BY SoundFragments, SoundOver DEF ProvisionSchema
<1>6. QED
  BY <1>2, <1>4, <1>5, SoundFragments, SchemasAt DEF Programs

\* What storageFragment says of each variable the rules and present look at.
LEMMA StorageAt ==
  /\ Optional \cup Defaulted \cup {"STORAGE_PROVIDER"}
       \subseteq DOMAIN StorageFragment
  /\ \A v \in Optional : /\ StorageFragment[v].unset = Undefined
                         /\ StorageFragment[v].values = {"ok"}
  /\ \A v \in Defaulted : /\ StorageFragment[v].unset = Default
                          /\ StorageFragment[v].values = {"ok"}
  /\ StorageFragment["STORAGE_PROVIDER"].unset = "local"
  /\ "NODE_ENV" \notin DOMAIN StorageFragment
  /\ "API_KEY_PEPPER" \notin DOMAIN StorageFragment
<1> DEFINE P == Only("STORAGE_PROVIDER", Field(StorageProviders, "local"))
           D == Fields(Defaulted, Default)
           U == Fields(Undefaulted, Undefined)
<1>1. StorageFragment = Over(P, Over(D, U))
  BY DEF StorageFragment, Defaulted, Undefaulted, Optional, S3Pair,
         ProxyVariables, SftpSecrets
<1>2. /\ DOMAIN P = {"STORAGE_PROVIDER"}
      /\ P["STORAGE_PROVIDER"].unset = "local"
  BY DEF Only, Field
<1>3. /\ DOMAIN D = Defaulted
      /\ \A v \in Defaulted :
           D[v].unset = Default /\ D[v].values = {"ok"}
  BY FieldsAt
<1>4. /\ DOMAIN U = Undefaulted
      /\ \A v \in Undefaulted :
           U[v].unset = Undefined /\ U[v].values = {"ok"}
  BY FieldsAt
<1> HIDE DEF P, D, U
<1>5. Optional \subseteq Undefaulted
  BY DEF Undefaulted
<1>6. /\ "STORAGE_PROVIDER" \notin Defaulted \cup Undefaulted
      /\ Defaulted \cap Undefaulted = {}
      /\ {"NODE_ENV", "API_KEY_PEPPER"}
           \cap (Defaulted \cup Undefaulted \cup {"STORAGE_PROVIDER"}) = {}
  BY DEF Defaulted, Undefaulted, Optional, S3Pair, ProxyVariables,
         SftpSecrets
<1>7. /\ DOMAIN Over(D, U) = Defaulted \cup Undefaulted
      /\ \A v \in Defaulted : Over(D, U)[v] = D[v]
      /\ \A v \in Undefaulted : Over(D, U)[v] = U[v]
  BY <1>3, <1>4, <1>6 DEF Over
<1>8. /\ DOMAIN StorageFragment =
            {"STORAGE_PROVIDER"} \cup Defaulted \cup Undefaulted
      /\ StorageFragment["STORAGE_PROVIDER"] = P["STORAGE_PROVIDER"]
      /\ \A v \in Defaulted \cup Undefaulted :
           StorageFragment[v] = Over(D, U)[v]
  BY <1>1, <1>2, <1>6, <1>7 DEF Over
<1>9. QED  BY <1>2, <1>3, <1>4, <1>5, <1>6, <1>7, <1>8
\* The variables of the other fragments, which are none of the storage's.
LEMMA SmallFragments ==
  /\ DOMAIN ProcessFragment = {"LOG_LEVEL", "SERVICE_VERSION", "NODE_ENV"}
  /\ ProcessFragment["NODE_ENV"].unset = "development"
  /\ DOMAIN DatabaseFragment =
       {"DATABASE_URL", "DATABASE_POOL_MAX", "DATABASE_STATEMENT_TIMEOUT_MS"}
  /\ DOMAIN RedisFragment = {"REDIS_URL"}
  /\ DOMAIN CredentialsFragment = {"API_KEY_PEPPER"}
BY DEF ProcessFragment, DatabaseFragment, RedisFragment, CredentialsFragment,
       Over, Fields, Only, Field

\* So the api and the worker have the storage's fields unchanged.
LEMMA ServerAt ==
  /\ DOMAIN ServerFragment =
       DOMAIN StorageFragment \cup
       {"LOG_LEVEL", "SERVICE_VERSION", "NODE_ENV", "DATABASE_URL",
        "DATABASE_POOL_MAX", "DATABASE_STATEMENT_TIMEOUT_MS", "REDIS_URL"}
  /\ ServerFragment["NODE_ENV"].unset = "development"
  /\ \A v \in Optional \cup Defaulted \cup {"STORAGE_PROVIDER"} :
       ServerFragment[v] = StorageFragment[v]
<1> DEFINE R == Over(RedisFragment, StorageFragment)
           D == Over(DatabaseFragment, R)
           Own == Optional \cup Defaulted \cup {"STORAGE_PROVIDER"}
<1>1. ServerFragment = Over(ProcessFragment, D)  BY DEF ServerFragment
<1>2. DOMAIN R = {"REDIS_URL"} \cup DOMAIN StorageFragment
  BY SmallFragments DEF Over
<1>3. \A v \in Own : R[v] = StorageFragment[v]
  BY SmallFragments, StorageAt
     DEF Over, Optional, Defaulted, S3Pair, ProxyVariables, SftpSecrets
<1>4. DOMAIN D = DOMAIN DatabaseFragment \cup DOMAIN R  BY DEF Over
<1>5. \A v \in Own : D[v] = R[v]
  BY <1>2, SmallFragments, StorageAt
     DEF Over, Optional, Defaulted, S3Pair, ProxyVariables, SftpSecrets
<1>6. DOMAIN ServerFragment = DOMAIN ProcessFragment \cup DOMAIN D
  BY <1>1 DEF Over
<1>7. \A v \in Own : ServerFragment[v] = D[v]
  BY <1>1, <1>2, <1>4, SmallFragments, StorageAt
     DEF Over, Optional, Defaulted, S3Pair, ProxyVariables, SftpSecrets
<1>8. ServerFragment["NODE_ENV"] = ProcessFragment["NODE_ENV"]
  BY <1>1, SmallFragments DEF Over
<1>9. QED
  BY <1>2, <1>3, <1>4, <1>5, <1>6, <1>7, <1>8, SmallFragments

\* What the programs with a storage have of it.
LEMMA StorageOf ==
  ASSUME NEW p, HasStorage(p)
  PROVE  /\ Optional \cup Defaulted \cup Choices \subseteq DOMAIN Schemas[p]
         /\ \A v \in Optional : /\ Schemas[p][v].unset = Undefined
                                /\ Schemas[p][v].values = {"ok"}
         /\ \A v \in Defaulted : /\ Schemas[p][v].unset = Default
                                 /\ Schemas[p][v].values = {"ok"}
         /\ Schemas[p]["STORAGE_PROVIDER"].unset = "local"
         /\ Schemas[p]["NODE_ENV"].unset = "development"
<1> DEFINE Own == Optional \cup Defaulted \cup Choices
<1>1. /\ Own \subseteq DOMAIN ServerFragment
      /\ ServerFragment["NODE_ENV"].unset = "development"
      /\ ServerFragment["STORAGE_PROVIDER"].unset = "local"
      /\ \A v \in Optional : /\ ServerFragment[v].unset = Undefined
                             /\ ServerFragment[v].values = {"ok"}
      /\ \A v \in Defaulted : /\ ServerFragment[v].unset = Default
                              /\ ServerFragment[v].values = {"ok"}
  BY ServerAt, StorageAt DEF Choices
<1>2. \A v \in Own : v \in DOMAIN Schemas[p]
                     /\ Schemas[p][v] = ServerFragment[v]
  <2>1. CASE p = "api"
    BY <1>1, <2>1, SchemasAt DEF ApiSchema, Over
  <2>2. CASE p = "worker"
    BY <1>1, <2>2, SchemasAt DEF WorkerSchema, Over
  <2>3. QED  BY <2>1, <2>2 DEF HasStorage
<1>3. QED  BY <1>1, <1>2 DEF Choices

\* Who has the pepper, and who does not read NODE_ENV.
LEMMA PepperOf ==
  /\ "API_KEY_PEPPER" \in DOMAIN Schemas["api"]
  /\ {"API_KEY_PEPPER", "NODE_ENV"} \subseteq DOMAIN Schemas["provision"]
  /\ "API_KEY_PEPPER" \notin DOMAIN Schemas["worker"]
  /\ "NODE_ENV" \notin DOMAIN Schemas["migrate"]
<1>1. "API_KEY_PEPPER" \in DOMAIN Schemas["api"]
  BY SchemasAt, SmallFragments DEF ApiSchema, Over
<1>2. {"API_KEY_PEPPER", "NODE_ENV"} \subseteq DOMAIN Schemas["provision"]
  BY SchemasAt, SmallFragments DEF ProvisionSchema, Over
<1>3. "API_KEY_PEPPER" \notin DOMAIN Schemas["worker"]
  <2>1. "API_KEY_PEPPER" \notin DOMAIN ServerFragment
    BY ServerAt, StorageAt
  <2>2. QED  BY <2>1, SchemasAt DEF WorkerSchema, Over, Fields
<1>4. "NODE_ENV" \notin DOMAIN Schemas["migrate"]
  BY SchemasAt, SmallFragments
<1>5. QED  BY <1>1, <1>2, <1>3, <1>4

-----------------------------------------------------------------------------
(***************************************************************************)
(* The cross-field rules                                                   *)
(***************************************************************************)
\* The rules of the storage name variables of the storage that have no default.
LEMMA StorageNames ==
  ASSUME NEW e
  PROVE  RefineStorage(e) \subseteq Optional
<1>1. RequiredBy(e["STORAGE_PROVIDER"], e["NODE_ENV"] = "production")
        \subseteq Optional
  BY DEF RequiredBy, Optional
<1>2. "STORAGE_SFTP_PASSWORD" \in Optional  BY DEF Optional, SftpSecrets
<1>3. S3Pair \cup ProxyVariables \subseteq Optional  BY DEF Optional
<1>4. QED  BY <1>1, <1>2, <1>3 DEF RefineStorage, Unset

\* The rules name variables of the schema, and never one of the choices.
LEMMA RulesName ==
  ASSUME NEW p \in DOMAIN Schemas, NEW e
  PROVE  Refine(p, e) \subseteq DOMAIN Schemas[p] \ Choices
<1>1. Optional \cap Choices = {} /\ "API_KEY_PEPPER" \notin Choices
  BY DEF Optional, Choices, S3Pair, ProxyVariables, SftpSecrets
<1>2. RefineCredentials(e) \subseteq {"API_KEY_PEPPER"}
  BY DEF RefineCredentials
<1>3. CASE p = "api"
  <2>1. Optional \subseteq DOMAIN Schemas[p]
    BY <1>3, StorageOf DEF HasStorage
  <2>2. QED
    BY <1>1, <1>2, <1>3, <2>1, StorageNames, PepperOf DEF Refine
<1>4. CASE p = "worker"
  <2>1. Optional \subseteq DOMAIN Schemas[p]
    BY <1>4, StorageOf DEF HasStorage
  <2>2. QED  BY <1>1, <1>4, <2>1, StorageNames DEF Refine
<1>5. CASE p = "provision"
  BY <1>1, <1>2, <1>5, PepperOf DEF Refine
<1>6. CASE p = "migrate"  BY <1>6 DEF Refine
<1>7. QED  BY <1>3, <1>4, <1>5, <1>6, SchemasAt DEF Programs

\* e2 is e with "ok" where the rules complained.
Mends(e2, e, complaints, variables) ==
  \A v \in variables : e2[v] = IF v \in complaints THEN "ok" ELSE e[v]

\* Doing what the rules of the storage ask for satisfies all of them: none of
\* them asks for more once a variable is set.
LEMMA StorageMet ==
  ASSUME NEW e, NEW e2,
         Mends(e2, e, RefineStorage(e), Optional \cup Choices)
  PROVE  RefineStorage(e2) = {}
<1> DEFINE provider == e["STORAGE_PROVIDER"]
           Needs == RequiredBy(provider, e["NODE_ENV"] = "production")
<1>1. /\ e2["STORAGE_PROVIDER"] = provider
      /\ e2["NODE_ENV"] = e["NODE_ENV"]
  BY StorageNames
     DEF Mends, Optional, Choices, S3Pair, ProxyVariables, SftpSecrets
<1>2. ASSUME NEW v \in Optional,
             v \in RefineStorage(e) \/ e[v] # Undefined
      PROVE  e2[v] # Undefined
  BY <1>2 DEF Mends, Undefined
<1>3. /\ Unset(e, Needs) \subseteq RefineStorage(e)
      /\ Unset(e, S3Pair) # S3Pair
           => Unset(e, S3Pair) \subseteq RefineStorage(e)
      /\ provider = "sftp" /\ Unset(e, SftpSecrets) = SftpSecrets
           => "STORAGE_SFTP_PASSWORD" \in RefineStorage(e)
      /\ provider \notin NativePresignProviders
           => Unset(e, ProxyVariables) \subseteq RefineStorage(e)
  BY DEF RefineStorage
<1>4. Needs \subseteq Optional  BY DEF RequiredBy, Optional
<1>5. Unset(e2, Needs) = {}  BY <1>2, <1>3, <1>4 DEF Unset
<1>6. Unset(e2, S3Pair) = S3Pair \/ Unset(e2, S3Pair) = {}
  <2>1. S3Pair \subseteq Optional  BY DEF Optional
  <2>2. CASE Unset(e, S3Pair) # S3Pair
    BY <1>2, <1>3, <2>1, <2>2 DEF Unset
  <2>3. CASE Unset(e, S3Pair) = S3Pair
    <3>1. S3Pair \cap RefineStorage(e) = {}
      <4>1. S3Pair \cap (Needs \cup SftpSecrets \cup ProxyVariables) = {}
        BY DEF RequiredBy, S3Pair, SftpSecrets, ProxyVariables
      <4>2. "STORAGE_SFTP_PASSWORD" \in SftpSecrets  BY DEF SftpSecrets
      <4>3. QED  BY <2>3, <4>1, <4>2 DEF RefineStorage, Unset
    <3>2. \A v \in S3Pair : e2[v] = e[v]  BY <2>1, <3>1 DEF Mends
    <3>3. QED  BY <2>3, <3>2 DEF Unset
  <2>4. QED  BY <2>2, <2>3
<1>7. provider = "sftp" => Unset(e2, SftpSecrets) # SftpSecrets
  <2>1. /\ SftpSecrets \subseteq Optional
        /\ "STORAGE_SFTP_PASSWORD" \in SftpSecrets
    BY DEF Optional, SftpSecrets
  <2>2. QED  BY <1>2, <1>3, <2>1 DEF Unset
<1>8. provider \notin NativePresignProviders => Unset(e2, ProxyVariables) = {}
  <2>1. ProxyVariables \subseteq Optional  BY DEF Optional
  <2>2. QED  BY <1>2, <1>3, <2>1 DEF Unset
<1>9. QED  BY <1>1, <1>5, <1>6, <1>7, <1>8 DEF RefineStorage

\* The same for the rules of each program.
LEMMA RulesMet ==
  ASSUME NEW p \in DOMAIN Schemas, NEW e, NEW e2,
         Mends(e2, e, Refine(p, e), DOMAIN Schemas[p])
  PROVE  Refine(p, e2) = {}
<1>1. HasStorage(p) => RefineStorage(e2) = {}
  <2>1. SUFFICES ASSUME HasStorage(p)
                 PROVE  Mends(e2, e, RefineStorage(e), Optional \cup Choices)
    BY StorageMet
  <2>2. Optional \cup Choices \subseteq DOMAIN Schemas[p]
    BY <2>1, StorageOf
  <2>3. "API_KEY_PEPPER" \notin Optional \cup Choices
    BY DEF Optional, Choices, S3Pair, ProxyVariables, SftpSecrets
  <2>4. \A v \in Optional \cup Choices :
          v \in Refine(p, e) <=> v \in RefineStorage(e)
    BY <2>1, <2>3 DEF Refine, RefineCredentials, HasStorage
  <2>5. QED  BY <2>2, <2>4 DEF Mends
<1>2. p \in {"api", "provision"} => RefineCredentials(e2) = {}
  <2>1. SUFFICES ASSUME p \in {"api", "provision"}
                 PROVE  RefineCredentials(e2) = {}
    OBVIOUS
  <2>2. {"API_KEY_PEPPER", "NODE_ENV"} \subseteq DOMAIN Schemas[p]
    BY <2>1, PepperOf, StorageOf DEF HasStorage, Choices
  <2>3. e2["NODE_ENV"] = e["NODE_ENV"]
    BY <2>2, RulesName DEF Mends, Choices
  <2>4. e2["API_KEY_PEPPER"] = "example" =>
          /\ "API_KEY_PEPPER" \notin Refine(p, e)
          /\ e["API_KEY_PEPPER"] = "example"
    BY <2>2 DEF Mends
  <2>5. RefineCredentials(e) \subseteq Refine(p, e)  BY <2>1 DEF Refine
  <2>6. QED  BY <2>3, <2>4, <2>5 DEF RefineCredentials
<1>3. QED  BY <1>1, <1>2, SchemasAt DEF Refine, HasStorage, Programs

-----------------------------------------------------------------------------
(***************************************************************************)
(* The invariant                                                           *)
(***************************************************************************)
\* How many more reports there can be: the rules' alone; one that names the
\* values too; one more when a repair of NODE_ENV may take the file away.
LeftOf(p, raw, file) ==
  IF Issues(p, raw) = {} THEN 0
  ELSE IF Invalid(Schemas[p], raw) = {} THEN 1
  ELSE IF file = NoFile \/ "NODE_ENV" \notin Invalid(Schemas[p], raw)
       THEN 2 ELSE 3

Left == LeftOf(program, Given, dotenv)

\* RepairsSuffice.
Bound == IF dotenv = NoFile THEN 2 ELSE 3

\* The reports so far and those to come are not more than the bound, and what
\* was reported is what is still wrong.
Reports ==
  /\ failures \in Nat
  /\ outcome = "stopped" => failures + Left <= Bound
  /\ outcome = "refused" => /\ report = Issues(program, Given)
                            /\ report # {}
                            /\ failures + Left <= Bound + 1
  /\ outcome = "running" => failures <= Bound

\* What runs is what the schema made of variables that nothing was wrong with.
Runs ==
  outcome = "running" =>
    /\ Issues(program, Given) = {}
    /\ config = [values |-> Parsed(Schemas[program], Given),
                 storage |-> IF HasStorage(program)
                   THEN ToStorageConfig(Parsed(Schemas[program], Given))
                   ELSE NoStorage]

\* And nothing throws.
ConfigInv ==
  /\ program \in DOMAIN Schemas
  /\ outcome \in {"stopped", "refused", "running"}
  /\ Reports
  /\ Runs

\* Nothing is reported when no value is wrong and no rule complains.
LEMMA NoIssues ==
  ASSUME NEW p, NEW raw
  PROVE  Issues(p, raw) = {} <=>
           /\ Invalid(Schemas[p], raw) = {}
           /\ Refine(p, Parsed(Schemas[p], raw)) = {}
BY DEF Issues, Aborts

\* A report names every wrong value, and variables of the schema only; a
\* choice is named only when its value is wrong.
LEMMA IssuesAreNamed ==
  ASSUME NEW p \in DOMAIN Schemas, NEW raw
  PROVE  /\ Invalid(Schemas[p], raw) \subseteq Issues(p, raw)
         /\ Issues(p, raw) \subseteq DOMAIN Schemas[p]
         /\ Issues(p, raw) \cap Choices \subseteq Invalid(Schemas[p], raw)
         /\ Invalid(Schemas[p], raw) = {} =>
              Issues(p, raw) = Refine(p, Parsed(Schemas[p], raw))
<1>1. Refine(p, Parsed(Schemas[p], raw)) \subseteq DOMAIN Schemas[p] \ Choices
  BY RulesName
<1>2. Invalid(Schemas[p], raw) \subseteq DOMAIN Schemas[p]  BY DEF Invalid
<1>3. QED  BY <1>1, <1>2 DEF Issues, Aborts

\* present never finds a variable missing: the rules ask for it, or it has a
\* default.
LEMMA NeverThrows ==
  ASSUME NEW p \in DOMAIN Schemas, NEW raw, HasStorage(p),
         Issues(p, raw) = {}
  PROVE  ~Throws(Parsed(Schemas[p], raw))
<1> DEFINE e == Parsed(Schemas[p], raw)
           provider == e["STORAGE_PROVIDER"]
           Needs == RequiredBy(provider, e["NODE_ENV"] = "production")
<1>1. RefineStorage(e) = {}  BY NoIssues DEF Refine, HasStorage
<1>2. Presents(provider) \subseteq Needs \cup Defaulted
  BY DEF Presents, RequiredBy, Defaulted
<1>3. Unset(e, Needs) = {}  BY <1>1 DEF RefineStorage
<1>4. ASSUME NEW v \in Defaulted  PROVE  e[v] # Undefined
  <2>1. /\ v \in DOMAIN Schemas[p] /\ Schemas[p][v].unset = Default
        /\ Schemas[p][v].values = {"ok"}
    BY StorageOf
  <2>2. v \notin Invalid(Schemas[p], raw)  BY NoIssues
  <2>3. QED  BY <2>1, <2>2 DEF Parsed, Invalid, Default, Undefined
<1>5. QED  BY <1>2, <1>3, <1>4 DEF Throws, Unset

-----------------------------------------------------------------------------
(***************************************************************************)
(* The invariant is inductive                                              *)
(***************************************************************************)
\* Given, of any environment and file.
Cleaned(given, file) == WithoutEmpty(WithDotEnv(given, file))

\* What a repair does to what parseConfig validates.
LEMMA RepairedRaw ==
  ASSUME NEW given, NEW file, NEW R,
         NEW n \in NodeEnvs, NEW q \in StorageProviders,
         NEW repaired,
         repaired = Over([v \in R |-> Repaired(v, n, q)], given)
  PROVE  /\ \A v \in R : /\ v \in DOMAIN Cleaned(repaired, file)
                         /\ Cleaned(repaired, file)[v] = Repaired(v, n, q)
         /\ file = NoFile \/ "NODE_ENV" \notin R =>
              \A v : v \notin R =>
                /\ v \in DOMAIN Cleaned(repaired, file)
                     <=> v \in DOMAIN Cleaned(given, file)
                /\ v \in DOMAIN Cleaned(given, file) =>
                     Cleaned(repaired, file)[v] = Cleaned(given, file)[v]
<1> DEFINE wide == WithDotEnv(given, file)
           mended == WithDotEnv(repaired, file)
<1>1. \A v : Repaired(v, n, q) # ""
  BY DEF Repaired, NodeEnvs, StorageProviders
<1>2. /\ DOMAIN repaired = R \cup DOMAIN given
      /\ \A v \in R : repaired[v] = Repaired(v, n, q)
      /\ \A v \in DOMAIN given : v \notin R => repaired[v] = given[v]
  BY DEF Over
<1>3. \A v \in R : v \in DOMAIN mended /\ mended[v] = Repaired(v, n, q)
  BY <1>2 DEF WithDotEnv, Over
<1>4. \A v \in R : /\ v \in DOMAIN Cleaned(repaired, file)
                  /\ Cleaned(repaired, file)[v] = Repaired(v, n, q)
  BY <1>1, <1>3 DEF Cleaned, WithoutEmpty, Restrict
<1>5. ASSUME file = NoFile \/ "NODE_ENV" \notin R,
             NEW v, v \notin R
      PROVE  /\ v \in DOMAIN mended <=> v \in DOMAIN wide
             /\ v \in DOMAIN wide => mended[v] = wide[v]
  <2>1. CASE file = NoFile
    BY <1>2, <1>5, <2>1 DEF WithDotEnv
  <2>2. CASE "NODE_ENV" \notin R
    <3>1. Production(repaired) <=> Production(given)
      BY <1>2, <2>2 DEF Production
    <3>2. QED  BY <1>2, <1>5, <3>1 DEF WithDotEnv, Over
  <2>3. QED  BY <1>5, <2>1, <2>2
<1>6. ASSUME file = NoFile \/ "NODE_ENV" \notin R,
             NEW v, v \notin R
      PROVE  /\ v \in DOMAIN Cleaned(repaired, file)
                  <=> v \in DOMAIN Cleaned(given, file)
             /\ v \in DOMAIN Cleaned(given, file) =>
                  Cleaned(repaired, file)[v] = Cleaned(given, file)[v]
  BY <1>5, <1>6 DEF Cleaned, WithoutEmpty, Restrict
<1>7. QED  BY <1>4, <1>6

\* The range of the measure.
LEMMA LeftIsSmall ==
  ASSUME NEW p, NEW raw, NEW file
  PROVE  /\ LeftOf(p, raw, file) \in 0 .. 3
         /\ LeftOf(p, raw, file) = 0 <=> Issues(p, raw) = {}
         /\ file = NoFile => LeftOf(p, raw, file) \in 0 .. 2
BY DEF LeftOf

\* A repair of what a report names leaves fewer reports to come.
LEMMA RepairHelps ==
  ASSUME NEW p \in DOMAIN Schemas, NEW given, NEW file,
         NEW n \in NodeEnvs, NEW q \in StorageProviders,
         Issues(p, Cleaned(given, file)) # {},
         NEW repaired,
         repaired = Over([v \in Issues(p, Cleaned(given, file)) |->
                            Repaired(v, n, q)], given)
  PROVE  LeftOf(p, Cleaned(repaired, file), file)
           < LeftOf(p, Cleaned(given, file), file)
<1> DEFINE schema == Schemas[p]
           raw == Cleaned(given, file)
           raw2 == Cleaned(repaired, file)
           R == Issues(p, raw)
<1>1. /\ Invalid(schema, raw) \subseteq R /\ R \subseteq DOMAIN schema
      /\ R \cap Choices \subseteq Invalid(schema, raw)
      /\ Invalid(schema, raw) = {} => R = Refine(p, Parsed(schema, raw))
  BY IssuesAreNamed
<1>2. \A v \in R : v \in DOMAIN raw2 /\ raw2[v] = Repaired(v, n, q)
  BY RepairedRaw
<1>3. ASSUME file = NoFile \/ "NODE_ENV" \notin R,
             NEW v, v \notin R
      PROVE  /\ v \in DOMAIN raw2 <=> v \in DOMAIN raw
             /\ v \in DOMAIN raw => raw2[v] = raw[v]
  BY <1>3, RepairedRaw
<1>4. ASSUME NEW v \in R  PROVE raw2[v] \in schema[v].values
  <2>1. SoundField(v, schema[v])  BY <1>1, SoundSchemas DEF Sound
  <2>2. raw2[v] = Repaired(v, n, q)  BY <1>2
  <2>3. Repaired(v, n, q) \in schema[v].values
    BY <2>1 DEF SoundField, Repaired, Choices
  <2>4. QED  BY <2>2, <2>3
<1>5. \A v \in R : v \notin Invalid(schema, raw2)
  BY <1>1, <1>2, <1>4 DEF Invalid
<1> HIDE DEF raw, raw2, R
<1>6. ASSUME file = NoFile \/ "NODE_ENV" \notin R
      PROVE  Invalid(schema, raw2) = {}
  BY <1>1, <1>3, <1>5, <1>6 DEF Invalid
<1>7. CASE Invalid(schema, raw) = {}
  <2>1. R = Refine(p, Parsed(schema, raw))  BY <1>1, <1>7
  <2>2. R \cap Choices = {}  BY <1>1, <1>7
  <2>3. "NODE_ENV" \notin R  BY <2>2 DEF Choices
  <2>4. Mends(Parsed(schema, raw2), Parsed(schema, raw), R, DOMAIN schema)
    <3>1. SUFFICES ASSUME NEW v \in DOMAIN schema
                   PROVE  Parsed(schema, raw2)[v] =
                            IF v \in R THEN "ok" ELSE Parsed(schema, raw)[v]
      BY DEF Mends
    <3>2. CASE v \in R
      BY <1>2, <2>2, <3>2 DEF Parsed, Repaired, Choices
    <3>3. CASE v \notin R
      BY <1>3, <2>3, <3>3 DEF Parsed
    <3>4. QED  BY <3>2, <3>3
  <2>5. Refine(p, Parsed(schema, raw2)) = {}  BY <2>1, <2>4, RulesMet
  <2>6. Issues(p, raw2) = {}  BY <1>6, <2>3, <2>5, NoIssues
  <2>7. LeftOf(p, raw2, file) = 0 /\ LeftOf(p, raw, file) # 0
    BY <2>6, LeftIsSmall DEF raw, R
  <2>8. QED  BY <2>7, LeftIsSmall DEF raw, raw2
<1>8. CASE /\ Invalid(schema, raw) # {}
           /\ file = NoFile \/ "NODE_ENV" \notin Invalid(schema, raw)
  <2>1. file = NoFile \/ "NODE_ENV" \notin R  BY <1>1, <1>8 DEF Choices
  <2>2. Invalid(schema, raw2) = {}  BY <1>6, <2>1
  <2>3. LeftOf(p, raw2, file) \in 0 .. 1  BY <2>2 DEF LeftOf
  <2>4. LeftOf(p, raw, file) = 2  BY <1>8 DEF LeftOf, raw, R
  <2>5. QED  BY <2>3, <2>4 DEF raw, raw2
<1>9. CASE file # NoFile /\ "NODE_ENV" \in Invalid(schema, raw)
  <2>1. "NODE_ENV" \notin Invalid(schema, raw2)  BY <1>1, <1>5, <1>9
  <2>2. LeftOf(p, raw2, file) \in 0 .. 2  BY <2>1 DEF LeftOf
  <2>3. LeftOf(p, raw, file) = 3  BY <1>9 DEF LeftOf, raw, R
  <2>4. QED  BY <2>2, <2>3 DEF raw, raw2
<1>10. QED  BY <1>7, <1>8, <1>9

\* Every deployment has its bound ahead of it.
LEMMA ConfigStarts == ConfigInit => ConfigInv
<1>1. SUFFICES ASSUME ConfigInit  PROVE ConfigInv
  OBVIOUS
<1>2. PICK d \in Deployments :
        program = d.program /\ env = d.env /\ dotenv = d.dotenv
  BY <1>1 DEF ConfigInit
<1>3. program \in DOMAIN Schemas  BY <1>2, DeploymentsAssumption
<1>4. outcome = "stopped" /\ failures = 0  BY <1>1 DEF ConfigInit
<1>5. failures + Left <= Bound  BY <1>4, LeftIsSmall DEF Left, Bound
<1>6. QED  BY <1>3, <1>4, <1>5 DEF ConfigInv, Reports, Runs

\* A refusal uses one report up, which the repair after it pays for.
LEMMA ConfigStep == ConfigInv /\ [ConfigNext]_configVars => ConfigInv'
<1>1. SUFFICES ASSUME ConfigInv, [ConfigNext]_configVars  PROVE ConfigInv'
  OBVIOUS
<1>2. /\ program \in DOMAIN Schemas /\ failures \in Nat
      /\ Bound \in Nat /\ Left \in Nat
  BY <1>1, LeftIsSmall DEF ConfigInv, Reports, Bound, Left
<1>3. CASE Refuse
  <2>1. UNCHANGED <<program, env, dotenv, config>> /\ outcome = "stopped"
        /\ Issues(program, Given) # {}
        /\ outcome' = "refused" /\ failures' = failures + 1
        /\ report' = Issues(program, Given)
    BY <1>3 DEF Refuse
  <2>2. Given' = Given /\ Left' = Left /\ Bound' = Bound
    BY <2>1 DEF Given, Left, Bound
  <2>3. failures + Left <= Bound  BY <1>1, <2>1 DEF ConfigInv, Reports
  <2>4. failures' + Left' <= Bound' + 1  BY <1>2, <2>1, <2>2, <2>3
  <2>5. QED  BY <1>2, <2>1, <2>2, <2>4 DEF ConfigInv, Reports, Runs
<1>4. CASE Start
  <2>1. /\ outcome = "stopped" /\ Issues(program, Given) = {}
        /\ UNCHANGED <<program, env, dotenv, report, failures>>
    BY <1>4 DEF Start
  <2>2. Given' = Given /\ Bound' = Bound
    BY <2>1 DEF Given, Bound
  <2>3. ~(HasStorage(program) /\ Throws(Parsed(Schemas[program], Given)))
    BY <1>2, <2>1, NeverThrows
  <2>4. /\ outcome' = "running"
        /\ config' = [values |-> Parsed(Schemas[program], Given),
                      storage |-> IF HasStorage(program)
                        THEN ToStorageConfig(Parsed(Schemas[program], Given))
                        ELSE NoStorage]
    BY <1>4, <2>3 DEF Start
  <2>5. failures <= Bound  BY <1>1, <1>2, <2>1 DEF ConfigInv, Reports
  <2>6. QED  BY <1>2, <2>1, <2>2, <2>4, <2>5 DEF ConfigInv, Reports, Runs
<1>5. CASE Repair
  <2>1. /\ outcome = "refused" /\ outcome' = "stopped"
        /\ UNCHANGED <<program, dotenv, failures, config>>
    BY <1>5 DEF Repair
  <2>2. PICK n \in NodeEnvs, q \in StorageProviders :
          env' = Over([v \in report |-> Repaired(v, n, q)], env)
    BY <1>5 DEF Repair
  <2>3. /\ report = Issues(program, Given) /\ report # {}
        /\ failures + Left <= Bound + 1
    BY <1>1, <2>1 DEF ConfigInv, Reports
  <2>4. /\ Given = Cleaned(env, dotenv)
        /\ Given' = Cleaned(env', dotenv)
    BY <2>1 DEF Given, Cleaned
  <2>5. LeftOf(program, Cleaned(env', dotenv), dotenv)
          < LeftOf(program, Cleaned(env, dotenv), dotenv)
    BY <1>2, <2>2, <2>3, <2>4, RepairHelps
  <2>6. Left' < Left /\ Left' \in Nat /\ Bound' = Bound
    BY <2>1, <2>4, <2>5, LeftIsSmall DEF Left, Bound
  <2>7. failures' + Left' <= Bound'
    <3>1. failures' = failures  BY <2>1
    <3>2. \A f, l, l2, b \in Nat : f + l <= b + 1 /\ l2 < l => f + l2 <= b
      OBVIOUS
    <3>3. QED  BY <1>2, <2>3, <2>6, <3>1, <3>2
  <2>8. QED  BY <1>2, <2>1, <2>7 DEF ConfigInv, Reports, Runs
<1>6. CASE UNCHANGED configVars
  <2>1. /\ UNCHANGED <<program, env, dotenv, outcome>>
        /\ UNCHANGED <<report, failures, config>>
    BY <1>6 DEF configVars
  <2>2. Given' = Given /\ Left' = Left /\ Bound' = Bound
    BY <2>1 DEF Given, Left, Bound
  <2>3. QED  BY <1>1, <2>1, <2>2 DEF ConfigInv, Reports, Runs
<1>7. QED  BY <1>1, <1>3, <1>4, <1>5, <1>6 DEF ConfigNext

\* The invariant holds in every behaviour.
THEOREM ConfigTypes == ConfigSpec => []ConfigInv
<1>1. QED  BY ConfigStarts, ConfigStep, PTL DEF ConfigSpec

(***************************************************************************)
(* For every deployment: the reports lead to a start in two repairs, or in *)
(* three when there is a .env file.                                        *)
(***************************************************************************)
THEOREM ReportsLeadThere == ConfigSpec => []RepairsSuffice
<1>1. ConfigInv => RepairsSuffice
  <2>1. SUFFICES ASSUME ConfigInv  PROVE RepairsSuffice
    OBVIOUS
  <2>2. failures \in Nat /\ Left \in Nat /\ Bound \in Nat
    BY <2>1, LeftIsSmall DEF ConfigInv, Reports, Left, Bound
  <2>3. CASE outcome = "refused"
    <3>1. failures + Left <= Bound + 1 /\ Left # 0
      BY <2>1, <2>3, LeftIsSmall DEF ConfigInv, Reports, Left
    <3>2. failures <= Bound  BY <2>2, <3>1
    <3>3. QED  BY <3>2 DEF RepairsSuffice, Bound
  <2>4. CASE outcome \in {"stopped", "running"}
    <3>1. failures <= Bound
      BY <2>1, <2>2, <2>4 DEF ConfigInv, Reports
    <3>2. QED  BY <3>1 DEF RepairsSuffice, Bound
  <2>5. QED  BY <2>1, <2>3, <2>4 DEF ConfigInv
<1>2. QED  BY <1>1, ConfigTypes, PTL

(***************************************************************************)
(* For every deployment: what starts has what its storage needs.           *)
(***************************************************************************)
THEOREM StartedIsUsable == ConfigSpec => []ConfigurationIsUsable
<1>1. ConfigInv => ConfigurationIsUsable
  <2>1. SUFFICES ASSUME ConfigInv  PROVE ConfigurationIsUsable
    OBVIOUS
  <2>2. outcome # "threw"  BY <2>1 DEF ConfigInv
  <2>3. SUFFICES ASSUME outcome = "running", HasStorage(program)
                 PROVE  ConfigurationIsUsable
    BY <2>2 DEF ConfigurationIsUsable
  <2> DEFINE e == Parsed(Schemas[program], Given)
             provider == e["STORAGE_PROVIDER"]
  <2>4. /\ config.values = e /\ config.storage = ToStorageConfig(e)
        /\ Issues(program, Given) = {}
    BY <2>1, <2>3 DEF ConfigInv, Runs
  <2>5. RefineStorage(e) = {}
    BY <2>3, <2>4, NoIssues DEF Refine, HasStorage
  <2>6. /\ config.storage.provider = provider
        /\ config.storage.static =
             (provider = "s3" /\ Unset(e, S3Pair) = {})
        /\ \A v \in SftpSecrets :
             e[v] # Undefined => v \in config.storage.passed
    BY <2>4 DEF ToStorageConfig
  <2>7. Unset(e, S3Pair) = S3Pair \/ Unset(e, S3Pair) = {}
    BY <2>5 DEF RefineStorage
  <2>8. \A v \in S3Pair : Value(v) = e[v]
    BY <2>3, <2>4, StorageOf DEF Value, Parsed, Optional
  <2>9. provider = "s3" =>
          \A v \in S3Pair : config.storage.static <=> Value(v) # Undefined
    BY <2>6, <2>7, <2>8 DEF Unset
  <2>10. provider = "sftp" => SftpSecrets \cap config.storage.passed # {}
    <3>1. provider = "sftp" => Unset(e, SftpSecrets) # SftpSecrets
      BY <2>5 DEF RefineStorage
    <3>2. QED  BY <2>6, <3>1 DEF Unset
  <2>11. provider \notin NativePresignProviders =>
           Unset(e, ProxyVariables) = {}
    BY <2>5 DEF RefineStorage
  <2>12. QED
    BY <2>2, <2>4, <2>6, <2>9, <2>10, <2>11 DEF ConfigurationIsUsable
<1>2. QED  BY <1>1, ConfigTypes, PTL

(***************************************************************************)
(* For every deployment: what a production process runs with was chosen    *)
(* for it, and in its environment.                                         *)
(***************************************************************************)
THEOREM SafeInProduction == ConfigSpec => []ProductionIsSafe
<1>1. ConfigInv => ProductionIsSafe
  <2>1. SUFFICES ASSUME ConfigInv, outcome = "running"
                 PROVE  ProductionIsSafe
    BY DEF ProductionIsSafe
  <2> DEFINE schema == Schemas[program]
             e == Parsed(schema, Given)
             provider == e["STORAGE_PROVIDER"]
  <2>2. /\ config.values = e
        /\ config.storage = IF HasStorage(program) THEN ToStorageConfig(e)
                            ELSE NoStorage
        /\ Refine(program, e) = {} /\ Invalid(schema, Given) = {}
    BY <2>1, NoIssues DEF ConfigInv, Runs
  <2>3. DOMAIN e = DOMAIN schema  BY DEF Parsed
  <2>4. ASSUME Value("NODE_ENV") = "production"
        PROVE  Value("API_KEY_PEPPER") # "example"
    <3>1. "NODE_ENV" \in DOMAIN schema /\ e["NODE_ENV"] = "production"
      BY <2>2, <2>3, <2>4 DEF Value, Undefined
    <3>2. CASE program \in {"api", "provision"}
      <4>1. RefineCredentials(e) = {}  BY <2>2, <3>2 DEF Refine
      <4>2. e["API_KEY_PEPPER"] # "example"
        BY <3>1, <4>1 DEF RefineCredentials
      <4>3. QED  BY <2>2, <4>2 DEF Value, Undefined
    <3>3. CASE program = "worker"
      BY <2>2, <2>3, <3>3, PepperOf DEF Value, Undefined
    <3>4. CASE program = "migrate"  BY <3>1, <3>4, PepperOf
    <3>5. QED
      BY <2>1, <3>2, <3>3, <3>4, SchemasAt DEF ConfigInv, Programs
  <2>5. ASSUME Value("NODE_ENV") = "production", HasStorage(program)
        PROVE  /\ provider = "local" => config.storage.root # Default
               /\ provider = "sftp" => "STORAGE_SFTP_HOST_KEY_SHA256"
                                         \in config.storage.passed
    <3>1. e["NODE_ENV"] = "production"
      BY <2>2, <2>3, <2>5 DEF Value, Undefined
    <3>2. Unset(e, RequiredBy(provider, TRUE)) = {}
      BY <2>2, <2>5, <3>1 DEF Refine, HasStorage, RefineStorage
    <3>3. provider = "local" => config.storage.root # Default
      <4>1. SUFFICES ASSUME provider = "local"
                     PROVE  config.storage.root # Default
        OBVIOUS
      <4>2. e["STORAGE_LOCAL_ROOT"] # Undefined
        BY <3>2, <4>1 DEF Unset, RequiredBy
      <4>3. /\ "STORAGE_LOCAL_ROOT" \in DOMAIN schema
            /\ schema["STORAGE_LOCAL_ROOT"].unset = Undefined
            /\ schema["STORAGE_LOCAL_ROOT"].values = {"ok"}
        BY <2>5, StorageOf DEF Optional
      <4>4. e["STORAGE_LOCAL_ROOT"] = "ok"
        BY <2>2, <4>2, <4>3 DEF Parsed, Invalid
      <4>5. config.storage.root = "ok"
        BY <2>2, <2>5, <4>4 DEF ToStorageConfig, Undefined
      <4>6. QED  BY <4>5 DEF Default
    <3>4. provider = "sftp" => "STORAGE_SFTP_HOST_KEY_SHA256"
                                 \in config.storage.passed
      <4>1. SUFFICES ASSUME provider = "sftp"
                     PROVE  "STORAGE_SFTP_HOST_KEY_SHA256"
                              \in config.storage.passed
        OBVIOUS
      <4>2. e["STORAGE_SFTP_HOST_KEY_SHA256"] # Undefined
        BY <3>2, <4>1 DEF Unset, RequiredBy
      <4>3. QED  BY <2>2, <2>5, <4>2 DEF ToStorageConfig
    <3>5. QED  BY <3>3, <3>4
  <2>6. /\ HasStorage(program) => config.storage.provider = provider
        /\ ~HasStorage(program) => config.storage.provider = Undefined
    BY <2>2 DEF ToStorageConfig, NoStorage
  <2>7. ASSUME Production(env),
               NEW v \in DOMAIN config.values \ DOMAIN WithoutEmpty(env)
        PROVE  Value(v) = schema[v].unset
    <3>1. Given = WithoutEmpty(env)  BY <2>7 DEF Given, WithDotEnv
    <3>2. QED  BY <2>2, <2>3, <2>7, <3>1 DEF Value, Parsed
  <2>8. QED
    BY <2>4, <2>5, <2>6, <2>7 DEF ProductionIsSafe, Undefined
<1>2. QED  BY <1>1, ConfigTypes, PTL
=============================================================================
