# image-management: a TLA+ development

This directory holds TLA+ models of the parts of image-management in which
something can go wrong between two statements, two requests or two processes,
the TLC configurations that check them on small instances, and TLAPS proofs of
what holds for every instance. Paths below are relative to the repository root
(`src/` here); `api/` stands for `services/api/src/`, `worker/` for
`services/worker/src/`.

## 1. The system

An image service: clients upload originals through an HTTP API, later requests
will ask for transformed variants. Two kinds of process share one Postgres
database, one Redis and one object store.

| process | entry point | what it does |
|---|---|---|
| API | `api/server.ts` | Fastify: keys, uploads, reads; keeps a last-used tracker, a failure limiter and (not wired yet) a usage recorder in memory |
| worker | `worker/server.ts` | BullMQ consumers; today one, the usage aggregator |
| provision | `api/provision.ts` | creates a tenant, its application, project and first key, once |

Any number of API and worker processes run at once. They share no memory: every
coordination goes through rows (unique constraints, conditional UPDATEs, row
locks) and through the queue.

### Components

| component | state | operations | talks to | what makes it hard | correct when |
|---|---|---|---|---|---|
| idempotency (`api/modules/idempotency`) | table `idempotency_keys`: status, fingerprint, stored response, expiry | `run`: claim (DELETE of an expired row, INSERT .. ON CONFLICT DO NOTHING), find, complete, release | wraps the upload | four statements with no transaction around them; complete and release name a row by its key only; the row may go between two of them | one key, one create; a replay is the response of the same request; a failed create may be tried again |
| upload (`api/modules/assets`) | tables `assets`, `asset_versions`; the object store | `upload`: inspect, one transaction around two inserts, `storage.put` and an UPDATE | idempotency, storage, Postgres | a store that is not transactional inside a transaction that may fail after it | a visible asset has its version and its object; a failure leaves no rows |
| API keys (`api/modules/api-keys`) | table `api_keys`: status, grant, `expires_at` | create, rotate, revoke, authenticate; list and get | audit, authentication hooks | checks on rows read without a lock; the caller's own key may be revoked or rotated meanwhile | no escalation, final and effective revocation, honoured overlaps |
| audit (`api/modules/audit`) | table `audit_logs` | `AuditedTransaction.record` | API keys, provisioning | must commit with the change | one entry per change and no entry without one |
| authentication hooks (`api/http/authentication.ts`) | none | `authenticate`, `requirePermission` | keys, limiter, tracker | asks the limiter before, tells it after | a refused request does nothing |
| failure limiter (`api/http/failure-limiter.ts`) | a window of failures per address, bounded | `blockedForSeconds`, `recordFailure` | authentication | attempts in flight, eviction at the bound | a blocked address stays blocked for its window |
| last-used tracker (`api/modules/api-keys/last-used-tracker.ts`) | set of pending key ids | `touch`, `flush`, `stop` | authentication, shutdown | a flush that fails while another runs or while stopping | a used key is marked used |
| usage recorder (`api/modules/usage`) | counts per project, metric and day in memory | `record`, `flush`, `stop` | queue | flushes overlap; a failed one puts counts back | nothing counted twice, nothing dropped |
| queue (`packages/queue`) | BullMQ jobs in Redis | add, process, retry, stalled check | recorder, aggregator | at-least-once delivery, lost locks | a job is applied, retried or kept as failed |
| usage aggregator (`worker/modules/usage`) | tables `usage_event_ledger`, `usage` | `apply` | queue | the same event in two handlers at once | ledger and counters agree |
| tenancy (`api/modules/tenancy`, `packages/tenancy`) | tenants, applications, projects | `provisionTenant`, project access | keys, audit | two transactions, a crash between them; a context that is checked once and used later | a tenant is whole, and has its key unless the command was stopped; a request stays in its tenant and project |
| database (`packages/db`: `scoped.ts`, `connection.ts`, `migrations/`) | the tables; a pool per process | scoped and unscoped statements | every module | foreign keys with and without the scope columns, cascades | rows of different scopes never refer to each other; nothing that points to an object goes by cascade |
| storage adapters (`packages/storage-adapter/src/adapters`: `local.ts`, `sftp.ts`, `webdav.ts`, `s3.ts`, `azure-blob.ts`) | two files per object, or one blob of a service | put, get, stat, delete, copy, list | upload | in the file adapters an object is two files and each operation several calls; a list is many | undisturbed operations are exact; an object written once appears at one instant |
| memory storage (`memory.ts`) | a map | the same | tests | | |
| storage proxy (`proxy-presign.ts`, `storage-proxy.routes.ts`) | none (signatures) | sign, verify, stream | storage; not wired into any process yet | tokens presented twice, late, to another method; a body without a length | an object is stored and read only as it was presigned |
| transform parameters (`packages/transform-params`) | none | `canonicalize` | nobody yet | aliases, defaults, conflicts | equal requests have one canonical form, and it is a fixed point |
| image inspection (`packages/image-engine`) | none | `inspectImage` | upload | libvips | out of a model's reach |
| configuration (`packages/config`, `config.ts` of both services) | none after start-up | `withDotEnv`, `parseConfig`, `refineStorage`, `toStorageConfig` | every program | field errors that stop cross-field rules, blank values, a stray `.env` | what starts can work, production is safe, and the reports lead there |
| HTTP plumbing, logging, errors, ids, cache, signing | none that changes | | | | formatting |

`PROJECT.json` lists the same components with their files and the reason for
each one that is not modelled, and every hazard at its line with the properties
that cover it.

## 2. The modules

```
IdempotencyKeys            the table and its statements (one operator each)
  IdempotentUpload         run + upload: requests as processes, faults
    IdempotentUploadRefinement   ... implements IdempotentCreate
      MCIdempotentUpload         instances for TLC
      IdempotentUploadProofs     claims, transactions, creates, replays, and
                                 the refinement
IdempotentCreate           what docs/API/08 promises, with atomic creates
ApiKeys                    create, rotate, revoke, authenticate, audit
  MCApiKeys, ApiKeysProofs
UsageMetering              recorder, queue and aggregator together
  MCUsageMetering, UsageMeteringProofs
StorageAdapters            the five adapters, call by call
  StorageRefinement        ... implements ObjectStore on keys written once
    MCStorageAdapters, StorageAdaptersProofs
ObjectStore                what storage-adapter/src/types.ts promises
MCLiveness                 ApiKeys, UsageMetering and IdempotentUpload, for
                           what must happen

TransformParams            canonicalize (CssColors: its colour table)
  MCTransformParams, UrlProofs (sizes, equivalent URLs, forms)
FailureLimiter             failed authentications of one process
ApiProcess                 handlers, last-used tracker, pool, shutdown
  ApiProcessProofs         theorems of the two
ProxyTokens                presigned URLs through the API
  UrlProofs (stored and served as presigned)
DatabaseSchema             the tables of the migrations, and scoped's table
  TenantDatabase           statements of requests and of unscoped code
Provisioning               the operator's command
  TenancyProofs            theorems of the two
Configuration              the schemas, .env, and an operator who repairs
  MCConfiguration, ConfigurationProofs
MCComponents               these seven, one to a behaviour
```

Each definition's source lines are in `PROJECT.json` under `map`. Operators
whose name is a mapped definition's name and a suffix (`InsertRow_Upsert`,
`Least_Set`, ...) are plausible slips: replacing the definition by one of them
breaks the property `PROJECT.json` pairs it with, which shows that the property
depends on that line. No specification uses them.

### IdempotencyKeys, IdempotentUpload

A request is a process with a program counter, `pc[r]`; each label is one
`await` of the handler and each action the code up to the next one, so two
requests, of one process or of two, interleave exactly where the code lets them.

| label / action | code |
|---|---|
| `Arrive` | `asset.routes.ts`: the header, the key pattern, the fingerprint |
| `ClaimDelete`, `ClaimInsert`, `ClaimFails` | `idempotency.repository.ts` claim, two statements |
| `Find` | find, and what `run` does with each status: replay, 409, 422, or start over when the row has gone |
| `Inspect` | `asset.service.ts`: folder check and `inspectImage`, before the transaction |
| `InsertRows`, `Put`, `PutFails`, `Activate`, `Commit`, `CommitUnacked`, `TxFails` | the transaction of `upload` |
| `Complete`, `CompleteFails` | `keys.complete` after the work, inside the try |
| `Release`, `ReleaseFails` | the catch block |
| `Crash` | the process dies; Postgres rolls the open transaction back |
| `Expire` | 24 hours pass for a row |

`staged[r]` is what r wrote in its open transaction, `assets[r]` what is
committed, `objects` the store; the difference between the first two is what
other readers cannot see. `owner`, `life` and `expiries` are history
variables: no guard of a handler reads them.

`IdempotentCreate` is the promise with no statements in it: a create has one
atomic effect, a key remembers the effect of its current life, an answer is the
effect of the request itself or of an equal one with the same key.
`IdempotentUploadRefinement` maps the one onto the other (`KeepsThePromise`).

### ApiKeys

A request is again a process; the key that a request creates is named by the
request, so chains (create a key, use it to create another, rotate that one)
are in the state space. The row locks that Postgres takes for the two UPDATEs,
`expireBy` and `revoke`, are the variable `lock`: an UPDATE waits for the
transaction that holds its row and then re-evaluates its WHERE clause, which is
what `LEAST(expires_at, ..)` and `status <> 'revoked'` rely on. Reads take no
lock, so a rotation works with what it read before a revocation committed.
`Effects` is the end of an audited transaction: change and entry together.
`barred[r]` is a history variable: when r was sent, its key had already been
reported revoked.

### UsageMetering

One module for the three parts, since what matters is between them: the
recorder's buckets and overlapping flushes, `queue.add` with its two ways to
reject, BullMQ's delivery (attempts, locks, stalled jobs) and the aggregator's
transaction with its two waits. An amount is a set of units, so a sum is a
disjoint union and "counted twice" is visible for each unit.

### StorageAdapters, ObjectStore

One operation per process of the model, one action per call of the backend. The
three file adapters share their actions, since they keep the same two files in
the same order; where they differ an action asks for the `provider`:

| actions | code |
|---|---|
| `Stat`, `ReadType`, `ReadBody` | stat and get: size, sidecar, bytes are three reads |
| `WriteSidecar`, `RenameObject`, `PutStat` | put: two temporary files moved in place, then a stat |
| `OpenSource` | local copy: the stream that get opened, while put is already at work; an error before put listens ends the process |
| `RmObject`, `RmSidecar` | delete |
| `Walk`, `ListStat`, `Page` | list: directories one at a time, a stat per key, `paginateSorted`; the caller follows the cursor |
| `Turn` | sftp only: the sections of one process exclude each other |
| `BlobRead`, `BlobUpload`, `BlobCopy`, `BlobDelete`, `BlobPage` | s3 and azure: single calls; s3 copies in the service, azure reads and uploads |
| `IoFails`, `Crash` | a call fails before or after its effect; the process dies |

A put stores its own name as bytes and as content type, so a mix of two writes
is visible. `Fresh` keys are written once and never deleted, which is what
`object-keys.ts` gives the platform (a new version id in each key). `settled`,
`alone` and `expect` are history: what a key must hold when no two writes of it
overlapped, and what a read must therefore find.

`ObjectStore` is the interface for such keys: a write takes effect at one
instant, a read answers what is stored, and after its answer an operation has
no effect. `StorageRefinement` lets an object appear when its bytes do; that
the sidecar is already there is what the order of the two renames is for.

### TransformParams, CssColors

`Canonicalize(q, ctx)` is the function as one definition, its steps named as the
code numbers them: `Raw` (aliases, expansions; the last of the pairs that give a
parameter, its `Givers`, decides it, which is what a loop over `raw.set` comes
to), `Valid`,
`OverSpecified`, sizes from a ratio, the deferred values of `f`, `q`, `g` and
`rot`, `Snap`, `OverBudget`, and the form. A query is a sequence of pairs; a
value is a record of what its text parses to, so two spellings of a number are
one value, as they are in the form. A colour is looked up in a plain object, so
`bg` also takes the names that object inherits (`INHERITED`). The properties are stated against
declarative tables taken from the protocol documents (`NameSynonyms`,
`ValueSynonyms`), not against the code's own. Floating point is modelled where
it decides: `SquareRoundsUp` says for which ratios `dpr ** 2` rounds up.

### FailureLimiter, ApiProcess

`BeginLookup` and `FailLookup` are the hook before and after its await, with
any number of lookups of an address in between; `order` is the insertion order
of the Map, which eviction goes by. `ApiProcess` follows one process to its
exit: a handler takes a connection to look its key up, notes the key, waits for
its client's body (`body`), and takes another connection for its transaction, in
which it waits for `storage.put`; flushes of the tracker take connections too.
Nothing in the code bounds the two waits, so no fairness is assumed of them and
`ShutdownEnds` names them as what a shutdown can hang on.
`app.close` waits for handlers whose client is there, so a handler whose client
has gone may outlive it. `touched` and `recorded` count uses of a key and say
how many of them `last_used_at` stands for.

### ProxyTokens

A token is its payload: HMAC is taken to be unforgeable, everything else is
not. The clock is finer than the seconds an expiry is written in.

### DatabaseSchema, TenantDatabase

Every table of the migrations as columns, unique keys and references with their
columns in order and their ON DELETE; `TenantDatabase` has PostgreSQL's part
(MATCH SIMPLE, unique keys, restrict, cascade), `scoped()` as it pins and
stamps statements, and requests that enter a project and work later. Unscoped
code may write any row that the schema accepts, so what holds in spite of it is
the schema's doing.

### Provisioning

Commands race for slugs and stop anywhere. The first transaction shows its rows
at its COMMIT; the unique key makes a second insert of a slug wait for it.

### Configuration

A value is what the schema makes of it: passes, has the type and fails a check,
has not the type, or is blank. zod (external) runs cross-field rules after a
failed check, not after a missing or ill-typed value. `Repair` is an operator
who sets what the report named.

### MCComponents, MCLiveness

Parts that share no state are checked together: a behaviour chooses one part
and works on it, the others keep one initial state, so the run explores the sum
of the parts' states and each invariant is checked on all the states of its
own. Nothing is said, and nothing could go wrong, about steps of two of them.

## 3. What is checked

| run | instance | shows |
|---|---|---|
| `upload_safety` | 3 requests, 1 key, 2 accepted payloads and a refused one, 1 expiry; failing claim, transaction, put (before and after it stored), release, crash | claims exclude each other; one create per life of a key; a replay is the response of an equal request whose asset exists; an error means no rows; the whole implements `IdempotentCreate` |
| `upload_double_create` | 2 requests, failing complete | **violated**: see findings |
| `upload_orphan` | 1 request, a put that stores and fails | **violated**: see findings |
| `keys_safety` | a bootstrap key, 3 requests, 2 applications, 3 grants, failing statements, lost COMMIT answers, crashes | no escalation along chains; an entry for each change, one for each revocation; the shortest overlap wins; revocation is final and refused |
| `usage_safety` | 1 process with 2 flushes in flight, 2 handlers, 3 units in 2 counters, 2 event ids; failing adds and transactions, lost COMMIT answers, stalls, crashes of the process and of a handler | no unit counted twice; ledger and counters agree; nothing disappears except with its process |
| `liveness` | 3 requests contending for row locks, failing statements, crashes; 1 process, 2 handlers, 2 units, every fault of the worker's side; 3 uploads under 1 key, all faults | every request ends: no wait for a lock is for ever; every count arrives, or its job is kept as failed; every upload ends, although `run` starts over whenever the row it lost to is gone, or waits for its put |
| `usage_double_count` | 2 overlapping flushes, `queue.add` that stores and rejects | **violated**: see findings |
| `storage_safety` | 5 adapters, 3 operations of any kind, 2 keys of which one is written once and one may hold an object, pages of one; one failing call or crash | writes that do not overlap win, whatever failed before; undisturbed reads are exact; a listing over several pages is in order and complete; for keys written once each adapter implements `ObjectStore` |
| `storage_mix` | local adapter, a put over an object and a get | **violated**: see findings |
| `components`: TransformParams | about 10,700 queries of up to three pairs in 3 contexts | order, alias, dialect, duplicate and foreign parameters do not change the canonical form; the form, if a query can say it, is its own; sizes are those asked for and within the budget |
| `components`: FailureLimiter | 2 addresses, 1 tracked, 2 lookups at once, two windows | the window of a remembered address holds at most `MaxFailures - 1 + MaxLookups` failures, and any span as long as a window fewer than twice that |
| `components`: ApiProcess | 2 handlers, 2 timer flushes, 1 connection | shutdown ends, unless a client's body, a put or the end of Redis or of the storage never settles; it cuts no connected request and no statement; uses are not lost between flushes |
| `components`: ProxyTokens | 2 objects, 2 tokens, 1 upload | what is stored or read was presigned: method, key, type, size, time |
| `components`: TenantDatabase | 2 tenants, 4 projects, 11 families of tables, 3 further rows | references stay in scope; requests stay in their tenant, project and application; no pointer to an object and no audit entry goes by cascade (statements of the application role; the owner-role purge the migrations allow for is not in the repository) |
| `components`: Provisioning | 3 commands, 2 slugs | a tenant is whole; a shown key is what was asked for; only a stopped command leaves a tenant without one |
| `components`: Configuration | 9,700 deployments of the four programs | what starts can work; production is safe; two repairs suffice, or three when one takes the `.env` file away |
| `canonical_colour` | the queries of `components` | **violated**: see findings |
| `default_configuration` | the required variables only | **violated**: see findings |

### Bounds

- Three requests are enough for the conflicts the code has: a holder, one that
  lost to it, and one that comes when the row has gone; a key, one that uses it
  and one that revokes it. One key suffices, since no statement of the table
  names two and requests with different keys share nothing.
- `MaxExpiries = 1` lets a key live twice, `MaxClock = 1` lets an overlap end.
- `Units`: two of one counter (a later count joins one put back) and one of
  another (a flush sends two jobs). `MaxAttempts = 2` and `MaxStalls = 1`
  stand for 5 and BullMQ's default of 1: a job is retried once and then fails.
- `Events` bounds how many ids a recorder draws; when they are used up no flush
  can send. Two are a batch that is put back and sent again under a new id
  together with what came in between, or two jobs of one flush at two handlers;
  `usage_double_count` needs a third. This is one reason for `CHECK_DEADLOCK FALSE` in the UsageMetering
  runs; the other is that the system is at rest once everything recorded is
  counted. The other modules have an explicit step `AllServed` and TLC checks
  them for deadlock.
- `Faults` selects the faults of an instance. `upload_safety` leaves out the
  two that report a failure after the COMMIT took effect, because the
  properties are false under them; that is the subject of
  `upload_double_create`, not an oversight. Its next-state relation,
  `GuardedNext`, is `Next` without those two steps (`LateFault`), which the
  uploads of `liveness` take.
- `storage_safety`: three operations are a reader, a writer, and one that came
  before or between them; two keys let a list have two pages (`Limit = 1`)
  and a copy a source and a destination. `MaxFaults = 1`. All operations run
  in one process, so a crash takes all that are in flight and new ones start
  on what is left; in several processes those of sftp interleave as webdav's
  do, which is in the run. With one key written once, no copy has both ends
  written once: that case of `ObjectStore` is stated, not exercised.
- Queries: pairs of parameters interact at most three at a time (a size, a
  ratio or pixel ratio, and a mode); the third comes from those that do.
  Sizes lie at the limits (8192, 3125 = 2.5 megapixels' side at dpr 2, 0).
- ApiProcess: two handlers contend for one connection with two timer flushes
  and the flush of `stop`, so each can overlap each; three uses of a key are
  one before, one during and one after a flush.
- TenantDatabase: a behaviour works on one family, the tables that refer to
  each other; a reference that crosses a scope takes a row on each side and one
  between, hence `MaxRows = 3`. Chain rows are of two tenants, one with two
  applications and two projects in one of them, so each kind of crossing has
  its candidates. The longest chain of cascades is two; `Removed` follows four.
- Configuration: the variables of one provider take all values together with
  one thing that is wrong elsewhere; four `.env` files, or none.
- Symmetry is used in safety runs only.

### Fairness

Weak fairness of what the server does by itself. In IdempotentUpload
(`WF_vars(ServerStep(r))`) and ApiKeys (`WF_vars(Proceed(r))`) Node runs every
continuation, and a statement succeeds or fails within `statement_timeout`.
Nothing obliges a storage call to settle, since the adapters set no timeout, so
`EveryUploadEnds` says that an upload ends or stays at its put. In ApiKeys the
failure of a statement (`StatementFails`) is a fault that need not come, so
`EveryRequestEnds` rests on the locks being released. For metering, the
flush timer fires again and again, `queue.add` settles, a worker loop takes
waiting jobs, and BullMQ's stalled checker finds a job whose worker is gone.

In `ApiProcess`, statements end by the pool's `statement_timeout` and waits for
a connection by `connectionTimeoutMillis`, so what a handler or a flush does
next with the database happens, and the event loop resumes shutdown when what it
awaits has settled. No fairness is assumed where the code sets no timeout: the
client's multipart body (`asset.routes.ts`, `multipart.ts`; `app.ts` sets no
`requestTimeout` or `connectionTimeout`), `storage.put`, and the ends of Redis
and of the storage. `ShutdownEnds` therefore names them: once it is shutting
down, the process exits, or one connected client's body is awaited for ever, or
one put, or one of the two ends. That nothing else, the pool, the tracker or
another handler, can hold it up is what it shows. The other parts of
`components` have no fairness and no fair step of `ApiProcess` is enabled while
it rests. In `MCLiveness` the three parts keep their own fairness, of which
nothing is enabled in an initial state.

The properties of `liveness` have the form `<>[]`: a request runs once and
a count that has arrived stays, so it says the same as a leads-to of each and
takes TLC one tableau instead of several.

Nothing is assumed of clients (`Arrive`, `Record`, `BodyArrives`), of time
(`Expire`, `Tick`) or of faults (`Crash`, a stall of a live worker).

### Findings

1. `upload_double_create`: `keys.complete` runs inside the try whose catch
   releases the key. If that UPDATE fails after the upload committed, the key
   of a create that happened is released, and a retry creates a second asset;
   `idempotency.service.ts` says "a create runs at most once per key".
2. `upload_orphan`: a `put` that stored the object and then fails (the local
   adapter's stat after its rename, a lost answer) leaves the object, while
   `docs/API/11-UPLOAD-API.md` says a rejected upload leaves "no rows, no
   object".
3. `usage_double_count`: a rejected `queue.add` whose job was stored is sent
   again under a new event id, which the ledger cannot recognise;
   `docs/PLAN/15-QUOTA-LIMITS.md` says "exactly once".
4. `storage_mix`: a get during a put over an existing object answers the new
   content type with the old bytes in the file adapters, while `types.ts` says
   "never a mix". For keys written once this cannot happen
   (`ImplementsObjectStore`), and the platform writes no others today.
5. `canonical_colour`: `canonicalize.ts:264` looks a colour name up in a plain
   object, which also answers for the properties it inherits. `bg=constructor`
   and `bg=__proto__` are accepted; padding puts the text of a function or an
   object into the canonical form, which is refused when it is sent again, and
   flattening throws a TypeError. `colors.ts` says that a name is "Resolved to
   canonical upper-case RRGGBB before hashing".
6. `default_configuration`: `refineStorage` refuses the default provider,
   local, without `STORAGE_PROXY_SIGNING_SECRET` and `PUBLIC_BASE_URL`, while
   the test "defaults to local storage under .data/storage outside production"
   (`config.test.ts`) loads two variables, `docs/DEVOPS/03` marks the provider
   as not required and `.env.example` sets neither.

Observations that no run is about:

- A missing or ill-typed variable stops the cross-field rules, so the report
  shown in `docs/DEVOPS/03-CONFIGURATION.md` (DATABASE_URL missing together
  with STORAGE_S3_BUCKET) takes two attempts; "every problem at once" holds
  for each kind of rule. `RepairsSuffice` bounds the attempts.
- `.env` is ignored when the environment says production, not when the file
  does: a file that sets `NODE_ENV=production` itself is read, and
  `ProductionIsSafe` excuses its values.
- A client that stalls its upload, or a storage call that never settles, holds
  `app.close` and so the shutdown until a second signal (`ShutdownEnds` names
  these waits).
- Exactly 25,000,000 pixels with dpr 0.8 or 1.6 are refused, because the square
  rounds up in floating point; `docs/IMAGE-DELIVERY-PROTOCOL/04` says "at
  most". The budget is checked on the unrotated size.
- A clean exit may lose a use that was noted after `stop` began, by a handler
  whose client had gone, or one whose write then failed (`excused`).
- A provisioning command that stops between its two transactions leaves a
  tenant whose slug is taken; running it again fails.

## 4. What is proved

`IdempotentUploadProofs`, for all sets of requests, keys and payloads, all
`Faults` and any number of expiries:

- `TypeCorrect`.
- `ClaimExclusion` (`ClaimIsExclusive`). Inductive invariant `HolderOwnsRow`:
  whoever works under a key owns the key's row, which has not expired. It is
  needed because complete, release and the DELETE name rows by their key only;
  what keeps a row from them is that its owner is the only one at those labels.
- `UploadWholeness` (`CommittedUploadIsWhole`). Invariant `Staging`: the label
  says how far the staged rows and the object have come.
- `AtMostOneCreate` and `FailureMeansNothingCommitted`, when neither complete
  nor the answer of a COMMIT can fail (`NoLateFault`). Invariant
  `CreateKeepsRow`: a committed upload keeps the row of its key until that
  expires, so nobody claims the key in the same life. Finding 1 shows that the
  assumption cannot be dropped.

- `FaithfulReplay` (`ReplayIsFaithful`), when complete cannot fail
  (`CompleteSucceeds`): its failure releases a key whose response may have been
  stored, and the next request under the key answers with another one's asset.
  Invariant `ReplayInv`: a holder's row carries its fingerprint
  (`RowIsOfHolder`), and a completed row names the asset of an equal request
  that was told of it in the same step (`CompletedRow`).
- `PromiseIsKept` (`KeepsThePromise`) under `NoLateFault`. All the invariants
  above hold together (`Known`), with one more for the mapping (`MapInv`: the
  row of a key is of a request with that key, and a completed row answers with
  that request's asset). One lemma for each group of actions names the step of
  `IdempotentCreate` it is: Arrive is Ask, the DELETE of an expired row is
  Forget, Commit is Create, complete is AnswerCreated, find is AnswerReplayed
  or AnswerError, the catch block is AnswerError, Expire is Lapse; everything
  else is a stutter.

`ApiKeysProofs`, for all sets of keys, grants, applications and interleavings:

- `TypeCorrect`, together with what a request under way relies on (`IInv`): the
  caller is an issued key (`Admitted`); after its checks it is known to be of
  the application and the grant to be issued to lie within its own, a target to
  be changed is an issued key, and a key to be inserted does not exist yet
  (`Underway`).
- `Escalation` (`NoEscalation`): rows are never deleted and never change their
  application, grant or issuer (`RowsAreKept`), and a new row is within its
  issuer's grant (`NewKeys`).
- `Permanence` (`RevocationIsFinal`), an action property.
- `Refusals` (`RevokedKeyIsRefused`): invariant `Refusal`, which adds where a
  barred request can be (it never gets past authentication) and that a
  revocation about to be answered has taken effect.
- `TruthfulAudit` (`AuditTellsTheTruth`) and `EarliestOverlap`
  (`OverlapIsHonoured`). Invariant `Trail`: before its COMMIT a request has no
  entry, and a lock it holds to revoke is on a key that is not revoked yet
  (`Pending`), each entry is of the request that made it (`OwnEntry`), a key has
  one revocation when it is revoked and none before (`OneRevocation`), and its
  end is the least of the overlaps the trail names (`ShortestOverlap`).

`UsageMeteringProofs`, for any number of processes, flushes, handlers, units,
events, attempts and stalls: `TypeCorrect`; `LedgerAndUsageAgree`
(`LedgerMatchesUsage`), from the exclusive claim of a ledger row (`AtWork`: no
two open transactions are at one event, and none at an event of the ledger);
`NoCountDisappears` (`NothingIsDropped`); and `NoDoubleCount`
(`CountedAtMostOnce`) when `queue.add` does not both store a job and reject
(`RejectedMeansAbsent`). That one rests on `OnePlace`: a unit is in one bucket,
one batch or the content of one live event. Finding 3 shows that the assumption
cannot be dropped.

`ApiProcessProofs`, for any number of handlers, overlapping flushes, keys and
connections: `TypeCorrect`; `NoUseIsLost` (`TouchesAreKept`), where `Kept` adds
that no batch stands for more uses than there were and what is excused from the
moment stop begins, and `Tidy` that a free flush has no batch; and
`GracefulShutdown` (`ShutdownCutsNoRequest`), where `ShutdownInv` adds that the
pool's end is not reported before its clients are gone and gives out none after.

There too, for the limiter, with any number of addresses, lookups in flight and
windows: `BoundedFailures` (`FailuresAreBounded`), the bound of one window and
that of any span of its length. Invariant `LimiterInv`
(`Bounded`): what a window's length remembers of an address falls into two
parts, the failures counted in its entry and those from before the entry was
made. The count and the lookups in flight together never exceed
`MaxFailures - 1 + MaxLookups` (`Admitted`), since a lookup begins only below
the limit. An entry is replaced only when its window is over, and by then its
first failure is a window old (`Entry`), so of the older part one fewer is left.
The history is a set of failures with their times, which an eviction empties,
as the property says.

`UrlProofs`, about TransformParams, for every query, of any length and values,
and every context, the instance's or not: `HonestSizes`
(`SizeIsAskedAndAffordable`). The invariant (`TransformInv`) says only that the
answer is the function's for this request; the rest is about the function. A
request that is accepted passed the checks (`AcceptedForm`,
`AcceptedValues`, `ValidDimension`);
`Math.round` of a quotient is one of its two neighbours and within half of it
(`Rounding`, from `Squeeze`); a ladder gives its first rung that is not below
(`Snapping`); and the check by division bounds the product, also where the
square of the device pixel ratio comes out rounded up (`WithinProduct`,
`WithinBudget`).

Two more are about what a query means:

- `EquivalentUrls` (`EquivalentUrlsAgree`): URLs of one request are both refused
  or get one form. Whether pairs are accepted is decided pair by pair
  (`PairByPair`), and of two queries put together the later overrides the
  earlier, parameter by parameter (`RawOfBoth`, from `Decider`). So a piece of a
  query may be replaced by one that gives the same parameters values that mean
  the same (`Alike`), wherever it stands (`MeansInContext`): that is an alias or
  another dialect (`Respelling`). A pair overridden later decides nothing
  (`Overriding`), added pairs give no parameter or one for delivery (`Adding`),
  and where each parameter is given once its place is immaterial (`Reordering`).
  Maps that agree so have one meaning, step by step (`SameRequest`,
  `SameMeaning`, `SameForm`, `SameIdentity`). That includes names the colour
  table inherits (`SameStray`): they are accepted, but have no other spelling.
- `SelfContainedForms` (`FormIsSelfContained`): a form written as a query says of
  each parameter what the form holds (`FormAsQuery`), and what is read back
  passes every check (`ReadBackPasses`) and resolves to the same form
  (`ReadBackForm`), parameter by parameter (`SizeBack`, `FitBack`, `QualityBack`,
  ...). A form whose background is no colour, the one way in which a query gets
  such a form being finding 5, is excluded with the two things that a query
  cannot say (section 7); without a colour of its own a form says nothing that
  the table inherits (`BackgroundBack`). It depends on the ladder having been climbed already: a dimension that
  was snapped is snapped to itself (`SnapTwice`) and within the limits
  (`SnapInRange`).

There too, for signed URLs, with any objects, types, sizes, lifetimes and
uploads: `StoredAndServedAsPresigned` (`OnlyAsPresigned`). Invariant `ProxyInv`: a token
that was issued says what was presigned (`Signed`), a body under way was let in
by an upload token for its key that had not expired (`Promised`), and what is
stored or was served points to such a token. It needs `SecondsRoundDown`: the
expiry is written in whole seconds, rounded down, so a token is never good for
longer than was asked.

`TenancyProofs`, about TenantDatabase, for any set of rows, ids and principals
and any number of statements:

- `ScopedReferences` (`ReferencesStayInScope`) and `NothingErased`
  (`NothingIsErasedSilently`), in spite of unscoped code that may write any row
  the schema accepts. Invariant `TablesOK`: foreign keys and unique keys hold
  (`Consistent`, `Unique`). That a delete keeps it takes a fact about the
  schema, checked reference by reference: nothing that cascades is the target
  of a cascade, so what one delete takes along refers to nothing but what it
  deletes (`SoundKey`). The crossing of scopes is excluded by the columns of
  the keys (`WholeKey`).
- `RequestsReach` (`RequestsStayInReach`), with `InReach`: the project that a
  request entered stays of its key's application and coverage. It stays so
  because no code moves a project and because a new project never gets the id
  of the one a request works in (section 5).

And about Provisioning, for any number of commands: `WholeProvisioning`
(`ProvisioningIsWhole`). `Progress` says how far each command has come and what
is committed of it; `SlugIsFree` that the unique key reserves a slug for the one
insert in flight, from which one tenant per slug follows.

`StorageAdaptersProofs`, for any operations, finitely many keys, any page
limits and faults, and all five adapters:

- `LastWriteWins` (`SerialWriteWins`) and `ExactReads`
  (`UndisturbedReadIsExact`). Invariant `AdapterInv`: a settled key holds one
  write in both of its files (`Settled`); an operation that is alone knows that
  its key is settled or what it has itself done of it (`Alone`, `Halfway`: the
  sidecar is moved first, and removed last); a read keeps what it was to expect
  and the part it has found of it (`Expecting`, `Found`, `Exact`).
- `CompleteListings` (`ListingIsComplete`). Invariant `ListInv`: a list under way
  has handed out, in order, the keys up to its cursor that had an object all
  along, and has the others ahead of it, in directories to walk or names found
  (`UnderWay`). A page is the first keys after the cursor (`PageIs`), and there
  is a sorted sequence of them because the smallest set without one would have
  one but for its greatest key (`Sorted`).
- `AdaptersAreStores` (`ImplementsObjectStore`): every step of an adapter is a
  step of `ObjectStore` or a stutter on keys that are written once. Invariant
  `OnceInv`: such a key has one writer and no delete (`OnceKey`), its sidecar is
  there before its object, so whoever has seen the object sees the same type
  (`OnceOp`).

`ConfigurationProofs`, for every environment and `.env` file, with any
variables and values:

- `StartedIsUsable` (`ConfigurationIsUsable`) and `SafeInProduction`
  (`ProductionIsSafe`). Invariant `Runs`: what runs is what the schema made of
  variables about which there was nothing to report. `NeverThrows` is the claim
  of `toStorageConfig`: each variable that `present` insists on is required by
  `refineStorage` for the same provider or has a default.
- `ReportsLeadThere` (`RepairsSuffice`). Invariant `Reports`: the refusals so far
  and the reports to come (`LeftOf`) are within the bound. `RepairHelps` shows
  that a repair lowers the measure, from `RulesMet`: doing what the cross-field
  rules ask for satisfies all of them, since no rule asks for more once a
  variable is set, and none names a variable that decides which rules apply.

All rest only on the ASSUMEs of the modules and on the three named assumptions
above, each of which is a set of faults that a run or a finding is about. The
ASSUMEs are distinct sentinels (`ValuesAssumption`: the values that stand for
"nothing there" are no operation), subsets of what they are chosen from, natural
bounds (`LimiterAssumption`, `ProxyAssumption`), a key to present, a chain of
tenants, applications and projects that the schema accepts and principals that
have a tenant and no project yet (`TenantAssumption`), a schema for each
program (`DeploymentsAssumption`), finitely many keys in a store (`FiniteKeys`),
queries that are sequences of pairs, none of whose keys is a property of
`Object.prototype` (`QueriesAssumption`), contexts with the
fields of `CanonicalizeContext` and an orientation by quarter turns
(`ContextsAssumption`), and `utm_source` not being a slip of a parameter's name
(`NearMissesAssumption`). TLC evaluates each of them.

Only model-checked: liveness (`EveryRequestEnds`, `EveryCountArrives`,
`EveryUploadEnds`, `ShutdownEnds`). Fairness and ENABLED are out of the prover's reach. Every other
property of a passing run is a theorem, some under one of the three assumptions.

## 5. Assumptions of the models

- No request is still working when its row's 24 hours are over (`Expire` has
  that guard). A create takes seconds; only a put that hangs for a day, which no
  timeout of the code rules out, would outlive its row.
- Equal fingerprints mean equal payloads (SHA-256), fresh ids are fresh.
- Every process reads one clock.
- Each application of ApiKeys is of a tenant of its own, as provisioning makes
  them; a scoped query for another tenant's key finds nothing.
- ApiKeys has the failure limiter as a choice in `Authenticate`, so no property
  relies on it; FailureLimiter has the lookup's outcome as a choice.
- HMAC and SHA-256 are taken at their word. `isNearMiss` is a constant set
  (`NearMisses`); properties of `Object.prototype` are not among the keys of
  queries (`COMPATIBILITY_KEYS[key]` would find them). As values they are: a
  name that the colour table inherits is accepted (`INHERITED`, finding 5), and
  `fit` and `c` refuse one, `c` by a TypeError.
- TenantDatabase: ids are never reused, so `newId` never gives a project the id
  of one that a request works in; an UPDATE meets the unique keys as an INSERT
  does; no code sets `tenant_id` or
  `project_id` of an existing row; permissions and a project's status are
  passed or not by the choice of entering.
- Postgres is read committed; BullMQ, Redis and the object store are modelled
  from how the code calls and configures them.
- Reads of the asset and key modules (`get`, `list`) change nothing and are
  left out.
- A call of a file server or blob service takes effect before its failure is
  reported or its caller dies, or never; blob services answer a read after a
  write with what was written.

## 6. Plan

Done, in this order: IdempotencyKeys, IdempotentUpload, IdempotentCreate and
its refinement; ApiKeys; UsageMetering; the proofs of the first two;
StorageAdapters with its refinement; TransformParams; FailureLimiter;
ApiProcess; ProxyTokens; DatabaseSchema and TenantDatabase; Provisioning;
Configuration.

Proofs, in this order: claims, transactions and creates of the upload; keys;
metering; audit and overlaps; replays; ApiProcess; the refinement of the upload;
Provisioning; ProxyTokens; FailureLimiter; TenantDatabase; the storage adapters
and their refinement; Configuration; the sizes of TransformParams; listings;
the equivalence of URLs and the self-contained forms.

Left, by worth:

1. The worker's start-up and shutdown (`runner.ts`), which close the queue
   before the pool.
2. The native presigning of the adapters.

## 7. Not modelled

Image decoding (libvips), the key grammar and native presigning of the adapters,
the migrator, the table `quotas` (it refers to nothing), the start-up of the
processes before they listen, `/readyz`, the worker's shutdown (BullMQ's
`close`), logging and HTTP formatting. In TransformParams, three things a query
cannot say are left out of `FormIsSelfContained`: a resolved gravity region,
that an oriented source stays unrotated, and a background that is no colour
(finding 5). BullMQ's in-memory stand-in and the
memory adapter serve tests only.

## Running

```
tlc -workers 2 -config IdempotentUpload_safety.cfg MCIdempotentUpload
tlapm IdempotentUploadProofs.tla
```
