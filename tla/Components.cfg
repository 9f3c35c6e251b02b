SPECIFICATION Spec
CONSTANTS
  Queries <- BoundedQueries
  Contexts <- BoundedContexts
  NearMisses <- Slips

  Addresses = {a1, a2}
  MaxFailures = 2
  WindowMs = 3
  MaxTracked = 1
  MaxLookups = 2
  MaxNow = 6

  Handlers = {h1, h2}
  Keys = {k1}
  Timers = {f1, f2}
  PoolMax = 1
  MaxTouches = 3

  ObjectKeys = {o1, o2}
  Types = {png, jpeg}
  Sizes = {1, 3}
  Lifetimes = {1}
  Uploads = {r1}
  UploadMaxBytes = 2
  MaxTokens = 2
  MaxTick = 3

  Chain <- BoundedChain
  Families <- BoundedFamilies
  FreshIds <- BoundedIds
  MaxRows = 3
  Principals <- BoundedPrincipals

  Commands = {c1, c2, c3}
  Slugs = {acme, bolt}
  Permissions = {read}
  Unknown = nothing

  Deployments <- BoundedDeployments
  NoFile = NoFile
CHECK_DEADLOCK FALSE
INVARIANTS
  EquivalentUrlsAgree
  FormIsSelfContained
  SizeIsAskedAndAffordable
  FailuresAreBounded
  ShutdownCutsNoRequest
  TouchesAreKept
  OnlyAsPresigned
  ReferencesStayInScope
  ProvisioningIsWhole
  ConfigurationIsUsable
  ProductionIsSafe
  RepairsSuffice
PROPERTIES
  ShutdownEnds
  RequestsStayInReach
  NothingIsErasedSilently
