\* Every adapter; three operations of one process, at most one fault.
CONSTANTS
  p1 = p1
  Ops = {o1, o2, o3}
  ProcessOf <- OneProcess
  Keys = {1, 2}
  Fresh = {1}
  Providers = {"local", "sftp", "webdav", "s3", "azure"}
  Old = Old
  None = None
  DefaultType = DefaultType
  Unsettled = Unsettled
  Limit = 1
  Faults = {"io", "crash"}
  MaxFaults = 1
SYMMETRY Symmetry
SPECIFICATION Spec
INVARIANTS
  SerialWriteWins
  UndisturbedReadIsExact
  ListingIsComplete
PROPERTIES
  ImplementsObjectStore
