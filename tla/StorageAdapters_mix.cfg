\* The local adapter: a put and a get of one key that holds an object.
CONSTANTS
  p1 = p1
  Ops = {o1, o2}
  ProcessOf <- OneProcess
  Keys = {1}
  Fresh = {}
  Providers = {"local"}
  Old = Old
  None = None
  DefaultType = DefaultType
  Unsettled = Unsettled
  Limit = 1
  Faults = {}
  MaxFaults = 0
SYMMETRY Symmetry
SPECIFICATION Spec
INVARIANT NeverAMix
