\* Two attempts with one key when storing the response fails.
CONSTANTS
  Requests = {r1, r2}
  Keys = {k1}
  Payloads = {p1}
  Refused = {}
  None = None
  NoKey = NoKey
  Malformed = Malformed
  Faults = {"complete"}
  MaxExpiries = 0
SPECIFICATION Spec
INVARIANT AtMostOncePerKey
