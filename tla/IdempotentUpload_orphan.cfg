\* One upload whose put stores the object and then fails.
CONSTANTS
  Requests = {r1}
  Keys = {k1}
  Payloads = {p1}
  Refused = {}
  None = None
  NoKey = NoKey
  Malformed = Malformed
  Faults = {"put_unacked"}
  MaxExpiries = 0
SPECIFICATION Spec
INVARIANT RejectedUploadLeavesNothing
