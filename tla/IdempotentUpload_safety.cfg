\* Three requests, one key, two accepted payloads and a refused one; every
\* fault under which a key still guards its create.
CONSTANTS
  Requests = {r1, r2, r3}
  Keys = {k1}
  Payloads = {p1, p2, bad}
  Refused = {bad}
  None = None
  NoKey = NoKey
  Malformed = Malformed
  Faults = {"claim", "tx", "put", "put_unacked", "release", "crash"}
  MaxExpiries = 1
SYMMETRY Symmetry
SPECIFICATION GuardedSpec
INVARIANTS
  TypeOK
  CommittedUploadIsWhole
  ClaimIsExclusive
  AtMostOncePerKey
  ReplayIsFaithful
  FailureLeavesNoRows
PROPERTIES
  KeepsThePromise
