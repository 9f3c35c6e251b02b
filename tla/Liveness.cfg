\* Keys: three requests that contend for row locks.  Usage: every fault of
\* the worker's side.  Uploads: three requests that race for one key under
\* every fault.  No symmetry: temporal properties.
SPECIFICATION FairOne
CONSTANTS
  Roots = {root}
  Requests = {r1, r2, r3}
  Applications = {a1}
  a1 = a1
  a2 = a2
  p1 = p1
  p2 = p2
  ProjectsOf <- AppProjects
  AllProjects = AllProjects
  Grants <- FullGrant
  Overlaps = {0}
  System = System
  Unknown = Unknown
  Nobody = Nobody
  Never = Never
  MaxClock = 0
  Faults = {"db", "crash"}

  u1 = u1
  u2 = u2
  c1 = c1
  Procs = {b1}
  Slots = {s1}
  Workers = {w1, w2}
  Units <- TwoUnits
  Counters = {c1}
  CounterOf <- OneCounter
  Events = {e1, e2}
  NoEvent = NoEvent
  NoWorker = NoWorker
  MaxAttempts = 2
  MaxStalls = 1
  UsageFaults = {"tx", "commit_unacked", "stall", "proc_crash", "worker_crash"}

  Uploads = {q1, q2, q3}
  UploadKeys = {k1}
  Payloads = {y1}
  Refused = {}
  None = None
  NoKey = NoKey
  Malformed = Malformed
  UploadFaults = {"claim", "tx", "put", "put_unacked", "commit_unacked",
                  "complete", "release", "crash"}
  MaxExpiries = 1
CHECK_DEADLOCK FALSE
PROPERTIES
  EveryRequestEnds
  EveryCountArrives
  EveryUploadEnds
