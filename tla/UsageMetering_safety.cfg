\* One process that flushes twice at once, two handlers, two counters; every
\* fault but the one of double_count: retried flushes, redelivered jobs.
\* The system is at rest when all is counted, or all event ids are used.
SPECIFICATION Spec
CONSTANTS
  u1 = u1
  u2 = u2
  u3 = u3
  c1 = c1
  c2 = c2
  Procs = {p1}
  Slots = {s1, s2}
  Workers = {w1, w2}
  Units <- ThreeUnits
  Counters = {c1, c2}
  CounterOf <- UnitCounters
  Events = {e1, e2}
  NoEvent = NoEvent
  NoWorker = NoWorker
  MaxAttempts = 2
  MaxStalls = 1
  Faults = {"add", "commit_unacked", "stall", "proc_crash", "tx", "worker_crash"}
SYMMETRY Symmetry
CHECK_DEADLOCK FALSE
INVARIANTS
  TypeOK
  CountedAtMostOnce
  LedgerMatchesUsage
  NothingIsDropped
