\* queue.add may reject although the job was stored.
SPECIFICATION Spec
CONSTANTS
  u1 = u1
  u2 = u2
  u3 = u3
  c1 = c1
  c2 = c2
  Procs = {p1}
  Slots = {s1, s2}
  Workers = {w1, w2}
  Units <- TwoUnits
  Counters = {c1}
  CounterOf <- OneCounter
  Events = {e1, e2, e3}
  NoEvent = NoEvent
  NoWorker = NoWorker
  MaxAttempts = 2
  MaxStalls = 1
  Faults = {"add_unacked"}
SYMMETRY Symmetry
CHECK_DEADLOCK FALSE
INVARIANT CountedAtMostOnce
