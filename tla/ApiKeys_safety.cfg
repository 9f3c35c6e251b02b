\* A bootstrap key and three requests, any of which may use, rotate or revoke
\* a key that another one issued.
SPECIFICATION Spec
CONSTANTS
  Roots = {root}
  Requests = {r1, r2, r3}
  Applications = {a1, a2}
  a1 = a1
  a2 = a2
  p1 = p1
  p2 = p2
  ProjectsOf <- AppProjects
  AllProjects = AllProjects
  Grants <- SomeGrants
  Overlaps = {1}
  System = System
  Unknown = Unknown
  Nobody = Nobody
  Never = Never
  MaxClock = 1
  Faults = {"db", "commit_unacked", "crash"}
SYMMETRY Symmetry
INVARIANTS
  TypeOK
  NoEscalation
  AuditTellsTheTruth
  OverlapIsHonoured
  RevokedKeyIsRefused
PROPERTY RevocationIsFinal
