SPECIFICATION Spec
CONSTANTS
  t1 = t1
  t2 = t2
  Task = {t1, t2}
  Client = {c1, c2}
  Callers = {c1, c2}
  Server = {s1, s2}
  Null = Null
  HashRank <- MCRank
  Hazards = {"gap"}
  MaxRequests = 3
  MaxFailures = 0
  MaxStarts = 2
  MaxCrashes = 0
SYMMETRY MCSymmetry
CHECK_DEADLOCK FALSE
INVARIANTS
  ReplicaAgreement
