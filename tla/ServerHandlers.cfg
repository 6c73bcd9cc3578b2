SPECIFICATION FairSpec
CONSTANTS
  t1 = t1
  t2 = t2
  Task = {t1, t2}
  Client = {c1, c2}
  Callers = {c1}
  Server = {s1, s2}
  Null = Null
  HashRank <- MCRank
  Hazards = {"overtake"}
  MaxRequests = 3
  MaxFailures = 1
  MaxStarts = 3
  MaxCrashes = 1
CHECK_DEADLOCK FALSE
INVARIANTS TypeOK ReplicasConsistent ReplicaAgreement AnswersAgree AcknowledgedSurvive
PROPERTIES JoinerServes
