SPECIFICATION MCSpec
CONSTANTS
  Replica = {r1, r2}
  Null = Null
  MaxCalls = 4
  MaxRestarts = 1
  SlowUser = FALSE
  SlowCalls = 3
CHECK_DEADLOCK FALSE
INVARIANTS
  TypeOK
  ReplyMatchesInLife
PROPERTIES
  SlowCallReturns
