SPECIFICATION FairSpec
CONSTANTS
  Replica = {r1, r2}
  Null = Null
  MaxCalls = 2
  MaxRestarts = 0
  SlowUser = FALSE
CHECK_DEADLOCK FALSE
PROPERTIES
  CallReturns
