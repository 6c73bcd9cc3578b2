SPECIFICATION PlainSpec
CONSTANTS
  t1 = t1
  t2 = t2
  t3 = t3
  Task = {t1, t2, t3}
  Client = {c1, c2}
  Null = Null
  HashRank <- MCRank3
  MaxNew = 4
  MaxNotices = 1
  MaxHeld = 2
  MinSurvivors = 0
  ReuseNames = TRUE
INVARIANTS
  NoOrphan
  TypeOK
  OnePlace
  NothingLost
  FreshInOrder
PROPERTIES
  NoStealing
  PoolSpec
