SPECIFICATION PlainSpec
CONSTANTS
  t1 = t1
  t2 = t2
  t3 = t3
  Task = {t1, t2}
  Client = {c1, c2}
  Null = Null
  HashRank <- MCRank2
  MaxNew = 3
  MaxNotices = 1
  MaxHeld = 2
  MinSurvivors = 1
  ReuseNames = FALSE
PROPERTIES
  AllTasksShifted
