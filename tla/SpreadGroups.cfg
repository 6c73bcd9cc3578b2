SPECIFICATION Spec
CONSTANTS
  Procs = {1, 2, 3}
  SegOf <- MCSegOf
  GroupNames = {1, 2}
  Members = {"a", "b", "c", "e"}
  HomeOf <- MCHomeOf
  Starts <- MCStarts
  BufDaemons = 2
INVARIANTS StateSound GroupsAgree SyncedSetsAgree  CameTogether
CHECK_DEADLOCK FALSE
