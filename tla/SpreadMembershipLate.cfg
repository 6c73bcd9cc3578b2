SPECIFICATION Spec
CONSTANTS
  Procs = {1, 2, 3}
  SegOf <- MCOneSegment
  MAX_REPS = 25
  MAX_FORM_REPS = 20
  MAX_PROCS_RING = 128
  Starts <- MCLateStarts
  LateForms = TRUE
  MaxArq = 3
INVARIANT OneTransIdPerView
CONSTRAINT LateAlive
CHECK_DEADLOCK FALSE
