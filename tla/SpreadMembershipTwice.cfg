SPECIFICATION Spec
CONSTANTS
  Procs = {1, 2, 3}
  SegOf <- MCOneSegment
  MAX_REPS = 25
  MAX_FORM_REPS = 20
  MAX_PROCS_RING = 128
  Starts <- MCTwiceStarts
  LateForms = FALSE
  MaxArq = 3
INVARIANT CountedOnce
CONSTRAINT LatePacket
CHECK_DEADLOCK FALSE
