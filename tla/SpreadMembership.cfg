SPECIFICATION Spec
CONSTANTS
  Procs = {1, 2, 3}
  SegOf <- MCSegOf
  MAX_REPS = 25
  MAX_FORM_REPS = 20
  MAX_PROCS_RING = 128
  Starts <- MCStarts
  LateForms = FALSE
  MaxArq = 3
INVARIANTS TokenLostOnce OneMembershipPerId TransitionalAgreement OneTransIdPerView
CHECK_DEADLOCK FALSE
