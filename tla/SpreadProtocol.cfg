SPECIFICATION Spec
CONSTANTS
  Procs = {1, 2, 3}
  SegOf <- MCSegOf
  Messages = {1, 2, 3, 4, 5}
  TypeOf <- MCTypeOf
  NumElements <- MCNumElements
  Starts <- MCStarts
  Window = 2
  Personal_window = 1
  MAX_SEQ_GAP = 1600
  Accelerated_ring = FALSE
  ARQ = 2
  LatePackets = FALSE
  MaxForms = 2
INVARIANTS StateSound AgreedOrder DeliveredOnce VirtualSynchrony SafeDelivery SelfDelivery FlowControlExact
CHECK_DEADLOCK FALSE
