SPECIFICATION Spec
CONSTANTS
  Passes = 2
  MaxParts = 2
  MaxRetries = 2
CHECK_DEADLOCK FALSE
INVARIANTS DoneIsDelivered LossIsShown RightOrderAccepted
