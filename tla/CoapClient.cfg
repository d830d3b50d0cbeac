SPECIFICATION Spec
CONSTANTS
  Tokens = {t1, t2}
  ResponseKinds = {"notify", "garbage", "plain", "error"}
  SendCapacity = 1
  RecvCapacity = 1
  Duplicates = TRUE
  NotifyWindow = 2
  MaxSequence = 2
  MaxConnections = 2
SYMMETRY Symmetry
CHECK_DEADLOCK FALSE
INVARIANTS TypeOK RegistryExact
PROPERTY ConfigMonotone
