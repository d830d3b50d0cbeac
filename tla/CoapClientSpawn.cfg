SPECIFICATION Spec
CONSTANTS
  Tokens = {t1, t2}
  ResponseKinds = {"notify", "plain", "error"}
  SendCapacity = 5
  RecvCapacity = 5
  Duplicates = FALSE
  NotifyWindow = 2
  MaxSequence = 2
  MaxConnections = 2
CHECK_DEADLOCK FALSE
INVARIANT SpawnSucceeds
