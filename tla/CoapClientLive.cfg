SPECIFICATION FairSpec
CONSTANTS
  Tokens = {t1, t2}
  ResponseKinds = {"notify", "plain", "error"}
  SendCapacity = 5
  RecvCapacity = 5
  Duplicates = FALSE
  NotifyWindow = 1
  MaxSequence = 1
  MaxConnections = 2
PROPERTIES EveryRequestReturns EveryConnectionReplaced StaleObservationDropped
