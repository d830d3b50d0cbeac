SPECIFICATION Spec
CONSTANTS
  Lengths = {1, 2, 3, 4, 5}
  SendMax = 2
  MaxExtensions = 2
  RepeatRequests = 2
CHECK_DEADLOCK FALSE
INVARIANTS BlockNumbersAgree NoBlockMissing
PROPERTIES ImplementsApduExchange
