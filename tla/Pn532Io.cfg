SPECIFICATION FairSpec
CONSTANTS
  Codes = {"InListPassiveTarget", "InCommunicateThru"}
  Serials = 3
CHECK_DEADLOCK FALSE
INVARIANTS AnswersItsCommand
PROPERTIES EveryCommandReturns LightsGetTheLock
