SPECIFICATION FairSpec
CONSTANTS
  Words = 2
  WordBits = 2
  SeqModulus = 4
  RnSize = 2
  MaxLevel = 1
  MaxTrouble = 1
  MaxAcks = 1
CHECK_DEADLOCK FALSE
INVARIANTS WindowExact NothingAckedIsLost SomebodyRetransmits FlightsInOrder FinishedDelivered
PROPERTY ConnectReturns
