SPECIFICATION FairSearch
CONSTANTS
  Records <- MCRecords
  LinkLocal = {"local"}
  Ticks = 2
INVARIANTS ResultConsistent
PROPERTIES SearchEnds
