SPECIFICATION FairSpec
CONSTANTS
  Half = 3
  Lengths = {1, 2, 3, 4, 5, 6, 7, 8, 9, 10, 11, 12, 13, 14}
CHECK_DEADLOCK FALSE
INVARIANTS ShowsFrame NoStaleSignal
PROPERTIES FrameEnds
