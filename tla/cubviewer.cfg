SPECIFICATION FairSpec
CONSTANTS
  B = 3
  Cap = 2
  MaxFrames = 9
CHECK_DEADLOCK FALSE
INVARIANTS TypeOK InOrder BufferHolds Outcome
PROPERTIES DeliversMeans MainReturns
