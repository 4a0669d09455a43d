SPECIFICATION FairSpec
CONSTANTS
  in1 = in1
  out1 = out1
  Channels = {in1, out1}
  CaseLists <- TestLists
  Cap = 1
  MaxCalls = 3
  MaxLocks = 1
  CanThrow = TRUE
CHECK_DEADLOCK FALSE
INVARIANTS CallOutcome InTurn
PROPERTY WaitReturns
