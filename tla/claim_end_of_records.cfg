SPECIFICATION LxaSpec
CONSTANTS
  LxaSizes = {200}
  LxaIndices = {10}
  Counters = {0, 1}
  SizeT = 65536
CHECK_DEADLOCK FALSE
INVARIANT EndReported
