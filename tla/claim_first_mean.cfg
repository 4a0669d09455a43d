SPECIFICATION Spec
CONSTANTS
  B = 3
  Cap = 2
  MaxFrames = 3
CHECK_DEADLOCK FALSE
INVARIANT FirstMeanExists
