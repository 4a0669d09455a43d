SPECIFICATION FairSpec
CONSTANTS
  Objects = {a, b}
  Cap = 2
  MaxFrames = 4
CHECK_DEADLOCK FALSE
INVARIANTS TypeOK MembersOutliveThread WaitsAreMet
PROPERTIES DeliversFrames GetNextProgress DestructorReturns
