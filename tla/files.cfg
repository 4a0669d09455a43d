SPECIFICATION FilesSpec
CONSTANTS
  CubFiles <- TestCubFiles
  Indices = {0, 1, 2, 8180}
  MaxNext = 3
  U32 = 256
  U64 = 65536
  LxaSizes <- TestLxaSizes
  LxaIndices = {0, 1, 2, 45}
  Counters = {0, 1}
  SizeT = 65536
CHECK_DEADLOCK FALSE
INVARIANTS
  FramesAsAsked OwnPixels PixelsKeepPlaces
  RecordAsAsked
PROPERTY FailureSticks
