CONSTANTS
  Sensors = {0, 1, 2}
  Values <- AllValues
  MaximumTimeout = 2
  DbMayFail = FALSE
  MaxRows = 4
  Frames <- AllFrames
  Heads <- NoTail
  MaxFrames = 4
SPECIFICATION LinkSpec
INVARIANT ReaderKeepsRunning
CHECK_DEADLOCK FALSE
