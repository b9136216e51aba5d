CONSTANTS
  Sensors = {0, 1, 2}
  Values <- AllValues
  MaximumTimeout = 2
  DbMayFail = FALSE
  MaxRows = 6
  Frames <- AllFrames
  Heads <- AnyTail
  MaxFrames = 6
SPECIFICATION LinkSpec
INVARIANT LinkTypeOK
INVARIANT TableIsRoundsOfFrames
INVARIANT StoredReadingsGenuine
PROPERTY CleanLinkIsCollector
CHECK_DEADLOCK FALSE
