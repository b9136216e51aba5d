CONSTANTS
  Sensors = {0, 1, 2}
  Values = {0, 119}
  MaximumTimeout = 2
  DbMayFail = FALSE
  MaxRows = 2
SPECIFICATION FairSpec
PROPERTY OpenRoundCloses
CHECK_DEADLOCK FALSE
