CONSTANTS
  Latest = 3
  Behind = 1
  Ahead = 2
  Wrap = 4
  Base = 8
  CharSigned = FALSE
  MaxRows = 5
  MaxFailures = 1
  NaN = NaN
  MaxSteps = 2
  MaxEvents = 4
SPECIFICATION Spec
INVARIANT ViewTypeOK
INVARIANT ReplyIsWhole
PROPERTY IndexStaysInView
INVARIANT ListedAtPosition
PROPERTY CatchesUp
CHECK_DEADLOCK FALSE
