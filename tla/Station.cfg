CONSTANTS
  MaxRows = 3
  MaxCommands = 5
  Unset = Unset
  Interleavings = {{}, {"cursor", "buffer", "connection"}}
SPECIFICATION StationSpec
INVARIANT StationTypeOK
INVARIANT RowsFollowAsked
INVARIANT TransferAscends
INVARIANT PushedTwiceIsNewest
INVARIANT PhoneThreadSurvives
PROPERTY ApartLackedIsSent
PROPERTY NothingMissed
PROPERTY IndexIsPosition
CHECK_DEADLOCK FALSE
