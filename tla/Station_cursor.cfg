CONSTANTS
  MaxRows = 3
  MaxCommands = 4
  Unset = Unset
  Interleavings = {{"cursor"}}
SPECIFICATION StationSpec
PROPERTY LackedIsSent
CHECK_DEADLOCK FALSE
