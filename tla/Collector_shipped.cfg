CONSTANTS
  Sensors = {0, 1, 2}
  Values = {0, 12005, 25755}
  MaximumTimeout = 2
  DbMayFail = TRUE
  MaxRows = 3
SPECIFICATION FairSpec
INVARIANT TypeOK
INVARIANT IndexIsPosition
INVARIANT PushedRowsMatch
INVARIANT Inv
PROPERTY AbstractSpec
PROPERTY CompleteRoundIsStored
CHECK_DEADLOCK FALSE
