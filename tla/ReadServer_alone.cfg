CONSTANTS
  Clients = {c1}
  Latest = 3
  Ahead = 1
  Behind = 2
  Times = {1, 3, 4}
  Queried = {2, 5}
  MaxRows = 4
  MaxRequests = 2
SPECIFICATION Spec
INVARIANT TypeOK
INVARIANT HeaderCountsRows
INVARIANT LatestRows
INVARIANT WindowHasNoGap
INVARIANT NeighboursOfTime
INVARIANT RepliesAreFresh
