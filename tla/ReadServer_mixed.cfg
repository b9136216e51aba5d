CONSTANTS
  Clients = {c1, c2}
  Latest = 2
  Ahead = 1
  Behind = 1
  Times = {1, 2}
  Queried = {1, 2}
  MaxRows = 2
  MaxRequests = 2
SPECIFICATION Spec
INVARIANT HeaderCountsRows
