CONSTANTS
  p1 = p1
  p2 = p2
  Phones = {p1, p2}
  Bonded = {p1}
  Payload <- MCPayload
  Requests = {"known", "short", "other"}
  MaxWrites = 2
  MaxCalls = 3
  Chunk = 2
  Lengths = {0, 1, 2, 3, 5}
  MaxExits = 1
SPECIFICATION Spec
INVARIANT RelayTypeOK
INVARIANT NotifyCountsSubscribers
INVARIANT NotifyingCatchesUp
PROPERTY AnswerArrivesWhole
PROPERTY StandsOnlyOverShort
CHECK_DEADLOCK FALSE
