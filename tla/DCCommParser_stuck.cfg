CONSTANTS
  UARTBUFFSIZE = 6
  UINT_MAX = 65535
  Bytes = {0, 1, 3, 67, 68, 255}
  MaxSince = 8
SPECIFICATION Spec
INVARIANT FinishedByPackets
