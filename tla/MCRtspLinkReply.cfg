SPECIFICATION Spec
CONSTANTS
  Slots = {k1, k2}
  NoSlot = NoSlot
  Backlog = 1
  TcpBuf = 2
  MaxReboots = 0
  MaxTimeouts = 0
INVARIANT ReadsOwnResponse
CHECK_DEADLOCK FALSE
