SPECIFICATION FairSpec
CONSTANTS
  Slots = {k1, k2}
  NoSlot = NoSlot
  Backlog = 1
  TcpBuf = 2
  MaxReboots = 1
  MaxTimeouts = 1
PROPERTY LinkRecovers
CHECK_DEADLOCK FALSE
