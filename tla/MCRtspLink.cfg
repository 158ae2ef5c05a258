SPECIFICATION FairSpec
CONSTANTS
  Slots = {k1, k2}
  NoSlot = NoSlot
  Backlog = 1
  TcpBuf = 3
  MaxReboots = 2
  MaxTimeouts = 9
INVARIANT TypeOK
INVARIANT AgreedPlay
PROPERTY HandshakeEnds
PROPERTY BlockedOnlyByReplies
CHECK_DEADLOCK FALSE
