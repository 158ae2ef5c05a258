SPECIFICATION FairSpec
CONSTANTS
  CAM_BUFFER_COUNT = 2
  QueueLen = 2
  MaxCaptured = 3
  MaxRemote = 4
INVARIANT TypeOK
INVARIANT BuffersAccounted
INVARIANT CopiesAccounted
INVARIANT EngineExclusive
INVARIANT CodecsAgree
INVARIANT EncodesFresh
PROPERTY RemoteInOrder
PROPERTY NeitherStarves
CHECK_DEADLOCK FALSE
