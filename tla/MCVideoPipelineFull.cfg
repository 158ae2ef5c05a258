SPECIFICATION Spec
CONSTANTS
  CAM_BUFFER_COUNT = 2
  QueueLen = 3
  MaxCaptured = 0
  MaxRemote = 5
PROPERTY LatestFrameWins
CHECK_DEADLOCK FALSE
