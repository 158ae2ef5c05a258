SPECIFICATION FairSpec
CONSTANTS
  MaxLevel = 1
  Peers = {p1, p2}
  MaxIncidents = 2
INVARIANT TypeOK
INVARIANT CrashesKnown
INVARIANT ChoicesRespected
INVARIANT AtMostOneLatePacket
INVARIANT AppliedIsSaved
INVARIANT ConnectedTruth
CHECK_DEADLOCK FALSE
PROPERTY KeepsTrying
