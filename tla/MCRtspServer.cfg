SPECIFICATION FairSpec
CONSTANTS
    Clients = {tab, vlc}
    Ports = {5004, 6000}
    NoClient = none
    Backlog = 1
    SeqMod = 3
    MaxPackets = 2
    MaxSessions = 2
INVARIANTS
    TypeOK
    StreamFollowsSession
    AtMostOneLateFrame
    FrameToOneDest
PROPERTIES
    SeqConsecutive
    GrantSpec
    LeaverReleases
CHECK_DEADLOCK FALSE
