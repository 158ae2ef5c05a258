SPECIFICATION Spec
CONSTANTS
    MaxPacket = 7
    RtpHdr = 2
    TableHdr = 1
    TableLen = 1
    JpegHdr = 1
    DqtLen = 1
    FrameCap = 13
    FrameKinds <- MCFrameKinds
    MaxFrames = 3
    MaxFaults = 2
INVARIANTS
    TypeOK
    PacketsWellFormed
    LengthsInBounds
    IntactFramesDelivered
    DeliveredInOrder
CHECK_DEADLOCK FALSE
