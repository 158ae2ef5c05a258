SPECIFICATION Spec
CONSTANTS
    MaxNals = 2
    CheckedLen = 3
    CheckedNals = 3
    MaxPacket = 7
    RtpHdr = 2
    FuHdr = 2
    StartLen = 2
    FrameCap = 12
    UnitKinds <- MCUnitKinds
    MaxUnits = 3
    MaxFaults = 2
INVARIANT TypeOK
INVARIANT SplitIsRight
INVARIANT PacketsFit
INVARIANT Resynchronises
INVARIANT DamageIsLocal
CHECK_DEADLOCK FALSE
