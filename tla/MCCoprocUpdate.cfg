SPECIFICATION FairSpec
CONSTANTS
    Chunks = 3
    MaxCuts = 2
INVARIANT TypeOK
INVARIANT AlwaysRecoverable
INVARIANT MarkerTruthful
PROPERTY Settles
CHECK_DEADLOCK FALSE
