SPECIFICATION Spec
CONSTANTS
    Chunks = 3
    MaxCuts = 1
INVARIANT OutdatedWasActivated
CHECK_DEADLOCK FALSE
