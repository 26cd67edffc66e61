CONSTANTS
    N = 1
    Faults = {"brestart"}
    MaxFaults = 1
    None = None
SPECIFICATION FairSpec
INVARIANT NothingIsLost
CHECK_DEADLOCK FALSE
