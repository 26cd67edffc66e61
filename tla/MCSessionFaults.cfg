CONSTANTS
    Conns = {1, 2}
    Tor = {2}
    MaxTries = 2
    Faults = {"cut", "slow", "crossing", "early", "unreachable"}
    MaxFaults = 2
    None = None
SPECIFICATION FairSpec
INVARIANT SameKeys
PROPERTY Settles
CHECK_DEADLOCK FALSE
