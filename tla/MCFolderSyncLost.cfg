SPECIFICATION Spec
CONSTANTS
    Edits = 2
    Faults = {}
    MaxFaults = 0
INVARIANTS
    NothingLost
CHECK_DEADLOCK FALSE
