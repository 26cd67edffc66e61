CONSTANTS
    N = 2
    Faults <- MCFaults
    MaxFaults = 2
    None = None
SPECIFICATION FairSpec
INVARIANT ShownOnce DeliveredIsThere
PROPERTY DeliveredStays EveryMessageArrives
CHECK_DEADLOCK FALSE
