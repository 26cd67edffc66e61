CONSTANTS
    u1 = u1 u2 = u2 u3 = u3 u4 = u4 b1 = b1 b2 = b2
    file = file
    Loads <- MCLoads
    Broadcasts = {u3}
    Tag <- MCTag
    Ids = 8
    QueueMax = 1
    GroupMax = 2
    TurnMax = 4
    CastMax = 1
    DoneMax = 4
    MaxFaults = 2
    None = None
SPECIFICATION LiveSpec
PROPERTY EverythingArrives DroppedStaysDropped
INVARIANT OnceAndWhole ConfirmedArrived
CHECK_DEADLOCK FALSE
