SPECIFICATION FairSpec
CONSTANTS
    m = m
    f1 = f1
    f2 = f2
    Urgent = {m}
    Bulk = {f1}
    Size <- SizeOf
    SmallRoom = 2
    BigRoom = 3
    Window = 3
    SendHigh = 1
    SendMax = 4
    Cwnd = 2
    Reorder = 2
    AckRanges = 1
    RxRanges = 2
    MaxPieces = 3
    Narrow = {1}
    Together <- UpToTwo
INVARIANTS
    TypeOK
    NothingForgotten
PROPERTIES
    ReadsTheStream
    EverythingArrives
CHECK_DEADLOCK FALSE
