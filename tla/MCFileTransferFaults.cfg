CONSTANTS
    Size = 3
    Sessions <- MCSessions
    Chunks <- MCChunks
    Window = 2
    LineFaults <- MCAnyFaults
    MaxFaults = 2
    None = None
    AckBlocks = 2
    BufferMax = 3
    AheadMax = 2
SPECIFICATION Spec
INVARIANT TypeOK FileInOrder ConfirmedIsHeld VerdictsAreRight
CHECK_DEADLOCK FALSE
