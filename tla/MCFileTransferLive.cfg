CONSTANTS
    Size = 3
    Sessions <- MCSessions
    Chunks <- MCChunks
    Window = 2
    LineFaults <- MCPatientFaults
    MaxFaults = 2
    None = None
    AckBlocks = 2
    BufferMax = 3
    AheadMax = 2
SPECIFICATION FairSpec
PROPERTY FileArrives SenderLearns
CHECK_DEADLOCK FALSE
