SPECIFICATION FairSpec
CONSTANTS
    Edits = 2
    Faults = {"pause", "leave", "cut", "restart", "late", "fail"}
    MaxFaults = 1
PROPERTIES
    NoPhantomChanges
    FoldersMeet
\* The system may stop: nothing is edited any more and both folders agree.
CHECK_DEADLOCK FALSE
