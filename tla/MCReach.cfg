SPECIFICATION FairSpec
CONSTANTS
    Ways = {"punch", "doorbell", "radio", "lan"}
    MaxPending = 2
    Prime = 2
    PunchFaults = {"addresses", "rotate", "slow", "cut"}
    MaxPunchFaults = 2
    DoorFaults = {"settings", "tor", "address", "move", "restart"}
    MaxDoorFaults = 2
    RadioFaults = {"loss", "restart", "network", "slow", "both"}
    MaxRadioFaults = 1
    Hosts = {1, 2}
    LanFaults = {"announce", "move", "chat", "find", "lost", "late", "restart"}
    MaxLanFaults = 2
INVARIANTS
    SessionKeepsItsConnection
PROPERTIES
    WorkingStays
    GoesDirect
    TorFollows
    FindEachOther
    Agree
    FoundAgain
CHECK_DEADLOCK FALSE
