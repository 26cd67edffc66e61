SPECIFICATION FairSpec
CONSTANTS
    Uses = {"pairing", "sharing", "groups"}
    Texts = 1
    MaxChanges = 1
    Codes = 1
    Moves = 1
    Grants = 2
    Limit = 1
    Fetches = 3
    Faults = {"cut", "restart"}
    MaxFaults = 1
INVARIANTS
    TypeOK
    VerifiedWereMet
    LimitKept
PROPERTIES
    ListsAgree
    TextsReachMembers
    AskedBack
CHECK_DEADLOCK FALSE
