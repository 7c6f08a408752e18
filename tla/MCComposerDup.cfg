SPECIFICATION Spec
CONSTANTS
    Chats = {c1}
    New = new
    NoText = noText
    Variants = {1}
    FailedLimit = 1
    StoreLimit = 1
    MaxIds = 2
    MaxSends = 2
    MaxTypes = 3
    MaxMoves = 2
    MaxFaults = 1
    MaxBreaks = 0
    MaxCreates = 1
CHECK_DEADLOCK FALSE
INVARIANTS
    RetryNeverDuplicates
