SPECIFICATION FairSpec
CONSTANTS
    None = None
    a = a
    b = b
    c = c
    z = z
    Chats <- TheChats
    Home <- TheHome
    Rank <- TheRank
    Start <- TheStart
    FastLimit = 1
    FullLimit = 2
    StreamLimit = 3
    DeepPageLimit = 1
    TtlPolls = 1
    MaxMoves = 2
    MaxExtras = 1
CHECK_DEADLOCK FALSE
INVARIANTS
    DrawerTypeOK
    DeletedStaysGone
    FileFollowsDrawer
    PurgeIsFinal
PROPERTIES
    IndicatorsGoOut
    ListConverges
