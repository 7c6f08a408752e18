SPECIFICATION HubSpec
CONSTANTS
    p1 = p1
    p2 = p2
    c1 = c1
    c2 = c2
    Publishers <- MCPublishers
    Clients <- MCClients
    ReplayCapacity = 3
    ReplayMaxBytes = 5
    Sizes = {1, 3, 7}
    NotificationMaxBytes = 4
    TruncatedBytes = 2
    QueueCapacity = 2
    MaxEventId = 4
    MaxStream = 2
    PageLimits = {1, 3}
    ReplayResponseMaxBytes = 4
SYMMETRY HubSymmetry
INVARIANTS
    HubTypeOK
    BufferIsNewestRun
    EveryPageIsExact
    FormsFollowLoops
PROPERTIES
    ImplementsEventLog
