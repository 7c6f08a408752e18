SPECIFICATION Spec
CONSTANTS
    None = None
    p1 = p1
    p2 = p2
    phone = phone
    Publishers <- OnePublisher
    Clients <- ThePhone
    ReplayCapacity = 2
    ReplayMaxBytes = 100
    ReplayResponseMaxBytes = 100
    Sizes = {1}
    NotificationMaxBytes = 10
    TruncatedBytes = 1
    PageLimits = {1}
    PageLimit = 1
    QueueCapacity = 2
    MaxEventId = 4
    MaxStream = 2
    MaxRecoveryBufferedEvents = 1
    FaultKinds = {}
    MaxFaults = 0
    UnsupportedStreams = {}
CHECK_DEADLOCK FALSE
INVARIANTS
    PositionOfThisStream
