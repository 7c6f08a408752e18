SPECIFICATION FairSpec
CONSTANTS
    None = None
    p1 = p1
    p2 = p2
    phone = phone
    Publishers <- OnePublisher
    Clients <- ThePhone
    ReplayCapacity = 1
    ReplayMaxBytes = 100
    ReplayResponseMaxBytes = 100
    Sizes = {1}
    NotificationMaxBytes = 10
    TruncatedBytes = 1
    PageLimits = {1}
    PageLimit = 1
    QueueCapacity = 6
    MaxEventId = 3
    MaxStream = 2
    MaxRecoveryBufferedEvents = 9
    FaultKinds = {"link", "fetch", "user"}
    MaxFaults = 2
    UnsupportedStreams = {2}
CHECK_DEADLOCK FALSE
PROPERTIES
    ConvergesFromPosition
