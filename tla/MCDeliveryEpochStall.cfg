SPECIFICATION FairSpec
CONSTANTS
    None = None
    p1 = p1
    p2 = p2
    phone = phone
    Publishers <- OnePublisher
    Clients <- ThePhone
    ReplayCapacity = 1
    ReplayMaxBytes = 100
    ReplayResponseMaxBytes = 100
    Sizes = {1}
    NotificationMaxBytes = 10
    TruncatedBytes = 1
    PageLimits = {1}
    PageLimit = 1
    QueueCapacity = 4
    MaxEventId = 1
    MaxStream = 2
    MaxRecoveryBufferedEvents = 9
    FaultKinds = {"protocol"}
    MaxFaults = 1
    UnsupportedStreams = {}
CHECK_DEADLOCK FALSE
PROPERTIES
    Converges
