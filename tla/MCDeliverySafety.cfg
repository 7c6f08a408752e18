SPECIFICATION Spec
CONSTANTS
    None = None
    p1 = p1
    p2 = p2
    phone = phone
    Publishers <- TwoPublishers
    Clients <- ThePhone
    ReplayCapacity = 1
    ReplayMaxBytes = 100
    ReplayResponseMaxBytes = 100
    Sizes = {1}
    NotificationMaxBytes = 10
    TruncatedBytes = 1
    PageLimits = {1}
    PageLimit = 1
    QueueCapacity = 2
    MaxEventId = 3
    MaxStream = 2
    MaxRecoveryBufferedEvents = 1
    FaultKinds = {"link", "replay", "fetch", "protocol", "user"}
    MaxFaults = 1
    UnsupportedStreams = {}
CHECK_DEADLOCK FALSE
INVARIANTS
    NoLossAboveBaseline
PROPERTIES
    EmitsWithoutGap
    BarrierHoldsPosition
    AcknowledgedAfterSnapshot
