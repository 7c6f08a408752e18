SPECIFICATION FairSpec
CONSTANTS
    None = None
    m1 = m1
    m2 = m2
    m3 = m3
    tool = tool
    ask = ask
    Submissions <- ThreeMessages
    Tools = {}
    Asks <- OneAsk
    SteerModes = {}
    QueueMaxItems = 2
    MaxSteerTasks = 0
    MaxGeneration = 3
    MaxEvents = 2
    MaxRestarts = 1
    FaultKinds = {"persist", "refuse", "lost"}
    MaxFaults = 2
INVARIANTS
    AtMostOnce
    DurableBeforeDelivery
    FirstComeFirstServed
    AgreesWithSession
PROPERTIES
    QueueDrains
CHECK_DEADLOCK FALSE
