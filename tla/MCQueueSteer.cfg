SPECIFICATION Spec
CONSTANTS
    None = None
    m1 = m1
    m2 = m2
    m3 = m3
    tool = tool
    ask = ask
    Submissions <- TwoMessages
    Tools <- OneTool
    Asks <- OneAsk
    SteerModes = {"native", "handoff"}
    QueueMaxItems = 2
    MaxSteerTasks = 2
    MaxGeneration = 3
    MaxEvents = 2
    MaxRestarts = 0
    FaultKinds = {"steer", "answer", "verify", "payload", "prepare", "respond", "refuse", "status"}
    MaxFaults = 1
SYMMETRY PairSymmetry
INVARIANTS
    EachMessageInOnePlace
    EditedStaysNext
CHECK_DEADLOCK FALSE
