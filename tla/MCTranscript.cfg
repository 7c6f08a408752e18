SPECIFICATION Spec
CONSTANTS
    Tools = {1, 2}
    Subagents = {1}
    MaxMsgs = 5
    MaxRuns = 2
    MaxToks = 4
    MaxLag = 1
    MaxReads = 1
    MaxParents = 1
    MaxLost = 1
CHECK_DEADLOCK FALSE
INVARIANTS
    TranscriptTypeOK
    OneRowEach
    CaughtUp
    ShownInOrder
    ShownAtRest
