SPECIFICATION FairSpec
CONSTANTS
    Chats = {a, b}
    NoChat = noChat
    First = a
    MaxRuns = 1
    MaxMoves = 1
    MaxStops = 1
    MaxExtras = 1
CHECK_DEADLOCK FALSE
INVARIANTS
    ChatScreenTypeOK
    SpinnerHasAnEnd
PROPERTIES
    HeaderSettles
    TranscriptSettles
    StopConcludes
