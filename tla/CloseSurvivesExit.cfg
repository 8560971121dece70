SPECIFICATION Spec
CONSTANTS
    QueueLimit = 4
    ReplySize = 2
    ReadSize = 2
    PipeLimit = 2
    TtyLimit = 1
    Tokens = {"query", "begin"}
    MaxWrites = 3
    MaxKeys = 2
    MaxRespawns = 1
INVARIANT CloseSurvivesExit
CHECK_DEADLOCK FALSE
