SPECIFICATION FairSpec
CONSTANTS
    Msgs <- GateStopMsgs
    Sessions <- TwoSessions
    SessionOf <- TheSession
    KindOf <- TheKind
    MaxConcurrent = 1
    QueueCap = 1
    MaxInject = 1
    MaxCycles = 1
    TasksStartFirst = TRUE
    NoTask = NoTask
PROPERTIES
    SubmitReturns
CHECK_DEADLOCK FALSE
