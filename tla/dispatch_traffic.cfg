SPECIFICATION FairSpec
CONSTANTS
    Msgs <- TrafficMsgs
    Sessions <- TwoSessions
    SessionOf <- TheSession
    KindOf <- TheKind
    MaxConcurrent = 1
    QueueCap = 2
    MaxInject = 1
    MaxCycles = 1
    TasksStartFirst = FALSE
    NoTask = NoTask
INVARIANTS
    AutomationIsolated
PROPERTIES
    EveryMessageEnds
    SubmitReturns
CHECK_DEADLOCK FALSE
