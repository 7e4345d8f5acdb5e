SPECIFICATION Spec
CONSTANTS
    Msgs <- StopMsgs
    Sessions <- TwoSessions
    SessionOf <- TheSession
    KindOf <- TheKind
    MaxConcurrent = 1
    QueueCap = 1
    MaxInject = 1
    MaxCycles = 1
    TasksStartFirst = FALSE
    NoTask = NoTask
INVARIANTS
    SessionExclusive
    QueueHasConsumer
    NothingLostOrDoubled
    DeferredHasPublisher
PROPERTIES
    ServiceSpec
CHECK_DEADLOCK FALSE
