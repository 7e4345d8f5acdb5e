SPECIFICATION FairSpec
CONSTANTS
    Triggers = {"t1", "t2"}
    Count = 2
    TriggerOf <- OneEach
    MaxAttempts = 2
    BatchSize = 2
    DiskErrors = TRUE
    MaxStops = 2
INVARIANTS
    NotLost
    InHand
    AttemptsBounded
PROPERTIES
    NoReplay
    QueueDrains
CHECK_DEADLOCK FALSE
