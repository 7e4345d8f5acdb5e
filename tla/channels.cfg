SPECIFICATION FairSpec
CONSTANTS
    Producers <- TwoProducers
    Script <- Scripts
    Names <- Telegram
    Initially <- Telegram
    Callers <- OneRequest
    Outcomes <- Returns
    None = None
    MaxInstances = 2
    MaxDropped = 1
    MaxAttempts = 2
CONSTRAINT ThreeWithCancelled
INVARIANTS
    InOrder
    OnlyRepetitions
    Owned
PROPERTIES
    Delivered
CHECK_DEADLOCK FALSE
