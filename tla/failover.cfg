SPECIFICATION FairSpec
CONSTANTS
    r1 = r1
    r2 = r2
    Requests = {r1}
    Modes = {"stream", "progress", "plain"}
    Persistence = {TRUE, FALSE}
    Fallbacks = 2
    Threshold = 2
    Retries = 2
    IdenticalLimit = 2
    FactoryFails = TRUE
INVARIANTS
    SegmentOfOneCall
    GivesUpLate
PROPERTIES
    RequestsEnd
CHECK_DEADLOCK FALSE
