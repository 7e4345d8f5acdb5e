SPECIFICATION Spec
CONSTANTS
    Jobs = {"heartbeat", "drink", "call", "meet"}
    Kind <- MCKind
    When <- MCWhen
    SystemJobs = {"heartbeat"}
    MaxSleep = 2
    Calls = {"list"}
    OfflineCalls = {"add", "remove", "enable"}
    DiesInMerge = TRUE
    TickSlots = 3
    MaxTime = 3
    MaxCalls = 2
    MaxOffline = 2
    MaxStops = 1
INVARIANT OncePerOccurrence
PROPERTY UpdateKept

CHECK_DEADLOCK FALSE
