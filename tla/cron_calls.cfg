SPECIFICATION FairSpec
CONSTANTS
    Jobs = {"drink", "call"}
    Kind <- MCKind
    When <- MCWhen
    SystemJobs = {}
    MaxSleep = 2
    Calls = {"list", "add", "remove", "enable", "update", "run"}
    OfflineCalls = {"add", "remove"}
    DiesInMerge = FALSE
    TickSlots = 3
    MaxTime = 2
    MaxCalls = 2
    MaxOffline = 1
    MaxStops = 1
INVARIANTS
    DiskCurrent
    ActionsNotLost
PROPERTIES
    DueRuns
CHECK_DEADLOCK FALSE
