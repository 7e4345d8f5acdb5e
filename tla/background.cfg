SPECIFICATION Spec
CONSTANTS
    s1 = s1
    s2 = s2
    a1 = a1
    a2 = a2
    p1 = p1
    p2 = p2
    Sessions <- TwoSessions
    Agents <- TwoAgents
    Processes <- TwoProcesses
    None = None
    Limit = 2
    MaxExec = 2
    MaxTurns = 2
INVARIANTS
    NoOrphans
    StopStops
    ResultsKept
CONSTRAINT ThreeBesideTwoTurns
SYMMETRY Interchangeable
CHECK_DEADLOCK FALSE
