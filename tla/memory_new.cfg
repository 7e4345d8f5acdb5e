SPECIFICATION FairSpec
CONSTANTS
    u1 = u1
    u2 = u2
    u3 = u3
    c1 = c1
    n1 = n1
    d1 = d1
    Users <- ThreeTurns
    Commands <- OneCommand
    Resets <- OneNew
    Deletes <- OneDelete
    NoInput = NoInput
    MaxReplies = 1
    Suffix = 1
    Window = 4
    Limit = 5
    MaxCrashes = 1
    Racing <- NewRaces
INVARIANTS
    FreshAfterNew
CHECK_DEADLOCK FALSE
