SPECIFICATION Spec
CONSTANTS
    status = status
    new = new
    result = result
    onward = onward
    u1 = u1
    u2 = u2
    Users = {u1, u2}
    Commands = {status}
    Resets = {new}
    Results = {result}
    Continuations = {onward}
    Iterations = 2
    NoInput = NoInput
SYMMETRY Symmetry
CONSTRAINT FourTaken
INVARIANTS
    Paired
    NoneTwice
    Alternates
    UserKept
    CrashLosesNothing
CHECK_DEADLOCK FALSE
