SPECIFICATION Spec
CONSTANTS
    t1 = t1
    t2 = t2
    c1 = c1
    c2 = c2
    k1 = k1
    k2 = k2
    NoTask = NoTask
    Cli = Cli
    Tasks <- TwoTasks
    Callers <- TwoCallers
    Keys <- OneKey
    MaxCalls = 3
    MaxEvents = 1
    MaxTimeouts = 1
    MaxRestarts = 1
SYMMETRY Sym
INVARIANT LeaseHeldExactly
PROPERTY CreateExcludesRecovery
PROPERTY AbortedIsClean
PROPERTY UsesEnvironment
CHECK_DEADLOCK FALSE
