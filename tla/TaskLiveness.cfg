SPECIFICATION FairSpec
CONSTANTS
    t1 = t1
    t2 = t2
    c1 = c1
    c2 = c2
    k1 = k1
    k2 = k2
    NoTask = NoTask
    Cli = Cli
    Tasks <- TwoTasks
    Callers <- TwoCallers
    Keys <- OneKey
    MaxCalls = 2
    MaxEvents = 1
    MaxTimeouts = 1
    MaxRestarts = 1
PROPERTY ControlSettles
PROPERTY TaskSettles
CHECK_DEADLOCK FALSE
