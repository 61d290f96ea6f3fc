SPECIFICATION FairSpec
CONSTANTS
    Runs <- OneRun
    Discoverers = {d1, d2}
    Executors = {x1}
    NoWorker = NoWorker
    Kinds <- AskedKinds
    Levels = 2
    RetryBudget <- RetryFirst
    TotalBudget = 2
    ContinueAfterFailure = TRUE
    CanCrash = {x1}
    MaxCrashes = 1
    MaxLapses = 1
    MaxAborts = 1
CHECK_DEADLOCK FALSE
INVARIANT CompletedIsEarned
INVARIANT AbortIsKept
PROPERTY RunsEnd
