SPECIFICATION Spec
CONSTANTS
    Runs <- TwoRuns
    Discoverers = {d1}
    Executors = {x1, x2}
    NoWorker = NoWorker
    Kinds <- AutoKinds
    Levels = 1
    RetryBudget <- OneTry
    TotalBudget = 1
    ContinueAfterFailure = FALSE
    CanCrash = {d1, x1, x2}
    MaxCrashes = 1
    MaxLapses = 0
    MaxAborts = 0
SYMMETRY WorkerSymmetry
CHECK_DEADLOCK FALSE
INVARIANT LeaseOfLiveRun
INVARIANT OneMutator
INVARIANT CleanWhenClosed
