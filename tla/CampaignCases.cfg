SPECIFICATION Spec
CONSTANTS
    Requests <- EachCase
    Attribution = TRUE
    MaxFaults = 1
    MaxSlow = 1
CHECK_DEADLOCK FALSE
INVARIANT LeftClean
INVARIANT AbsenceIsReal
INVARIANT AgentCreditIsEarned
INVARIANT ReinstallIsJudged
INVARIANT RolledBackIsTrue
