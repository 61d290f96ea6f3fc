SPECIFICATION FairSpec
CONSTANTS
    h1 = h1
    h2 = h2
    t1 = t1
    t2 = t2
    blade = blade
    cpu = cpu
    r1 = r1
    Handles = {h1, h2}
    Tokens = {t1, t2}
    Executors = {blade}
    Fencing = {}
    TheRun = r1
    Runs = {r1}
    FaultTypes = {cpu}
    TokenRun <- MCTokenRun
    D2Tokens = {t2}
    Variant = "D6-B"
    AgentSelected = FALSE
    LateCreates = TRUE
    MaxUid = 2
    MaxFaults = 1
INVARIANT EveryFaultIsLedgered
PROPERTY EveryLeaseIsClosed
