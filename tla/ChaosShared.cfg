SPECIFICATION Spec
CONSTANTS
    h1 = h1
    h2 = h2
    t1 = t1
    t2 = t2
    blade = blade
    mesh = mesh
    cpu = cpu
    delay = delay
    r1 = r1
    Handles = {h1, h2}
    Tokens = {t1, t2}
    Executors = {blade, mesh}
    Fencing = {mesh}
    TheRun = r1
    Runs = {r1}
    FaultTypes = {cpu, delay}
    TokenRun <- MCTokenRun
    D2Tokens = {t1, t2}
    Variant = "D6-A"
    AgentSelected = FALSE
    LateCreates = FALSE
    MaxUid = 2
    MaxFaults = 1
SYMMETRY Symmetric
INVARIANT NoFaultEscapesTheWatchdog
INVARIANT OneCreatePerHandleAndToken
INVARIANT DeleteHitsTheLedgeredTarget
INVARIANT OneActiveFaultPerExecutor
PROPERTY ClosedEntriesAreFinal
