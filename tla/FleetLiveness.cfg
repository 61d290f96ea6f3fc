SPECIFICATION FairSpec
CONSTANTS
    i1 = i1
    i2 = i2
    b1 = b1
    b2 = b2
    s1 = s1
    s2 = s2
    None = None
    Items = {i1}
    Batches = {b1}
    Slots = {s1}
    BatchOf <- OneBatch
    PinTo <- Unpinned
    MaxConcurrency = 1
    RetryLimit = 1
    DeferralLimit = 2
    CanStop = {b1}
    CanRefresh = {}
    CanDrain = {s1}
    MaxFaults = 2
    MaxRestarts = 0
CHECK_DEADLOCK FALSE
PROPERTY EveryItemSettles
