SPECIFICATION Spec
CONSTANTS
    i1 = i1
    i2 = i2
    b1 = b1
    b2 = b2
    s1 = s1
    s2 = s2
    None = None
    Items = {i1, i2}
    Batches = {b1}
    Slots = {s1}
    BatchOf <- OneBatch
    PinTo <- Unpinned
    MaxConcurrency = 1
    RetryLimit = 1
    DeferralLimit = 1
    CanStop = {}
    CanRefresh = {s1}
    CanDrain = {}
    MaxFaults = 1
    MaxRestarts = 1
SYMMETRY Symmetric
INVARIANT EveryTrialIsFollowed
INVARIANT SlotExclusive
INVARIANT CompletedMeansSettled
INVARIANT AgentBlamedFairly
PROPERTY SettledIsFinal
