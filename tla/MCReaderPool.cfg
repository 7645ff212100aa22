SPECIFICATION FairSpec
CONSTANTS
    IOThreads = {t1, t2}
    Workers = {w1, w2}
    InitWorkers = {w1}
    VB = {v1, v2}
    Key = {k1}
    Sentinel = Sentinel
    NoVB = NoVB
    Capacity = 8
    MaxBatch = 1
    Multi = 2
    OwnerLimits = {2}
    AsyncModes = {TRUE, FALSE}
    MaxReads = 2
    MaxResizes = 2
INVARIANTS OwnersExact OnePlace
PROPERTIES EventuallyAnswered ShutdownReturns
