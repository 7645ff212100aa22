SPECIFICATION Spec
CONSTANTS
    IOThreads = {t1, t2}
    Workers = {w1, w2}
    InitWorkers = {w1, w2}
    VB = {v1}
    Key = {k1}
    Sentinel = Sentinel
    NoVB = NoVB
    Capacity = 8
    MaxBatch = 1
    Multi = 2
    OwnerLimits = {1, 2}
    AsyncModes = {FALSE}
    MaxReads = 4
    MaxResizes = 0
SYMMETRY Symmetry
INVARIANTS NoStrandedRead DepthExact OldestFirst
