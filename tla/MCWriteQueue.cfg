SPECIFICATION Spec
CONSTANTS
    IOThreads = {t1, t2}
    Workers = {w1, w2}
    InitWorkers = {w1, w2}
    VB = {v1}
    Key = {1, 2}
    Sentinel = Sentinel
    NoVB = NoVB
    Limit = 2
    Capacity = 5
    Coalesce = TRUE
    MinBatch = 2
    Word = 8
    Durable = FALSE
    MaxWrites = 3
    MaxResizes = 0
SYMMETRY Symmetry
INVARIANTS TypeOK SingleOwner NoLostWakeup ExactAccounting CleanShutdown
PROPERTY ImplementsStore
