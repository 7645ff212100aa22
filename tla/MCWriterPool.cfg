SPECIFICATION FairSpec
CONSTANTS
    IOThreads = {t1, t2}
    Workers = {w1, w2, w3}
    InitWorkers = {w1, w2}
    VB = {v1, v2}
    Key = {1}
    Sentinel = Sentinel
    NoVB = NoVB
    Limit = 1
    Capacity = 8
    Coalesce = TRUE
    MinBatch = 2
    Word = 8
    Durable = TRUE
    MaxWrites = 2
    MaxResizes = 2
INVARIANTS WriterRemains DurableAck
PROPERTY EventuallyWritten
