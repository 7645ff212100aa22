SPECIFICATION Spec
CONSTANTS
    IOThreads = {t1, t2}
    Readers = {r1}
    Key = {1, 2}
    Absent = Absent
    Limit = 9
    Budgets = {1, 2}
    IndexCap = 2
    Sort = FALSE
    Doorkeeper = TRUE
    Word = 4
    MaxWrites = 2
    MaxReads = 1
SYMMETRY Symmetry
INVARIANT CacheMatchesStore
