SPECIFICATION Spec
CONSTANTS
    IOThreads = {t1, t2}
    Readers = {r1}
    Key = {1, 2}
    Absent = Absent
    Limit = 2
    Budgets = {0, 1}
    IndexCap = 1
    Sort = TRUE
    Doorkeeper = TRUE
    Word = 4
    MaxWrites = 3
    MaxReads = 1
SYMMETRY Symmetry
INVARIANTS PinsCoverWrites  HintCurrent ReadsFresh
