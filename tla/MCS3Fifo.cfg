SPECIFICATION Spec
CONSTANTS
    Key = {1, 2, 3}
    NoKey = NoKey
    Hash <- MCHash
    Charges = {1}
    Budgets = {1, 2}
    SmallPercent = 50
    MaxFreq = 2
    InitCap = 2
    GhostFloor = 1
    Doorkeeper = TRUE
    Word = 4
    Writers = 1
    Readers = {r1}
    MaxQueued = 2
    MaxRefused = 1
INVARIANTS ShardConsistent OverBudgetByPins
PROPERTY PinnedStay
