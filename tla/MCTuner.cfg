SPECIFICATION Spec
CONSTANTS
    Threads <- ThreadsOf
    Shards <- TwoShards
    Bounds <- BoundsOf
    KeepsOne = {1, 3}
    Async = {1}
    SettleWindows = 1
    MaxSettleWindows = 2
    MeasureWindows = {1}
    FirstBackoff = 1
    MaxBackoff = 1
    RampAfterKept = 0
    LevelWindows = 1
INVARIANTS WithinBounds TrialBounded
PROPERTY UndoRestores
