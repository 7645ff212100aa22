SPECIFICATION FairSpec
CONSTANTS
    Writers = {w1, w2}
    Loops = {t1}
    NoLoop = NoLoop
    Shares = {{t1}, {t1, NoLoop}}
    MaxBatches = 2
INVARIANTS AckIsDurable BudgetBoundsLog WakeNotLost
PROPERTY EventuallyAnswered
