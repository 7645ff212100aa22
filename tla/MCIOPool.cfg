SPECIFICATION FairSpec
CONSTANTS
    Loop = {l1, l2}
    InitLoops = {l1}
    Conn = {c1, c2}
    NoLoop = NoLoop
    Req = {r1}
    MaxResizes = 2
INVARIANTS LoopOutlivesConns CountsExact AnswerBeforeReap NeverDeaf
PROPERTY RetireCompletes
