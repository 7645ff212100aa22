SPECIFICATION Spec
CONSTANTS
    Reader = {d1, d2}
    Loop = loop
    Req = {r1, r2}
    NoThread = none
SYMMETRY Symmetry
INVARIANT NoStrandedSend
