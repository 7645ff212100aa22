SPECIFICATION Spec
CONSTANTS
    Reader = {d1, d2}
    Loop = loop
    Req = {r1, r2, r3}
    NoThread = none
SYMMETRY Symmetry
INVARIANTS WireWellFormed NoUseAfterFree QuiescentDetach SpillHasFlusher
CHECK_DEADLOCK FALSE
