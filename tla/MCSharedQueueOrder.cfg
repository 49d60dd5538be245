CONSTANTS
    ROW = 2
    UNIT = 2
    Reader = {r1, r2}
    NULL = NULL
    MaxMessage = 4
    MaxStarts = 1
SPECIFICATION Spec
SYMMETRY Symmetry
INVARIANT ReadsNext
CHECK_DEADLOCK FALSE
