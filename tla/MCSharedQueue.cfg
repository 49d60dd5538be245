CONSTANTS
    ROW = 2
    UNIT = 2
    Reader = {r1, r2}
    NULL = NULL
    MaxMessage = 5
    MaxStarts = 3
SPECIFICATION Spec
SYMMETRY Symmetry
INVARIANTS DeliveredOnce CountCovers
CHECK_DEADLOCK FALSE
