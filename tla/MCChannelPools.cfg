CONSTANTS
    Channel <- Channels
    Block = {b1, b2, b3}
    PageSizes <- Pages
    Amounts <- Bytes
    NULL = NULL
    MaxAllocs = 4
SYMMETRY Symmetry
SPECIFICATION Spec
INVARIANTS
    TypeOK
    Disjoint
    AllocationsInHeap
    Accounted
