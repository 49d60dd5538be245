CONSTANT Thread = {t1, t2, t3}
SYMMETRY Symmetry
SPECIFICATION Spec
INVARIANTS
    CountExact
    BioKept
    LocksThere
