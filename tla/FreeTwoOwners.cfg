SPECIFICATION Spec
CONSTANTS
    Threads = {t1, t2}
    Teams <- MCReaderAndRemover
    t1 = t1
    t2 = t2
    NCells = 3
    Reserve = 2
    MaxBatch = 2
    MaxClaims = 3
    Word = 16
INVARIANTS
    NeverTwoOwners
CHECK_DEADLOCK FALSE
