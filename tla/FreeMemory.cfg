SPECIFICATION FairSpec
CONSTANTS
    Threads = {t1, t2}
    Teams <- MCTeams
    t1 = t1
    t2 = t2
    NCells = 3
    Reserve = 2
    MaxBatch = 2
    MaxClaims = 2
    Word = 16
INVARIANTS
    NeverTwoPlaces
    NoneMissing
    OneClaimerNoABA
PROPERTIES
    OnlyTheTop
    ClaimReturns
CHECK_DEADLOCK FALSE
