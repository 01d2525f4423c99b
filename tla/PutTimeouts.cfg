SPECIFICATION FairSpec
CONSTANTS
    NProcs = 1
    Servers = {s1, s2}
    k1 = k1
    k2 = k2
    Keys = {k1, k2}
    Hits <- MCHits
    Tiers = {0}
    NSlots = 1
    NoKey = NoKey
    Restamp = TRUE
    MaxPuts = 2
    MaxTimeouts = 2
INVARIANTS
    SlotsAccounted
PROPERTIES
    PutReturns
CHECK_DEADLOCK FALSE
