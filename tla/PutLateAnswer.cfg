SPECIFICATION Spec
CONSTANTS
    NProcs = 1
    Servers = {s1}
    k1 = k1
    k2 = k2
    Keys = {k1, k2}
    Hits <- MCHits
    Tiers = {0}
    NSlots = 2
    NoKey = NoKey
    Restamp = TRUE
    MaxPuts = 2
    MaxTimeouts = 1
INVARIANTS
    NeverAnothersData
CHECK_DEADLOCK FALSE
