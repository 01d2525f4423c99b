SPECIFICATION FairSpec
CONSTANTS
    NProcs = 2
    Servers = {s1}
    k1 = k1
    k2 = k2
    Keys = {k1, k2}
    Hits <- MCHits
    Tiers = {0}
    NSlots = 3
    NoKey = NoKey
    Restamp = FALSE
    MaxPuts = 3
    MaxTimeouts = 0
PROPERTIES
    LockedIsAnswered
CHECK_DEADLOCK FALSE
