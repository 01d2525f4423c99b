SPECIFICATION Spec
CONSTANTS
    NProcs = 2
    Servers = {s1}
    k1 = k1
    k2 = k2
    Keys = {k1, k2}
    Hits <- MCHits
    Tiers = {0}
    NSlots = 2
    NoKey = NoKey
    Restamp = TRUE
    MaxPuts = 3
    MaxTimeouts = 0
INVARIANTS
    TypeOK
    GrantIsForTheRequest
    GrantsAgree
    NeverAnothersData
    ReturnedIsStored
    RequestedIsWanted
CHECK_DEADLOCK FALSE
