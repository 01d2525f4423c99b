SPECIFICATION RFairSpec
CONSTANTS
    N = 3
    Entries = {k1, k2}
    Blank = Blank
    Findable = {k1}
    MaxDels = 4
INVARIANTS
    RequestsAccounted
    OnlyAskedIsRemoved
    CachesAreBehind
    NoTornEntry
PROPERTIES
    FifoSpec
    LoopActsOnAll
CHECK_DEADLOCK FALSE
