SPECIFICATION ALSpec
CONSTANTS
    Keys = {2, 4, 6, 10, 14}
    Count = 4
    N = 4
    K = 3
    M = 4
    MaxEvict = 2
INVARIANTS
    BitsLeadHome
    ValuesAreReached
    ListIsWhole
    FreeListIsTheRest
    TableMatchesList
PROPERTIES
    HopsComeNearer
    ImplementsLru
    ImplementsMap
CHECK_DEADLOCK FALSE
