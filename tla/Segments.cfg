CONSTANTS
    Processes = {p1, p2}
    Order <- MCOrder
    MaxSegments = 2
    MaxCrashes = 1
SPECIFICATION Spec
CHECK_DEADLOCK FALSE
INVARIANTS
    LastOneRemoves
    InitializersAreFresh
    AttachedIsKnown
SYMMETRY Sym
