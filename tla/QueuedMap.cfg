SPECIFICATION QMSpec
CONSTANTS
    Queues = {"put", "get"}
    Threads = {c1, c2, "putter", "getter"}
    Clients = {c1, c2}
    NCells <- MCCells
    NoItem = NoItem
    Junk <- MCJunk
    Keys = {k1}
    Values = {}
    MaxOps = 3
    MaxGiveUps = 1
    MaxShared = 3
    Retries = 1
    Unset = Unset
    Gone = Gone
INVARIANTS
    RefsWhenSound
    ApartWhenAlone
    CellsWhenSound
PROPERTIES
    FifoWhenSound
    AnswersGoForward
CHECK_DEADLOCK FALSE
SYMMETRY Symmetry
