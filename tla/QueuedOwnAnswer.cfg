SPECIFICATION QMSpec
CONSTANTS
    Queues = {"put", "get"}
    Threads = {c1, "putter", "getter"}
    Clients = {c1}
    NCells <- MCCells
    NoItem = NoItem
    Junk <- MCJunk
    Keys = {k1, k2}
    Values = {}
    MaxOps = 2
    MaxGiveUps = 0
    MaxShared = 3
    Retries = 1
    Unset = Unset
    Gone = Gone
PROPERTIES
    GetsItsOwn
CHECK_DEADLOCK FALSE
