CONSTANTS
    Ids = {i1}
    Sizes = {1}
    MaxWrites = 4
    Align = 2
    DataSize = 7
    ItemNum = 2
    BlockNum = 2
    SlotNum = 2
    MaxBad = 0
    MaxFaults = 0
    Null = Null
SPECIFICATION Spec
INVARIANT AcknowledgedIsStored
CHECK_DEADLOCK FALSE
