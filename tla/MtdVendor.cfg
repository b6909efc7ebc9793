CONSTANTS
    Ids = {i1}
    Sizes = {1, 3}
    MaxWrites = 3
    Align = 2
    DataSize = 9
    ItemNum = 2
    BlockNum = 4
    SlotNum = 2
    MaxBad = 1
    MaxFaults = 1
    Null = Null
SPECIFICATION Spec
INVARIANTS TypeOK TablesExact
PROPERTIES MtdIsDurable WriteEnds
CHECK_DEADLOCK FALSE
