CONSTANTS
    Ids = {i1, i2}
    Sizes = {1, 3}
    MaxWrites = 4
    Align = 2
    DataSize = 9
    ItemNum = 3
    PartNum = 2
    Clients = {user, kernel}
    Unlocked = {kernel}
    MaxFaults = 1
    Null = Null
SPECIFICATION Spec
INVARIANTS TypeOK TablesConsistent
PROPERTY EmmcIsDurable
SYMMETRY Symmetry
CHECK_DEADLOCK FALSE
