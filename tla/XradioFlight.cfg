SPECIFICATION Spec
CONSTANTS
    Frames = {f1, f2, f3}
    Ifs = {sta, generic}
    GenericIf = generic
    Links = {l0}
    Cpus = {c0}
    Capacity = 3
    Throttle = 3
    QGenMod = 16
    IGenMod = 256
    MaxRequeues = 1
    MaxClears = 1
    DropRaces = FALSE
    MaxInFlight = 3
    Null = Null
CHECK_DEADLOCK FALSE
INVARIANTS
    TypeOK
    ItemsPartition
    CountersMatch
    FrameConserved
    ConfirmOwnFrame
    LockBalanced
