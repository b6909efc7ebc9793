SPECIFICATION Spec
CONSTANTS
    Frames = {f1, f2}
    Ifs = {sta, generic}
    GenericIf = generic
    Links = {l0}
    Cpus = {c0}
    Capacity = 2
    Throttle = 2
    QGenMod = 16
    IGenMod = 256
    MaxRequeues = 0
    MaxClears = 1
    DropRaces = TRUE
    MaxInFlight = 2
    Null = Null
CHECK_DEADLOCK FALSE
INVARIANTS
    BhEntryIsPending
