SPECIFICATION Spec
CONSTANTS
    Frames = {f1, f2, f3, f4, f5, f6}
    Ifs = {sta}
    GenericIf = generic
    Links = {l0}
    Cpus = {c0, c1}
    Capacity = 5
    Throttle = 5
    QGenMod = 16
    IGenMod = 256
    MaxRequeues = 0
    MaxClears = 0
    DropRaces = FALSE
    MaxInFlight = 0
    Null = Null
SYMMETRY Symmetry
CHECK_DEADLOCK FALSE
INVARIANTS
    PutFits
    OverfullExact
