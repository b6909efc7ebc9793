SPECIFICATION FairSpec
CONSTANTS
    Callers = {c1}
    Ids = {i1}
    Frames = {f1, f2}
    Lockers = {l1}
    numInpChBufs = 3
    RxLimit = 1
    MaxCalls = 1
    MaxFaults = 1
    Null = Null
CHECK_DEADLOCK FALSE
INVARIANTS TypeOK BuffersMatch ConfirmInsideSend FlushQuiet
PROPERTIES CallsReturn FrameConfirmed
