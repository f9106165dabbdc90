SPECIFICATION MCSpec
CONSTANTS
    c1 = c1
    lk = lk
    NoCPU = NoCPU
    NoProc = NoProc
    NoChan = NoChan
    p1 = p1
    p2 = p2
    p3 = p3
    b1 = b1
    Torn = Torn
    NotCached = NotCached
    None = None
    Caller = {p1}
    UintMod = 4
    Uint64Mod = 16
    Args <- MCArgs
PROPERTIES
    WakesOnTime
    SleepEnds
    SemProgress
    OrphansReaped
    BeginReturns
    ClosedEndUnblocks
    DiskReturns
    PromptReturns
CHECK_DEADLOCK FALSE
