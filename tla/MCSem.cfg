SPECIFICATION MCSpec
CONSTANTS
    CPU = {c1, c2}
    NPROC = 3
    global_sem = 3
    CondLock = {3}
    Chan = {3}
    NoCPU = NoCPU
    NoProc = NoProc
    NoChan = NoChan
    InitValue = 1
    MaxValue = 2
    Undisciplined = TRUE
SYMMETRY Sym
INVARIANTS
    SemInv
    ULockInv
PROPERTIES
    SchedSpec
CHECK_DEADLOCK FALSE
