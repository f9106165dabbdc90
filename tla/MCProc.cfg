SPECIFICATION ProcSpec
CONSTANTS
    CPU = {c1, c2}
    NPROC = 3
    wait_lock = wait_lock
    CondLock = {wait_lock}
    Chan <- Procs
    NoCPU = NoCPU
    NoProc = NoProc
    NoChan = NoChan
SYMMETRY Sym
INVARIANTS
    ProcInv
    SchedInv
PROPERTIES
    SchedSpec
    OnlyParentReaps
