SPECIFICATION ULockSpec
CONSTANTS
    CPU = {c1}
    NPROC = 2
    MAX_LOCKS = 1
    CondLock <- UserLocks
    Chan = {w}
    NoCPU = NoCPU
    NoProc = NoProc
    NoChan = NoChan
INVARIANTS
    SchedChecks
CHECK_DEADLOCK FALSE
