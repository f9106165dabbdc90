SPECIFICATION MCSpec
CONSTANTS
    p1 = p1
    p2 = p2
    i1 = i1
    i2 = i2
    Proc = {p1, p2}
    None = None
    Name <- MCName
    ninodes = 4
    NOFILE = 1
    Workloads <- MCWorkloads
    BSIZE = 2
    NDIRECT = 1
    NBLOCK = 3
    UintMod = 16
    NFILE = 2
    MaxWrite = 2
    NByte = 3
INVARIANTS
    TreeInv
    
    NoLockCycle
    FileInv
    

    
CHECK_DEADLOCK FALSE
