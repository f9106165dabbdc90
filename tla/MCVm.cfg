SPECIFICATION MCSpec
CONSTANTS
    p1 = p1
    p2 = p2
    Proc = {p1, p2}
    None = None
    NFRAME = 12
    MaxOther = 1
    PGSIZE = 2
    FANOUT = 4
    LEVELS = 2
    NPAGE = 7
    UintMod = 32
    Sbrks <- MCSbrks
    Programs <- MCPrograms
    MaxArgs = 1
    MaxAccess = 2
    HDR = 2
    MinUnits = 4
    UnitMod = 16
    MaxHeap = 11
SYMMETRY MCSymmetry
VIEW MCView
INVARIANTS
    VmInv
    UserSeesNoJunk
    HeapInv
PROPERTIES
    CallsKeepMemory
    NoMemoryLost
CHECK_DEADLOCK FALSE
