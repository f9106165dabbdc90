SPECIFICATION MCSpec
CONSTANTS
    p1 = p1
    p2 = p2
    p3 = p3
    o1 = o1
    o2 = o2
    o3 = o3
    b1 = b1
    b2 = b2
    Block = {b1, b2}
    Op = {o1, o2, o3}
    MAXOPBLOCKS = 1
    LOGBLOCKS = 2
    Torn = Torn
    NotCached = NotCached
    Proc = {p1, p2, p3}
    Val = {0, 1}
    InitVal = 0
    NBUF = 2
    MaxHeld = 2
    NoBlock = NoBlock
    Nobody = Nobody
    NUM = 7
    IdxMod = 7
    None = None
SYMMETRY Alike
INVARIANTS
    BcacheInv
    VirtioInv
    LogInv
PROPERTIES
    CrashAtomic
    ServesDisk
