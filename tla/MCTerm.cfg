CONSTANTS
    r1 = r1
    r2 = r2
    w1 = w1
    w2 = w2
    p1 = p1
    p2 = p2
    p3 = p3
    Reader = {p1, p2}
    Writer = {p3}
    Byte = {0, 1}
    PIPESIZE = 2
    UINT = 4
    MaxN = 2
    Nobody = None
    INPUT_BUF_SIZE = 3
    UintMod = 6
    FIFO = 3
    MaxRead = 2
    MaxWrite = 2
    Batch = 1
    MaxTyped = 1
    MAXARGS = 3
    Slots = {1, 2, 3, 4, 5, 6, 7}
    NOFILE = 5
    NPIPE = 2
    None = None

SPECIFICATION MCSpec
SYMMETRY MCSymmetry
CHECK_DEADLOCK FALSE

INVARIANTS
    ConsoleInv
    PipeInv
    LinesParsed
    ShellInv
    

PROPERTIES
    ImplementsLines
    PipeServes
