SPECIFICATION MCSpec
CONSTANTS
    NPROC = 2
    NSIG = 2
    MaxPid = 3
    Val <- Results
    m1 = m1
    m2 = m2
    None = None
INVARIANTS
    
    ExactUnlessRaced
