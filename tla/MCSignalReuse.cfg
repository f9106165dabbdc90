SPECIFICATION Spec
CONSTANTS
    NPROC = 2
    NSIG = 2
    MaxPid = 3
    Val <- Results
INVARIANT
    SignalHitsPid
