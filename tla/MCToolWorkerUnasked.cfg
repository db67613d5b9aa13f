SPECIFICATION Spec
CONSTANTS
    Pids = {p1, p2}
    NoPid = NoPid
    MaxRestartCount = 2
    RestartWindow = 2
    RestartDelay = 1
    MaxQueue = 2
    CountCap = 3
SYMMETRY PidSymmetry
INVARIANT NoUnaskedStart
CHECK_DEADLOCK FALSE
