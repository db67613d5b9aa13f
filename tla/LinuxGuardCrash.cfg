SPECIFICATION FairSpec
CONSTANTS
    Procs = {root, p2, p3}
    Root = root
    Faults = {}
PROPERTY CrashAlwaysCleansUp
CHECK_DEADLOCK FALSE
