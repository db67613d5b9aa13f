SPECIFICATION FairSpec
CONSTANTS
    Pids = {p1, p2}
    NoPid = NoPid
    Samplers = {s1, s2}
    Readings = {"bytes", "unavailable"}
    Rows = {"manager"}
PROPERTY RefreshEnds
CHECK_DEADLOCK FALSE
