SPECIFICATION FairSpec
CONSTANTS
    MaxId = 5
    LastAsked = 2
    MaxHelpers = 2
    MaxBoots = 1
    Patient = TRUE
    Faults = {}
    Asked = {"Start", "Stop", "Restart"}
    None = None
PROPERTIES
    Converges
    ShutdownStops
    NoGhost
CHECK_DEADLOCK FALSE
