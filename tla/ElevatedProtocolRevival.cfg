SPECIFICATION Spec
CONSTANTS
    MaxId = 3
    LastAsked = 2
    MaxHelpers = 1
    MaxBoots = 1
    Patient = TRUE
    Faults = {"exit"}
    Asked = {"Start", "Stop"}
    None = None
PROPERTY NoUnaskedRevival
CHECK_DEADLOCK FALSE
