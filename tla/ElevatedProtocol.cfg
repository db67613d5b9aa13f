SPECIFICATION Spec
CONSTANTS
    MaxId = 3
    LastAsked = 3
    MaxHelpers = 2
    MaxBoots = 2
    Patient = FALSE
    Faults = {"write", "claim", "clock", "exit"}
    Asked = {"Sample"}
    None = None
INVARIANTS
    TypeOK
    AcknowledgedIsExecuted
PROPERTIES
    AtMostOncePerHelper
CHECK_DEADLOCK FALSE
