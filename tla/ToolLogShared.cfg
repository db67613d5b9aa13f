SPECIFICATION Spec
CONSTANTS
    Manager = Manager
    Helper = Helper
    LineCapacity = 2
    ByteCapacity = 3
    MaxFileBytes = 4
    MaxTailBytes = 3
    LineBytes = {1, 2}
    MaxLines = 3
    OldBytes = {1, 4}
    Faults = {}
    MaxFaults = 0
    None = None
PROPERTY LogFileBounded
CHECK_DEADLOCK FALSE
