SPECIFICATION Spec
CONSTANTS
    Manager = Manager
    Helper = Helper
    LineCapacity = 2
    ByteCapacity = 3
    MaxFileBytes = 4
    MaxTailBytes = 3
    LineBytes = {1, 2}
    MaxLines = 3
    OldBytes = {1, 4}
    Faults = {"open", "append", "remove", "rename", "read"}
    MaxFaults = 2
    None = None
INVARIANTS
    TypeOK
    BufferBounded
    HistoryKept
    MissedOnlyByFault
    WindowIsCurrent
PROPERTY FileBounded
CHECK_DEADLOCK FALSE
