SPECIFICATION SpecAll
CONSTANTS
    Procs = {root, p2, p3}
    Root = root
    Faults = {"lost", "slow", "unspawned", "unscoped", "refused"}
    TableSize = 4
    MaxBytes = 5
    MaxLine = 2
    Pids = {q1, q2}
    NoPid = NoPid
    Samplers = {s1, s2}
    WindowRows = {r1, r2}
    MaxClicks = 2
INVARIANTS
    TypesOK
    DisarmOnlyEmptyTree
    NoUnaskedSignal
    JobNoEscape
    TreeIsComplete
    LinesDelivered
    PendingIsServed
    SampleMatchesProcess
PROPERTIES
    CrashCleansUp
    ReleasedTreeEnds
    ProtectionRestored
    GuardContracts
    HookIsReaped
    LatestInspectionShown
    RestIsShown
CHECK_DEADLOCK FALSE
