SPECIFICATION FairSpec
CONSTANTS
    Pids = {p1}
    NoPid = NoPid
    MaxRestartCount = 2
    RestartWindow = 1
    RestartDelay = 1
    MaxQueue = 1
    CountCap = 2
INVARIANTS
    TypeOK
    SnapshotMatchesProcess
    NothingForgotten
    RateLimit
    NoLeftoverUnlessRefused
    JustifiedStart
PROPERTIES
    LifecycleSpec
    ShutdownCompletes
    TransientStatesEnd
    ScheduledStartHappens
CHECK_DEADLOCK FALSE
