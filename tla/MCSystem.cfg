SPECIFICATION Spec
CONSTANTS
    Jobs <- OneJob
    LeaseTicks = 1
    ClockCap = 3
    PoolSize = 2
    MaxSubmitAttempts = 2
    BackoffTicks = 1
    LimitTicks = 1
    Empty <- NoJobs
    Torrents <- OneJob
    GraceTicks = 0
    MissingTicks = 0
    StallTicks = 1
    CeilingTicks = 2
    Size = 0
    MaxRetries = 2
    RetryTicks = 1
    ArchiveTicks = 1
    RecheckTicks = 1
    Recorded <- NoJobs
    Deletable <- OneJob
    MaxLost = 1
    MaxCrashes = 1
    MaxRequests = 1
INVARIANTS ReadyIsComplete SlotsAreAccountedFor PullerIsRight
PROPERTY RefinesLifecycle
CHECK_DEADLOCK FALSE
