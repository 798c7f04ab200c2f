SPECIFICATION Spec
CONSTANTS
    Jobs <- OneJob
    Deletable <- OneJob
    Recorded <- OneJob
    LeaseTicks = 1
    ClockCap = 0
    PoolSize = 1
    MaxRetries = 2
    RetryTicks = 1
    ArchiveTicks = 1
    RecheckTicks = 1
    MaxCrashes = 0
PROPERTY DiscardStopsPull
