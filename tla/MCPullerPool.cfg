SPECIFICATION CdnSpec
CONSTANTS
    Jobs <- ThreeJobs
    Deletable <- NoJobs
    Recorded <- NoJobs
    LeaseTicks = 1
    ClockCap = 0
    PoolSize = 2
    MaxRetries = 1
    RetryTicks = 1
    ArchiveTicks = 1
    RecheckTicks = 1
    MaxCrashes = 0
INVARIANT PoolBound
PROPERTY CompletedJobsEnd
