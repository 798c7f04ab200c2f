SPECIFICATION Spec
CONSTANTS
    Jobs <- OneJob
    Deletable <- OneJob
    Recorded <- OneJob
    LeaseTicks = 1
    ClockCap = 0
    PoolSize = 2
    MaxRetries = 3
    RetryTicks = 1
    ArchiveTicks = 1
    RecheckTicks = 1
    MaxCrashes = 1
INVARIANTS TypeOK RetryBudget ReadyIsComplete IInv
PROPERTIES RefinesLifecycle AbortReturns
