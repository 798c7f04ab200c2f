SPECIFICATION Spec
CONSTANTS
    Jobs <- ThreeJobs
    Empty <- LastJob
    Foreign <- SecondJob
    Deletable <- FirstJob
    LeaseTicks = 2
    ClockCap = 0
    PoolSize = 2
    MaxSubmitAttempts = 2
    BackoffTicks = 1
    LimitTicks = 2
    MaxLost = 1
    MaxCrashes = 1
INVARIANTS TypeOK SubmitBudget DuplicatesNeedALostReply OutcomeIsTrue ClaimsAreWorked
PROPERTIES RefinesLifecycle 
