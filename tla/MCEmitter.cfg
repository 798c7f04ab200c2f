SPECIFICATION Spec
CONSTANTS
    Jobs <- OneJob
    Workers <- TwoWorkers
    LeaseTicks = 1
    ClockCap = 0
    BufferSize = 1
    MaxTries = 2
    MaxCrashes = 1
INVARIANTS TypeOK Accounted OneStory ReadyHasPath
PROPERTY EnqueueReturns
CHECK_DEADLOCK FALSE
