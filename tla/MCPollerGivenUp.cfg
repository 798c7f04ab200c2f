SPECIFICATION Spec
CONSTANTS
    Jobs <- OneJob
    Torrents <- NoJobs
    LeaseTicks = 1
    ClockCap = 6
    GraceTicks = 1
    MissingTicks = 2
    StallTicks = 3
    CeilingTicks = 5
    Size = 1
    MaxCrashes = 0
PROPERTY GivenUpJobFails
