SPECIFICATION Spec
CONSTANTS
    Jobs <- OneJob
    Torrents <- OneJob
    LeaseTicks = 1
    ClockCap = 6
    GraceTicks = 1
    MissingTicks = 2
    StallTicks = 3
    CeilingTicks = 5
    Size = 2
    MaxCrashes = 1
INVARIANTS TypeOK CompletedIsDone
PROPERTIES RefinesLifecycle MovingDownloadsSurvive JobsLeaveTorbox
