SPECIFICATION Spec
CONSTANTS
    Jobs <- TwoJobs
    Handlers <- TwoHandlers
    Usenet <- OneNzb
    Torrents <- OneMagnet
    LeaseTicks = 1
    ClockCap = 0
    PoolSize = 2
    Noticed <- FirstJob
    MaxNotices = 2
INVARIANTS TypeOK DuplicatesNeedARace NotifiedOnce NoInsertOverlooked
