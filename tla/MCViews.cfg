SPECIFICATION ViewsSpec
CONSTANTS
    Ids <- FourIds
    LastSecond = 2
    QueueLimit = 2
    HistoryLimit = 2
PROPERTY NothingVanishes
