\* One tiered-nas server; a failed transfer may leave its .inprogress directory.
SPECIFICATION Spec
CONSTANTS
    Servers = {s1}
    TargetChoices <- AllTieredNas
    QueueCap = 1
    PruneDays = 0
    PruneCount = 1
    HotPruneDays = 0
    HotPruneCount = 1
    MaxTime = 3
    MaxCapture <- EveryMinute
    MaxBacks = 0
    Faults = {"transfer", "cleanup"}
    DayLength = 1
PROPERTY
    RetentionKeepsNewest
CHECK_DEADLOCK FALSE
