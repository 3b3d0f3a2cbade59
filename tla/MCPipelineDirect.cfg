\* One server with the direct local target; captures may fail.
SPECIFICATION Spec
CONSTANTS
    Servers = {s1}
    TargetChoices <- AllLocal
    QueueCap = 1
    PruneDays = 0
    PruneCount = 1
    HotPruneDays = 0
    HotPruneCount = 1
    MaxTime = 3
    MaxCapture <- EveryMinute
    MaxBacks = 0
    Faults = {"copy"}
    DayLength = 1
INVARIANT
    SnapshotsComplete
CHECK_DEADLOCK FALSE
