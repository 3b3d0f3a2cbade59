\* One tiered-local server; crashes, failing captures and transfers, the clock set back.
SPECIFICATION FairSpec
CONSTANTS
    Servers = {s1}
    TargetChoices <- AllTieredLocal
    QueueCap = 1
    PruneDays = 0
    PruneCount = 1
    HotPruneDays = 0
    HotPruneCount = 1
    MaxTime = 3
    MaxCapture <- EveryMinute
    MaxBacks = 1
    Faults = {"copy", "transfer", "crash"}
    DayLength = 1
INVARIANTS
    TypeOK
    TransferSourceWhole
    OffloadFresh
    RecordCovers
    NewestComplete
    OffloadPending
PROPERTIES
    RecordMonotone
    RetentionKeepsNewest
    StoreSpec
    CapturesReachCold
