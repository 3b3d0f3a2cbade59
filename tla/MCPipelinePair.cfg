\* A tiered-nas and another server share the cycle, the worker and .last-backup.
SPECIFICATION Spec
CONSTANTS
    Servers = {s1, s2}
    TargetChoices <- NasAndAnother
    QueueCap = 1
    PruneDays = 1
    PruneCount = 1
    HotPruneDays = 1
    HotPruneCount = 1
    MaxTime = 3
    MaxCapture <- AnotherStopsSooner
    MaxBacks = 0
    Faults = {"transfer", "reply", "nas"}
    DayLength = 1
INVARIANTS
    StatusTruthful
    OffloadPending
PROPERTIES
    RecordMonotone
    RetentionKeepsLatest
CHECK_DEADLOCK FALSE
