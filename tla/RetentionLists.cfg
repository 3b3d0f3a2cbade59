\* Every set of at most four snapshots with, together, at most two unfinished
\* transfers and second copies.
SPECIFICATION Spec
CONSTANTS
    MaxName = 4
    MaxKeep = 5
    DayLength = 2
INVARIANTS
    LocalCountAgrees
    NasCountAgrees
    DayPrunesAgree
