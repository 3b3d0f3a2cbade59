\* Two servers; each scenario allows some of the events.
SPECIFICATION Spec
CONSTANTS
    Servers = {s1, s2}
    Setups <- OneOrAll
    Edits <- SomeEdits
    MaxInterval = 3
    MaxDelay = 1
    MaxPass = 1
    RestartSec = 1
    TimeoutStopSec = 0
    MaxEdits = 1
    Scenarios <- Stories
INVARIANTS
    TypeOK
    VisitedInTime
    AutosaveHealed
    ConfigInForce
    ServiceAccounted
    ProgramWhole
    IntervalCaughtUp
