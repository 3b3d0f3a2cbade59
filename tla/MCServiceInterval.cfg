\* One server; the interval is changed while the daemon runs.
SPECIFICATION Spec
CONSTANTS
    Servers = {s1}
    Setups <- AllEnabled
    Edits <- IntervalEdits
    MaxInterval = 3
    MaxDelay = 1
    MaxPass = 1
    RestartSec = 1
    TimeoutStopSec = 0
    MaxEdits = 1
    Scenarios <- QuietStory
INVARIANT
    IntervalWithinSeconds
