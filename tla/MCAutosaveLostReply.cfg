\* One server, no API goroutine: an RCON command may take effect and be
\* reported as failed.
SPECIFICATION Spec
CONSTANTS
    N = 1
    Main = main
    Api = {}
    NoThread = none
    Retries = 2
    LostReply = TRUE
INVARIANT AutosaveRestored
CHECK_DEADLOCK FALSE
