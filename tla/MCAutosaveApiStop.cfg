\* One server; a cycle started by the API runs while the process is stopped.
SPECIFICATION Spec
CONSTANTS
    N = 1
    Main = main
    Api = {api}
    NoThread = none
    Retries = 2
    LostReply = FALSE
INVARIANT StopRestoresAutosave
CHECK_DEADLOCK FALSE
