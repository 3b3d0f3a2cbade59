\* Two servers; the main goroutine and one started by the API; no lost replies.
SPECIFICATION FairSpec
CONSTANTS
    N = 2
    Main = main
    Api = {api}
    NoThread = none
    Retries = 2
    LostReply = FALSE
INVARIANTS
    TypeOK
    AutosaveRestored
    CopyQuiesced
    CancelReaches
    StopFinishesOwnCycle
PROPERTIES
    StopEndsProcess
    AutosaveComesBack
CHECK_DEADLOCK FALSE
