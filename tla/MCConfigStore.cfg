\* Two servers; discovery, an edit, a restart.
SPECIFICATION FairSpec
CONSTANTS
    Names = {"lobby", "survival"}
    Dirs = {"lobby", "survival"}
    Lower <- Same
    Scans = {scan}
    MaxEdits = 1
    MaxStops = 1
INVARIANTS
    TypeOK
    SettingsRecoverable
    ReloadSettles
PROPERTIES
    ScanKeepsEdits
    DirectoriesConfigured
CHECK_DEADLOCK FALSE
