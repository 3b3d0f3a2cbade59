\* A directory with a capital in its name.
SPECIFICATION Spec
CONSTANTS
    Names = {"survival"}
    Dirs = {"Survival"}
    Lower <- OneName
    Scans = {scan}
    MaxEdits = 0
    MaxStops = 0
PROPERTY
    NamesCaseInsensitive
CHECK_DEADLOCK FALSE
