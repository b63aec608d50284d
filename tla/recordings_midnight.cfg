SPECIFICATION Spec
CONSTANTS
    Callers = {"client"}
    MaxMessages = 2
    LastDay = 3
    SetupFails = FALSE
    MaxCrashes = 0
    Troubles = {}
INVARIANT
    ArchivesAreWhole
CHECK_DEADLOCK FALSE
