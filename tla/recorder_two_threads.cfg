SPECIFICATION RecorderSpec
CONSTANTS
    Callers = {"client", "service"}
    MaxMessages = 2
    LastDay = 1
    SetupFails = FALSE
PROPERTY
    PutsItsArgument
CHECK_DEADLOCK FALSE
