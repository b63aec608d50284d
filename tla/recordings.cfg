SPECIFICATION Spec
CONSTANTS
    Callers = {"client"}
    MaxMessages = 2
    LastDay = 3
    SetupFails = TRUE
    MaxCrashes = 2
    Troubles = {"stray", "locked"}
INVARIANTS
    TypeOK
    EachOnceInOrder
    KeptSomewhere
PROPERTIES
    
    RecordedUnlessCrashed
CHECK_DEADLOCK FALSE
