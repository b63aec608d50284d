SPECIFICATION Spec
CONSTANTS
    Offline = FALSE
    IsTls = FALSE
    MaxRequests = 2
    MaxResponses = 1
    MaxOutputs = 1
    RawChunks = TRUE
    RequesterChanges = TRUE
    EngineFails = FALSE
    PipelinedRequests = TRUE
    UnsolicitedResponses = TRUE
    SetupFails = TRUE
INVARIANT
    ForwardsInOrder
CHECK_DEADLOCK FALSE
