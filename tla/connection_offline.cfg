SPECIFICATION Spec
CONSTANTS
    Offline = TRUE
    IsTls = TRUE
    MaxRequests = 3
    MaxResponses = 2
    MaxOutputs = 2
    RawChunks = TRUE
    RequesterChanges = FALSE
    EngineFails = TRUE
    PipelinedRequests = FALSE
    UnsolicitedResponses = FALSE
    SetupFails = FALSE
PROPERTY
    ServesOffline
