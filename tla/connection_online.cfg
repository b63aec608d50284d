SPECIFICATION Spec
CONSTANTS
    Offline = FALSE
    IsTls = TRUE
    MaxRequests = 2
    MaxResponses = 2
    MaxOutputs = 1
    RawChunks = FALSE
    RequesterChanges = FALSE
    EngineFails = TRUE
    PipelinedRequests = FALSE
    UnsolicitedResponses = FALSE
    SetupFails = FALSE
INVARIANTS
    TypeOK
    OwnAbortsNotRecorded
    
    AnsweredAndRecorded
PROPERTY
    ClosedPeerEndsWorker
