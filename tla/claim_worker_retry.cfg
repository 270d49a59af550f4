SPECIFICATION MCFairSpec
CONSTANTS
    Docs = {d1}
    Versions = {1}
    ChunkCount <- MCChunkCount
    VisualEnabled = TRUE
    MaxAttempts = 3
    StageMayFail = TRUE
    CompensationMayFail = TRUE
    FacadeOps = {"enqueue", "retry"}
    MaxCrashes = 0
    MaxRequests = 2
    MaxWriteFaults = 0
PROPERTY EveryTaskSettles
CHECK_DEADLOCK FALSE
