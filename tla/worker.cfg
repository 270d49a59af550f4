SPECIFICATION MCFairSpec
CONSTANTS
    Docs = {d1, d2}
    Versions = {1}
    ChunkCount <- MCChunkCount
    VisualEnabled = TRUE
    MaxAttempts = 3
    StageMayFail = TRUE
    CompensationMayFail = TRUE
    FacadeOps = {"enqueue", "force", "retry"}
    MaxCrashes = 2
    MaxRequests = 3
    MaxWriteFaults = 1
INVARIANTS
    CompletedIsPublished
    WorkerOwnsTask
    ScheduledOnce
PROPERTIES
    CompletedIsImmutable
    SettlesUnlessDropped
CHECK_DEADLOCK FALSE
