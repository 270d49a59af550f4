SPECIFICATION Spec
CONSTANTS
    Windows <- MCWindows
    ChunksOf <- MCChunksOf
    MaxConcurrency = 2
    Threshold = 2
    Signatures = {"401", "403"}
    MaxRuns = 2
    MaxInterrupts = 1
    MaxFaults = 1
INVARIANTS
    CompletedIsStored
    LinksAreGrounded
    CompletedIsWhole
    ProviderSpared
CHECK_DEADLOCK FALSE
