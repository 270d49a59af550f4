SPECIFICATION Spec
CONSTANTS
    Windows <- MCWindows
    ChunksOf <- MCChunksOf
    MaxConcurrency = 2
    Threshold = 1
    Signatures = {"401"}
    MaxRuns = 3
    MaxInterrupts = 1
    MaxFaults = 0
INVARIANT EvidenceSurvives
CHECK_DEADLOCK FALSE
