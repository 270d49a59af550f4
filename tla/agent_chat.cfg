SPECIFICATION Spec
CONSTANTS
    MaxRetries = 1
    MaxFaults = 1
    MaxRounds = 3
    MaxTools = 2
INVARIANTS
    TypeOK
    AttemptsAccounted
    VisualNumbersWithheld
PROPERTIES
    ImplementsEventStream
    CancelRespected
    TurnEnds
CHECK_DEADLOCK FALSE
