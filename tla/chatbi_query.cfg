SPECIFICATION Spec
CONSTANTS
    Requests = {r1, r2}
    MaxInFlight = 1
    MaxSqlAttempts = 2
    MaxRepairAttempts = 1
    MaxSteps = 6
    MaxLlmCalls = 3
    MaxRows = 1
    MaxChanges = 1
    MaxCancels = 1
INVARIANTS
    TypeOK
    WorkIsBounded
    ExecutedIsChecked
    ResultsConsistent
PROPERTIES
    ImplementsQueryLifecycle
    RequestsEnd
CHECK_DEADLOCK FALSE
