SPECIFICATION Spec
CONSTANTS
    Requests = {r1, r2}
    Conversations = {c1}
    HasUnified = TRUE
    MaxEntries = 2
    MaxExpiries = 1
    MaxCancels = 1
INVARIANTS
    SelectionSerial
    CachedContextsFit
PROPERTIES
    ImplementsEventStream
    SelectionEnds
CHECK_DEADLOCK FALSE
