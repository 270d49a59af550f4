SPECIFICATION Spec
CONSTANTS
    Requests = {r1, r2}
    Conversations = {c1, c2}
    HasUnified = TRUE
    MaxEntries = 4
    MaxExpiries = 0
    MaxCancels = 0
INVARIANT ContextIsOwn
CHECK_DEADLOCK FALSE
