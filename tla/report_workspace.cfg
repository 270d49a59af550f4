SPECIFICATION Spec
CONSTANTS
    Procs = {p1, p2}
    KBs = {k1, k2}
    Safety <- MCSafety
    FirstSections = 2
    Mixes <- MCMixes
    MaxRequests = 4
    MaxSections = 3
SYMMETRY MCSymmetry
INVARIANTS OrderIsDense SourcesHold InsertedIsVouched MessagesKeepOrder
CHECK_DEADLOCK FALSE
