SPECIFICATION Spec
CONSTANTS
    Procs = {p1, p2}
    Operations = {"upload", "parse", "reparse", "build", "chunk", "publish", "extract", "delete"}
    MaxVersions = 2
    MaxOperations = 4
    MaxFaults = 2
    MaxCrashes = 1
SYMMETRY MCSymmetry
VIEW MCView
INVARIANTS DeletedStaysHidden RowHasSource OneGeneration
PROPERTY AllOrNothing
CHECK_DEADLOCK FALSE
