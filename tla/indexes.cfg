SPECIFICATION MCSpec
CONSTANTS
    Docs = {d1, d2}
    Versions = {v1, v2}
    Absent = absent
    NoGeneration = nogeneration
    Writers = {w1, w2}
    Readers = {r1, r2}
    ReaderOps = {"search", "count", "audit"}
    Connection <- MCOneConnection
    MaxWrites = 5
    MaxReads = 2
    MaxFaults = 2
    Images = {i1, i2}
    MaxGenerations = 3
    MaxCrashes = 1
    MaxFailures = 2
    MaxSearches = 1
SYMMETRY MCSymmetry
INVARIANTS
    SearchIsSnapshot
    AuditIsTruthful
    NoPendingVisible
    SearchConsistent
PROPERTIES
    ImplementsDocumentMap
    WriteTakesEffect
    ImplementsGenerationIndex
CHECK_DEADLOCK FALSE
