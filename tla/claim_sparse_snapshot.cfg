SPECIFICATION Spec
CONSTANTS
    Docs = {d1}
    Versions = {v1, v2}
    Absent = absent
    NoGeneration = nogeneration
    Writers = {w1}
    Readers = {r1, r2}
    ReaderOps = {"search"}
    Connection <- MCOneConnection
    MaxWrites = 2
    MaxReads = 2
    MaxFaults = 0
INVARIANT EverySearchIsSnapshot
CHECK_DEADLOCK FALSE
