CONSTANTS
    MaxGen = 2
    MaxWrites = 1
SPECIFICATION Spec
INVARIANTS
    TmpdirKept
    NoOutputFromOldSession
PROPERTIES
    TeardownEnds
CHECK_DEADLOCK FALSE
