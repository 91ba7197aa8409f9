SPECIFICATION Spec
CONSTANTS
    a = a
    b = b
    v0 = v0
    v1 = v1
    N = 4
    Keys <- MCKeys
    Vals = {v0, v1}
    Nil = Nil
    Empty = Empty
    Absent = Absent
    Estimate = Estimate
    Programs <- MCPrograms
    Locs <- MCLocs
    Start <- MCStart
    Op <- MCOp
    After <- MCAfter
    Blocks <- ConflictingBlocks
    Parents <- TwoParents
    Workers = 2
    MaximumIterations = 2
PROPERTIES
    ImplementsSerial
CHECK_DEADLOCK TRUE
