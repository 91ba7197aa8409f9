SPECIFICATION FairSpec
CONSTANTS
    a = a
    b = b
    v0 = v0
    v1 = v1
    N = 3
    Keys <- MCKeys
    Vals = {v0, v1}
    Nil = Nil
    Empty = Empty
    Absent = Absent
    Estimate = Estimate
    Programs <- MCPrograms
    Locs <- MCLocs
    Start <- MCStart
    Op <- MCOp
    After <- MCAfter
    Blocks <- AllBlocks
    Parents <- TwoParents
    Workers = 3
    MaximumIterations = 2
PROPERTIES
    FailsFast
CHECK_DEADLOCK TRUE
