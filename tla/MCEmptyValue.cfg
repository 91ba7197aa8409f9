SPECIFICATION FairSpec
CONSTANTS
    a = a
    b = b
    v0 = v0
    v1 = v1
    N = 2
    Keys <- MCKeys
    Vals = {v0, v1, Empty}
    Nil = Nil
    Empty = Empty
    Absent = Absent
    Estimate = Estimate
    Programs <- EmptyPrograms
    Locs <- MCLocs
    Start <- MCStart
    Op <- EmptyOp
    After <- MCAfter
    Blocks <- EmptyBlocks
    Parents <- NilParent
    Workers = 2
    MaximumIterations = 2
INVARIANTS
    ReadsAreLatest
CHECK_DEADLOCK TRUE
