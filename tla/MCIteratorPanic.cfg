SPECIFICATION Spec
CONSTANTS
    v0 = v0
    v1 = v1
    N = 2
    Keys = {1, 2}
    Vals = {v0, v1}
    Nil = Nil
    Empty = Empty
    Absent = Absent
    Estimate = Estimate
    WriteSets <- MCWriteSets
    Parents <- MCParents
    Iterations <- MCIterations
    MaxPasses = 2
INVARIANTS
    IteratorStaysValid
CHECK_DEADLOCK FALSE
