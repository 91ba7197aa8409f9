SPECIFICATION Spec
CONSTANTS
    v0 = v0
    v1 = v1
    N = 3
    Keys = {1, 2}
    Vals = {v0, v1}
    Nil = Nil
    Empty = Empty
    Absent = Absent
    Estimate = Estimate
    WriteSets <- FewWriteSets
    Parents <- MCParents
    Iterations <- FewWalks
    MaxPasses = 2
INVARIANTS
    ValidatedWalkIsCurrent
CHECK_DEADLOCK FALSE
