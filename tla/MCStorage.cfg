SPECIFICATION NodeSpec
CONSTANTS
    s1 = s1
    s2 = s2
    Stores = {s1, s2}
    InitialVersion = 1
    KeepRecent = 1
    KeepEvery = 3
    Interval = 2
    MaxVersion = 10
    MaxCrashes = 2
    MaxRollbacks = 1
    Params <- Configurations
INVARIANTS
    StoresAreSound
    
PROPERTIES
    
    CommitsComplete
