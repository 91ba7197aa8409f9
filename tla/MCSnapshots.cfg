SPECIFICATION NodeSpec
CONSTANTS
    MaxHeight = 3
    NChunks = 2
    KeepRecent = 1
    Peers = {p}
    MaxCrashes = 1
    OfferedChunks = 5
    BufferSize = 4
    MaxRestores = 3
    HeaderFails = TRUE
INVARIANTS
    SnapshotsAreWhole
PROPERTIES
    RecentStayListed
    CompleteIsRestored
    
CHECK_DEADLOCK FALSE
