SPECIFICATION MCSpec
CONSTANTS
    a1 = a1
    a2 = a2
    Accounts = {a1, a2}
    Txs <- SmallTxs
    MaxBlockTxs = 1
    MaxHeight = 3
    MaxCrashes = 1
    Capacity = 1
    MaxUpgrades = 2
    MaxBlock = 4
    MaxFaults = 2
INVARIANTS
    CommittedIsDecided
    CheckIsNotBehind
    HistoryIsExact
    SwitchedExactly
PROPERTIES
    CommitsWhatWasAnnounced
    NodeCatchesUp
    StoresAreMigrated
    UpgradeHappens
\* A store that refuses to open stops the node.
CHECK_DEADLOCK FALSE
