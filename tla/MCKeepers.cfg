SPECIFICATION KeepersSpec
CONSTANTS
    v1 = v1
    Validators = {v1}
    Windows = {2, 3, 4}
    MinSigned <- Half
    JailDuration = 1
    GrowAnywhere = FALSE
    MaxHeight = 8
    vester = vester
    plain = plain
    fresh = fresh
    fees = fees
    pool = pool
    Users <- MCUsers
    ModuleAccounts = {fees, pool}
    FeeCollector = fees
    Pool = pool
    Minters = {fees}
    Burners = {pool}
    Recipients = {vester, plain, fresh, fees, pool}
    OneUseiInWei = 2
    GenesisCoins <- MCCoins
    Setups <- MCSetups
    MaxAmount = 2
    MaxEntry = 1
    MaxTx = 1
    MaxTime = 2
    m1 = m1
    m2 = m2
    p1 = p1
    p2 = p2
    p3 = p3
    np = np
    Modules = {m1, m2}
    Names = {1}
    Pointers = {p1, p2, p3}
    NoPointer = np
    MaxIndex = 2
    ReleaseMayFail = FALSE
    SimulationCreates = FALSE
    ClaimsRepeat = FALSE
    val = val
    del = del
    Depositors = {val, del}
    Purse = 1
    MinDeposit = 1
    MinExpeditedDeposit = 2
    MaxDepositPeriod = 1
    ExpeditedVotingPeriod = 1
    VotingPeriods = {2, 3}
    GovValidators = {val}
    Delegators = {val, del}
    Stake <- MCStake
    Options = {"yes", "veto"}
    MaxProposals = 2
    MaxSubmit = 1
    MaxClock = 6
INVARIANTS
    
    
    
    BankIsSound
    
    
    DepositsAreHeld
    QueuesFollowStatus

    
