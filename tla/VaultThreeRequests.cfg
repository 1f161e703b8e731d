SPECIFICATION Spec
CONSTANTS
    NumAccounts = 2
    NumIndices = 1
    MaxRequestId = 3
    MaxTime = 1
    WAD = 2
    MIN_SHARES = 1
    MGMT_FEE_BPS = 1
    PERF_FEE_BPS = 1
    YEAR = 1
    DAY = 1
    MAX_STALENESS = 0
    MAX_DEV_BPS = 1
    BPS = 2
    MIN_DEPOSIT = 2
    Amounts = {0, 4}
    Navs = {0, 2, 6}
    Keepers = {1, 2}
    Signers = {2}
    Guardians = {2}
    InitialWallets <- MCWallets
INVARIANTS
    TypeOK
    QueueWellFormed
    ShareConservation
    HighWaterMarkSet
    AccrualClockFollowsDays
    Solvent
PROPERTIES
    PauseFreezesValue
    ClosedOnItsTerms
    BaselineMovesSlowly
    ImplementsLifecycle
