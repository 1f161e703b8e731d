SPECIFICATION KeeperSpec
CONSTANTS
    NumAccounts = 2
    NumIndices = 1
    MaxRequestId = 2
    MaxTime = 1
    WAD = 4
    MIN_SHARES = 1
    MGMT_FEE_BPS = 1
    PERF_FEE_BPS = 1
    YEAR = 1
    DAY = 1
    MAX_STALENESS = 0
    MAX_DEV_BPS = 1
    BPS = 2
    MIN_DEPOSIT = 2
    Amounts = {0, 4}
    Navs = {2}
    Keepers = {2}
    Signers = {2}
    Guardians = {2}
    InitialWallets <- MCWallets
    KeeperAccount = 2
    SignerAccount = 2
    Creator <- MCCreator
    INITIAL_NAV = 4
    SLIPPAGE_BPS = 0
    MaxFaults = 1
    MaxTimeouts = 0
    MaxCancels = 2
    MaxCrashes = 1
INVARIANTS
    SwappedOncePerLife
    KeeperSolvent
    QuoteIsFresh
PROPERTIES
    HonoredMeansRefunded
