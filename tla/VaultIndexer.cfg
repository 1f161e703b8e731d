SPECIFICATION FairSpec
CONSTANTS
    Events <- MCEvents
    Published = {1}
    Confirmations = 1
    MaxSpan = 2
    ReorgDepth = 1
    MaxBlocks = 4
    MaxReorgs = 2
    MaxFaults = 1
    MaxRestarts = 1
    Stores = {"memory", "supabase"}
CHECK_DEADLOCK FALSE
INVARIANTS
    NoEarningLost
    EarningsAreOnChain
    SubscriptionsMirrorPositions
PROPERTIES
    CatchesUpUnlessRefused
