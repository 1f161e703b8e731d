SPECIFICATION AgentSpec
\* a halted agent waits for a request, and requests are bounded
CHECK_DEADLOCK FALSE
CONSTANTS
    SectorsCycle <- OneSector
    MAX_TRADE_ATTEMPTS = 3
    MaxBasket = 2
    MaxDay = 2
    MaxRestarts = 1
    MaxInputs = 4
INVARIANTS
    PausedRunsOnlySteps
    OrdersExplained
    DraftedOncePerDay
