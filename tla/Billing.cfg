SPECIFICATION BillingSpec
\* open requests may all be answered on the last day, with no top-up left
CHECK_DEADLOCK FALSE
CONSTANTS
    t1 = t1
    t2 = t2
    Turns = {t1, t2}
    sonnet = sonnet
    unlisted = unlisted
    FREE_DAILY_SPEND = 400
    FREE_DAILY_TOKENS = 4
    FREE_DAILY_CALLS = 3
    PRICING <- PricedModels
    DefaultModel = sonnet
    Models <- ReportedModels
    Usages <- ReportedUsages
    TopUps <- AskedTopUps
    MAX_TOP_UP = 500
    MaxCost = 300
    MaxDay = 2
    MaxTopUps = 1
    MaxRestarts = 1
INVARIANTS
    NeverOvercharged
    OverrunBounded
