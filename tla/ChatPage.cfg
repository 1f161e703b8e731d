SPECIFICATION ChatSpec
CHECK_DEADLOCK FALSE
CONSTANTS
    Turns = {1, 2}
    FREE_DAILY_SPEND = 100
    FREE_DAILY_TOKENS = 5
    FREE_DAILY_CALLS = 5
    PRICING <- MCPricing
    DefaultModel = "sonnet"
    Models = {"sonnet"}
    Usages <- MCUsages
    TopUps = {100}
    MAX_TOP_UP = 100
    MaxCost = 100
    MaxDay = 1
    MaxTopUps = 1
    MaxRestarts = 0
    MaxThreads = 2
    MaxSends = 2
    Sessions = {"wallet", "demo", "none"}
    MaxFlows = 2
    MaxExtras = 2
    MaxInputs = 3
    Openings <- MCOpenings
INVARIANTS
    LandsWhereWritten
    AnswersFollowQuestions
PROPERTIES
    OnlyAnswersMix
