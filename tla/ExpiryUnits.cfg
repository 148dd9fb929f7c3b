CONSTANTS
    Second = 2
    Mega = 2
    Limit = 32
    Start = 3
    ExpireTimes = {4}
    MaxClock = 8
    MaxTokens = 1
SPECIFICATION PromptSpec
INVARIANTS
    ExpiresWithToken
CHECK_DEADLOCK FALSE
