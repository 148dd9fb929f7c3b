CONSTANTS
    Clients = {c1, c2}
    Timeout = 3
    Period = 1
    Delay = 1
    MaxTime = 7
    Second = 2
    Mega = 3
    Limit = 32
    Start = 3
    ExpireTimes = {1, 6, 12, 22}
    MaxClock = 6
    MaxTokens = 3
SPECIFICATION TimersSpec
INVARIANTS
    OneTimer
    SilenceBounded
    NeverBeforeAll
PROPERTIES
    OnlySilentClosed
CHECK_DEADLOCK FALSE
