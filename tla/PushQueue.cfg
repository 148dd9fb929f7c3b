CONSTANTS
    Messages = {m1, m2}
    OutqueueN = 2
    MaxPushes = 4
SPECIFICATION FairSpec
INVARIANTS
    PushOrder
    ParkedOwesNothing
PROPERTIES
    PushesArrive
    SenderEnds
CHECK_DEADLOCK FALSE
