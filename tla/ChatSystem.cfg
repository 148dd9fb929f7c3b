CONSTANTS
    Senders = {s1}
    Rooms = {r1}
    Queues = {k1}
    None = None
    MaxSize = 1
    MaxLength = 1
    MaxMsgs = 3
    Addrs = {1}
    Conns = {c1, c2}
    MaxBatches = 3
    MaxTicks = 2
SPECIFICATION ChatFairSpec
PROPERTIES
    ImplementsChatPath
    EveryChatSettles
CHECK_DEADLOCK FALSE
