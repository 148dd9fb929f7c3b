CONSTANTS
    Senders = {s1, s2}
    Rooms = {r1, r2}
    Queues = {k1, k2, k3}
    None = None
    MaxSize = 2
    MaxLength = 2
    MaxMsgs = 5
SPECIFICATION Spec
SYMMETRY Symmetry
INVARIANTS
    NoOrphanQueue
    NewestRemain
    NothingVanishes
    SenderOrder
