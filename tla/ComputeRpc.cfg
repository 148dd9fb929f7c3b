CONSTANTS
    Addrs = {1, 2}
    Conns = {c1, c2, c3, c4}
    None = None
    MaxBatches = 2
    MaxTicks = 3
SPECIFICATION Spec
SYMMETRY Symmetry
INVARIANTS
    FramesWhole
    AtMostOnce
    OpenIsMapped
    OneStaleAttempt
CHECK_DEADLOCK FALSE
