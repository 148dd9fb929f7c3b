CONSTANTS
    Conns = {c1, c2}
    Users = {u1, u2}
    Rooms = {r1, r2}
    None = None
SPECIFICATION SSpec
INVARIANTS
    OnlyLateRemain
PROPERTIES
    StopCompletes
    ShutdownEnds
