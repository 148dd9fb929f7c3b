CONSTANTS
    Conns = {c1, c2}
    Users = {u1}
    Rooms = {r1}
    None = None
SPECIFICATION Spec
INVARIANTS
    GuardedPanicsCaptured
