CONSTANTS
    Conns = {c1, c2, c3}
    Users = {u1, u2}
    Rooms = {r1, r2}
    None = None
SPECIFICATION Spec
SYMMETRY Symmetry
INVARIANTS
    RegistryExact
    OneLivePerUser
    LoginUsersTracks
    RoomSlotHeld
    GhostOnlyAfterSwitch
PROPERTIES
    ImplementsSingleLogin
