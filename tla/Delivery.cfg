CONSTANTS
    Conns = {c1, c2}
    Users = {u1, u2}
    Rooms = {u1}
    None = None
    World = World
    MaxMessages = 2
SPECIFICATION DeliverySpec
SYMMETRY Symmetry
INVARIANTS
    UserServed
    MembersServed
    OwnerFirst
    RoomPrivacy
    InboxOrder
CONSTRAINT Bound
