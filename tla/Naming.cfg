CONSTANTS
    Resolvers = {r1, r2, r3}
    Addresses = {a1, a2}
    Empty = Empty
    Failed = Failed
    MaxRestarts = 2
    Clients = {c1, c2}
    MaxBytes = 2
    MaxSamples = 2
SPECIFICATION RegistrationSpec
INVARIANTS
    PluralityWins
    ConnectedExact
    NeverOverReported
PROPERTIES
    NegativeOnlyAfterDeparture
    ServingIsAdvertised
CHECK_DEADLOCK FALSE
