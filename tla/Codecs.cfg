CONSTANTS
    Ids = {a, b, World}
    World = World
    Texts = {t}
    Empty = Empty
    Missing = Missing
    Senders = {s1, s2, s3}
    Chars = {0, 7, 15, 16}
    SplitLength = 3
    MaxLen = 8
SPECIFICATION CodecsSpec
INVARIANTS
    TokenFaithful
    OnlyNamedTargets
    EncodedOnce
CHECK_DEADLOCK FALSE
