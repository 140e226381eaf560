CONSTANTS
    Base = 2
    Flags = {0, 1, 2, 7}
    MaxPackets = 2
    MaxSize = 10
    MaxSeed = 3
SPECIFICATION Spec
CHECK_DEADLOCK FALSE
INVARIANTS
    InBounds
    SameVerdict
    NothingLost
    SeedsDecode
