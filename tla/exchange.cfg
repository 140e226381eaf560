CONSTANTS
    MaxPackets = 3
    PacketSize = 2
    MaxResponse = 3
    Chunk = 2
    Room = 4
SPECIFICATION Spec
CHECK_DEADLOCK FALSE
INVARIANTS
    WireInOrder
    GateHonoured
    StatusExplained
PROPERTIES
    ExchangeEnds
