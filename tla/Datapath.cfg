SPECIFICATION MCSpec
CONSTANTS
    Active = {0, 2}
    MaxLen = 2
    MAX_DEPTH = 2
    ArbiterLimit = 2
    ArbiterClears = {{}}
    None = None
    Kinds <- MCKinds
    BUFFER_DEPTH = 4
    BUFFER_THRESHOLD = 1
    META_DEPTH = 4
    MAX_PACKET_SIZE = 3
    CountLimit = 4
    Clears = {{}}
    MaxPackets = 4
INVARIANTS NoInterleaving StoredIntact PacketsCounted
PROPERTY NoStarvation
