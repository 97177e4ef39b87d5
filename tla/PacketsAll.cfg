SPECIFICATION Spec
CONSTANTS
    None = None
    Kind <- AllKinds
    MaxPackets = 3
    MaxSessions = 2
INVARIANTS
    QueueAlive
PROPERTIES
    InOrder
    PacketLeaves
CHECK_DEADLOCK FALSE
