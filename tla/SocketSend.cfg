SPECIFICATION SendSpec
CONSTANTS
    t1 = t1
    t2 = t2
    None = None
    Sender = {t1, t2}
    PacketSize = {1, 2}
    BufferSize = 3
    MaxBytes = 6
INVARIANTS
    BufferIsTail
PROPERTIES
    ReliableChannel
CHECK_DEADLOCK FALSE
