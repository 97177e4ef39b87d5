SPECIFICATION ReceiveSpec
CONSTANTS
    None = None
    HeaderSize = 2
    PayloadSize = {0, 3}
    ReadBufferSize = 3
    MaxPackets = 3
INVARIANTS
    HandledInOrder
PROPERTIES
    AllHandled
CHECK_DEADLOCK FALSE
