SPECIFICATION Spec
CONSTANTS
    Targets = {"c3", "s3", "esp32"}
    Uses = {"interrupts", "receive", "send"}
    RingSize = 3
    Bytes = {0, 1}
    MaxPacket = 2
    MaxRead = 2
    Writers = {w1, w2}
    MaxWrites = 2
    None = None
CHECK_DEADLOCK FALSE
INVARIANTS
    IsrOnlyOnEvent
    StreamInOrder
    PacketsPumped
PROPERTIES
    BtServed
    WriteReturns
