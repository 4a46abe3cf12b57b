SPECIFICATION RingSpec
CONSTANTS
    MaxID = 9
    PacketIDs <- MCPacketIDs
    Window = 4
    WordBits = 2
PROPERTY RefinesWindow
CHECK_DEADLOCK FALSE
