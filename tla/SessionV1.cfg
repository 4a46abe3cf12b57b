SPECIFICATION FairSpec
CONSTANTS
    p1 = p1
    p2 = p2
    Paths <- TwoPaths
    MaxGeneration = 2
    MaxRebuilt = 1
    WriterRoles = {"listener"}
    MaxHandshakeAttempts = 2
    MaxEndpoints = 2
    HandshakeRetryInterval = 1
    KeepaliveInterval = 1
    EndpointTTL = 1
    DecodeTimeout = 1
CHECK_DEADLOCK FALSE
INVARIANTS
    EndedIsOver
    CarrierNeverRefused
PROPERTIES
    AdvanceClearsDue
    HandshakeSettles
    PathsAreProbed
