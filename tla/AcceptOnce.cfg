SPECIFICATION Spec
CONSTANTS
    NumIDs = 2
    MaxInbound = 2
    MaxOutbound = 0
    Carriers = 1
    Scenarios <- OnlySucceeding
    AcceptCapacity = 1
INVARIANTS
    OfferedOnce
