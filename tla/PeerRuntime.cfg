SPECIFICATION FairSpec
CONSTANTS
    NumIDs = 2
    MaxInbound = 2
    MaxOutbound = 1
    Carriers = 1
    Scenarios <- MCScenarios
    AcceptCapacity = 1
INVARIANTS
    TablesAgree
    DrainedWhenClosed
    NothingOutlivesListener
    PeerCloseIsComplete
PROPERTY
    PeerCloseReturnsEventually
