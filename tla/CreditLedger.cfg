SPECIFICATION Spec
CONSTANTS
    s1 = s1
    s2 = s2
    s3 = s3
    l1 = l1
    l2 = l2
    l3 = l3
    l4 = l4
    NoScope = NoScope
    Scopes <- MCScopes
    Leases <- MCLeases
    Claims <- MCClaims
    MaxPeerBytes = 5
    MaxSessionBytes = 3
    MaxSessions = 2
    MaxPendingHandshakes = 1
    MaxPendingAccepts = 1
    MaxStreamsPerSession = 2
    MaxPeerStreams = 2
    MaxReservations = 3
SYMMETRY Symmetry
CHECK_DEADLOCK FALSE
INVARIANTS
    CountsExact BytesExact SlotsExact
