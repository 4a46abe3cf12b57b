SPECIFICATION FairSocketSpec
CONSTANTS
    r1 = r1
    r2 = r2
    c1 = c1
    c2 = c2
    s1 = s1
    s2 = s2
    Rebuilders <- MCRebuilders
    Closers <- MCClosers
    Senders <- MCSenders
    Scenarios <- MCScenarios
CHECK_DEADLOCK FALSE
INVARIANT ReturnedMeansSilent
PROPERTIES SocketCallsReturn FailureReported
