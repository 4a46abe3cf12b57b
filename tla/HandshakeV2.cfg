SPECIFICATION FairSpec
CONSTANTS
    Lifetime = 2
    RetryInterval = 1
    MaxPending = 2
    MaxRejections = 1
    MaxNonce = 2
    Profiles <- AllProfiles
    Scenarios <- AllScenarios
CHECK_DEADLOCK FALSE
INVARIANTS
    Agreement
    ResourcesOwned
    ContractsKept
PROPERTY
    Settles
