SPECIFICATION FairSpec
CONSTANTS
    b1 = b1
    b2 = b2
    Bindings <- MCBindings
    Scenarios <- MCScenarios
    Lifetime = 2
    RetryInterval = 1
    Grace = 2
    MaxOldEpochs = 1
    ControlSends = 2
CHECK_DEADLOCK FALSE
INVARIANTS ResponderCommitsFirst PeerAccepts
PROPERTIES GenerationsRise ExchangesEnd
