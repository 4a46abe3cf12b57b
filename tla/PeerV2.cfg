SPECIFICATION FairSpec
CONSTANTS
    Outbound <- MCOutbound
    Inbound <- MCInbound
    NumCarriers = 2
    MaxPendingAccepts = 1
    DeliveryQueueCapacity = 1
    MaxWrites = 2
    Scenarios <- MCScenarios
INVARIANTS ClosedHoldsNothing NothingStranded NoLostWakeup
PROPERTY CallsReturn
CHECK_DEADLOCK FALSE
