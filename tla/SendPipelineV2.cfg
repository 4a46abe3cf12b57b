SPECIFICATION FairSpec
CONSTANTS
    NumPaths = 2
    Scenarios <- MCScenarios
    MaxSlots = 2
    ControlSends = 2
    MaxSendsPerStep = 2
    NumShards = 2
    GroupBytes = 3
    DescriptorBytes = 1
    MaxDescriptors = 2
    MaxFragments = 2
    MaxQueued = 2
CHECK_DEADLOCK FALSE
INVARIANTS FencesHonest SendsExact
PROPERTY FencesSettle
