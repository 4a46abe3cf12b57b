SPECIFICATION FairSpec
CONSTANTS
    Scenarios <- MCScenarios
    GroupSpan = 3
    DatagramSpan = 3
    WordBits = 2
    GroupTimeout = 2
    DatagramTimeout = 3
    MaxPendingGroups = 2
    MaxDatagrams = 2
    MaxFragments = 2
    GroupCharge = 3
    DecodedCharge = 1
    LinkCharge = 1
    Credit = 9
CHECK_DEADLOCK FALSE
INVARIANTS BooksExact DeliveredOnce NoFragmentLost
PROPERTY Quiesces
