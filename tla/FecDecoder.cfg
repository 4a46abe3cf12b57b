SPECIFICATION FairSpec
CONSTANTS
    MaxID = 3
    Indexes = {0, 1, 2}
    Lengths = {3, 5}
    Payloads = {1}
    PacketIDs <- MCPacketIDs
    Shards <- MCShards
    Window = 2
    DataShards = 3
    TotalShards = 4
    MaxUDPPayload = 12
    DataShardWireOverhead = 10
    MaxDatagramSize = 10
    MaxPendingBlocks = 2
    DecodeTimeout = 2
INVARIANTS
    AtMostOnce NoFalseDuplicate CountersExact
PROPERTIES
    PendingResolved
