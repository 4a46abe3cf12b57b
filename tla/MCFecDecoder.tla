--------------------------- MODULE MCFecDecoder ---------------------------
(***************************************************************************)
(* Small instances of FecDecoder.  The window of two IDs is half the ID    *)
(* space, so it moves past delivered, pending and never-seen IDs.          *)
(***************************************************************************)
EXTENDS FecDecoder

CONSTANTS MaxID, Indexes, Lengths, Payloads

MCPacketIDs == 0..MaxID

GoodShards ==
    {[id |-> id, index |-> i, length |-> l, size |-> ShardSizeForDatagram(l),
      payload |-> p, foreign |-> FALSE] :
        id \in MCPacketIDs, i \in Indexes, l \in Lengths, p \in Payloads}

\* One shard for each way validateShard can refuse one.
BadShards ==
    LET one == CHOOSE s \in GoodShards : TRUE
    IN  {[one EXCEPT !.foreign = TRUE], [one EXCEPT !.index = TotalShards],
         [one EXCEPT !.length = EffectiveDatagramLimit + 1],
         [one EXCEPT !.size = @ + 1]}

MCShards == GoodShards \cup BadShards

============================================================================
