---------------------------- MODULE FecDecoder ----------------------------
(***************************************************************************)
(* The v1 FEC decoder of one receive direction of one Session              *)
(* (internal/fec/decoder.go, replay_window.go, expiry_heap.go, limits.go). *)
(*                                                                         *)
(* A block (one Datagram) is identified by its PacketID.  Shards of a      *)
(* block arrive in any order, any number of times; the call that brings    *)
(* the DataShards-th distinct one reconstructs and delivers the Datagram.  *)
(* A window of the last Window PacketIDs remembers the delivered ones; an  *)
(* ID below it is refused unless its block is already pending.             *)
(*                                                                         *)
(* Time is relative: a pending block records how long it still has (its    *)
(* deadline minus the clock, never below 0), so the clock needs no bound.  *)
(* The window is the set of ReplayWindow; ReplayRing shows that the bitmap *)
(* which stores it implements that set.                                    *)
(***************************************************************************)
EXTENDS ReplayWindow, FiniteSets, FiniteSetsExt

CONSTANTS
    DataShards,             \* k
    TotalShards,            \* n = k + r
    MaxUDPPayload,          \* the negotiated budget
    DataShardWireOverhead,
    MaxDatagramSize,        \* configured resource limit
    MaxPendingBlocks,
    DecodeTimeout,          \* in clock ticks
    Shards                  \* the shards the caller may pass in

ASSUME ParamsAssumption ==
    DataShards \in Nat \ {0} /\ TotalShards \in Nat /\ TotalShards > DataShards
ASSUME BudgetAssumption ==
    /\ DataShardWireOverhead \in Nat /\ MaxUDPPayload \in Nat
    /\ MaxUDPPayload > DataShardWireOverhead
    /\ MaxDatagramSize \in Nat \ {0}
ASSUME PendingAssumption == MaxPendingBlocks \in Nat \ {0}
ASSUME TimeoutAssumption == DecodeTimeout \in Nat \ {0}

(***************************************************************************)
(* A shard: the block's PacketID, its index, the Datagram's length, the    *)
(* number of payload bytes, the bytes themselves (an abstract value), and  *)
(* whether it is for another Session or other RS parameters.               *)
(***************************************************************************)
ASSUME ShardsAssumption ==
    \A s \in Shards :
        /\ s.id \in PacketIDs
        /\ s.index \in Nat
        /\ s.length \in Nat
        /\ s.size \in Nat

----------------------------------------------------------------------------
(* Limits                                                                  *)

ShardCapacity == MaxUDPPayload - DataShardWireOverhead

\* min(k * ShardCapacity, MaxDatagramSize)
EffectiveDatagramLimit ==
    IF DataShards * ShardCapacity < MaxDatagramSize
    THEN DataShards * ShardCapacity ELSE MaxDatagramSize

\* An empty Datagram still has one byte per shard.
ShardSizeForDatagram(length) ==
    IF length = 0 THEN 1
    ELSE length \div DataShards + (IF length % DataShards # 0 THEN 1 ELSE 0)

ValidShard(s) ==
    /\ ~s.foreign
    /\ s.index < TotalShards
    /\ s.length <= EffectiveDatagramLimit
    /\ ShardSizeForDatagram(s.length) <= ShardCapacity
    /\ s.size = ShardSizeForDatagram(s.length)

----------------------------------------------------------------------------
VARIABLES
    pending,        \* PacketID -> its block, NoBlock when it has none
    pendingExpiry,  \* the expiry heap, as a set of <<PacketID, time left>>
    pendingShards,  \* shards retained by all pending blocks
    pendingBytes,   \* bytes retained by all pending blocks
    closed,
    deliveries      \* history: how often each PacketID was delivered

decoderVars == <<pending, pendingExpiry, pendingShards, pendingBytes,
                 started, highest, completed, closed, deliveries>>

\* A pending block keeps at least the shard that created it, so a block
\* without shards stands for an ID that is not in the map.
NoBlock == [length |-> 0, shards |-> {}, ttl |-> 0]

PendingIDs == {id \in PacketIDs : pending[id].shards # {}}

Present(block) == Cardinality(block.shards)
Bytes(block) == Present(block) * ShardSizeForDatagram(block.length)

Init ==
    /\ pending = [id \in PacketIDs |-> NoBlock]
    /\ pendingExpiry = {}
    /\ pendingShards = 0
    /\ pendingBytes = 0
    /\ WindowInit
    /\ closed = FALSE
    /\ deliveries = [id \in PacketIDs |-> 0]

----------------------------------------------------------------------------
(* Sweep: heap entries whose deadline has passed are popped; an entry that  *)
(* is not its block's own is skipped.                                       *)

Due == {e \in pendingExpiry : e[2] = 0}

Expired == {id \in PendingIDs : <<id, pending[id].ttl>> \in Due}

\* Mutant: the sweep pops the heap entry and leaves the block in the map.
MutantSweepKeepsBlock == pending

Swept == [id \in PacketIDs |-> IF id \in Expired THEN NoBlock ELSE pending[id]]

SweptExpiry == pendingExpiry \ Due

SweptShards == pendingShards - MapThenSumSet(LAMBDA id : Present(pending[id]), Expired)
SweptBytes  == pendingBytes - MapThenSumSet(LAMBDA id : Bytes(pending[id]), Expired)

SweptPending == PendingIDs \ Expired

SweepOnly ==
    /\ pending' = Swept
    /\ pendingExpiry' = SweptExpiry
    /\ pendingShards' = SweptShards
    /\ pendingBytes' = SweptBytes
    /\ UNCHANGED <<started, highest, completed, closed, deliveries>>

----------------------------------------------------------------------------
(* AddVerifiedShard.  The call sweeps first, then classifies the shard; the *)
(* outcomes below are its returns, in the order of its tests.               *)

\* Refused before the sweep: the call changes nothing.
RefuseInvalid(s) ==
    /\ closed \/ ~ValidShard(s)
    /\ UNCHANGED decoderVars

NewBlock(s) == s.id \notin SweptPending

AnswerTooOld(s) ==
    /\ ~closed /\ ValidShard(s) /\ NewBlock(s)
    /\ TooOld(s.id)
    /\ SweepOnly

AnswerLate(s) ==
    /\ ~closed /\ ValidShard(s) /\ NewBlock(s)
    /\ Contains(s.id)
    /\ SweepOnly

AdmissibleID(s) == NewBlock(s) /\ ~TooOld(s.id) /\ ~Contains(s.id)

AnswerFull(s) ==
    /\ ~closed /\ ValidShard(s) /\ AdmissibleID(s)
    /\ Cardinality(SweptPending) >= MaxPendingBlocks
    /\ SweepOnly

AnswerInconsistent(s) ==
    /\ ~closed /\ ValidShard(s) /\ ~NewBlock(s)
    /\ pending[s.id].length # s.length
    /\ SweepOnly

SameBlock(s) == ~NewBlock(s) /\ pending[s.id].length = s.length

\* A second shard at an index: equal bytes are a duplicate, others a conflict;
\* either way the first one stays.
AnswerDuplicateOrConflict(s) ==
    /\ ~closed /\ ValidShard(s) /\ SameBlock(s)
    /\ \E old \in pending[s.id].shards : old[1] = s.index
    /\ SweepOnly

\* The shard is retained, in a new block or in its pending one.
Retainable(s) ==
    \/ AdmissibleID(s) /\ Cardinality(SweptPending) < MaxPendingBlocks
    \/ SameBlock(s) /\ \A old \in pending[s.id].shards : old[1] # s.index

BlockWith(s) ==
    IF NewBlock(s)
    THEN [length |-> s.length, shards |-> {<<s.index, s.payload>>},
          ttl |-> DecodeTimeout]
    ELSE [length |-> pending[s.id].length,
          shards |-> pending[s.id].shards \cup {<<s.index, s.payload>>},
          ttl |-> pending[s.id].ttl]

\* highest and completed once a new block has been admitted
TopWith(s) == IF NewBlock(s) THEN AdmittedHighest(s.id) ELSE highest
BitsWith(s) == IF NewBlock(s) THEN Admitted(s.id) ELSE completed

Retain(s) ==
    /\ ~closed /\ ValidShard(s) /\ Retainable(s)
    /\ Present(BlockWith(s)) < DataShards
    /\ pending' = [Swept EXCEPT ![s.id] = BlockWith(s)]
    /\ pendingExpiry' = SweptExpiry \cup {<<s.id, BlockWith(s).ttl>>}
    /\ pendingShards' = SweptShards + 1
    /\ pendingBytes' = SweptBytes + s.size
    /\ started' = TRUE
    /\ highest' = TopWith(s)
    /\ completed' = BitsWith(s)
    /\ UNCHANGED <<closed, deliveries>>

\* Mutant: the last shard is subtracted without having been added.
MutantLastShardNotAdded(s) ==
    /\ pending' = [Swept EXCEPT ![s.id] = NoBlock]
    /\ pendingExpiry' = {e \in SweptExpiry : e[1] # s.id}
    /\ pendingShards' = SweptShards - Present(BlockWith(s))
    /\ pendingBytes' = SweptBytes - Bytes(BlockWith(s))

\* removePendingLocked: the map entry, the heap entry and the totals.  The
\* shard that completed the block is among those given back.
RemovePending(s) ==
    /\ pending' = [Swept EXCEPT ![s.id] = NoBlock]
    /\ pendingExpiry' = {e \in SweptExpiry : e[1] # s.id}
    /\ pendingShards' = SweptShards + 1 - Present(BlockWith(s))
    /\ pendingBytes' = SweptBytes + s.size - Bytes(BlockWith(s))

Complete(s) ==
    /\ ~closed /\ ValidShard(s) /\ Retainable(s)
    /\ Present(BlockWith(s)) >= DataShards
    /\ RemovePending(s)
    /\ started' = TRUE
    /\ highest' = TopWith(s)
    /\ completed' = Completed(s.id, TopWith(s), BitsWith(s))
    /\ deliveries' = [deliveries EXCEPT ![s.id] = @ + 1]
    /\ UNCHANGED closed

\* Mutant: a block that failed to decode is remembered as completed.
MutantFailureRemembered(s) ==
    /\ ~closed /\ ValidShard(s) /\ Retainable(s)
    /\ Present(BlockWith(s)) >= DataShards
    /\ RemovePending(s)
    /\ started' = TRUE
    /\ highest' = TopWith(s)
    /\ completed' = Completed(s.id, TopWith(s), BitsWith(s))
    /\ UNCHANGED <<closed, deliveries>>

\* ReconstructData fails: the block is dropped and not remembered.
DecodeFails(s) ==
    /\ ~closed /\ ValidShard(s) /\ Retainable(s)
    /\ Present(BlockWith(s)) >= DataShards
    /\ RemovePending(s)
    /\ started' = TRUE
    /\ highest' = TopWith(s)
    /\ completed' = BitsWith(s)
    /\ UNCHANGED <<closed, deliveries>>

AddVerifiedShard(s) ==
    \/ RefuseInvalid(s)
    \/ AnswerTooOld(s)
    \/ AnswerLate(s)
    \/ AnswerFull(s)
    \/ AnswerInconsistent(s)
    \/ AnswerDuplicateOrConflict(s)
    \/ Retain(s)
    \/ Complete(s)
    \/ DecodeFails(s)

\* The timer-driven Sweep; a closed decoder does nothing.
Sweep ==
    /\ ~closed
    /\ SweepOnly

Close ==
    /\ ~closed
    /\ closed' = TRUE
    /\ pending' = [id \in PacketIDs |-> NoBlock]
    /\ pendingExpiry' = {}
    /\ pendingShards' = 0
    /\ pendingBytes' = 0
    /\ started' = FALSE
    /\ highest' = 0
    /\ completed' = {}
    /\ UNCHANGED deliveries

\* The clock advances by one tick: every deadline comes one tick closer.
Earlier(ttl) == IF ttl = 0 THEN 0 ELSE ttl - 1

Tick ==
    /\ pending' = [id \in PacketIDs |->
                      [length |-> pending[id].length, shards |-> pending[id].shards,
                       ttl |-> Earlier(pending[id].ttl)]]
    /\ pendingExpiry' = {<<e[1], Earlier(e[2])>> : e \in pendingExpiry}
    /\ UNCHANGED <<pendingShards, pendingBytes, started, highest, completed,
                   closed, deliveries>>

Next ==
    \/ \E s \in Shards : AddVerifiedShard(s)
    \/ Sweep
    \/ Close
    \/ Tick

Spec == Init /\ [][Next]_decoderVars

\* Time passes and the Session's timer keeps calling Sweep: Session.Advance
\* re-arms nextDecodeSweep after every sweep and the Peer's dispatcher waits
\* for the earliest deadline.
Fairness == WF_decoderVars(Tick) /\ WF_decoderVars(Sweep)

FairSpec == Spec /\ Fairness

----------------------------------------------------------------------------
(* Properties                                                              *)

Blocks ==
    [length : Nat, shards : SUBSET (Nat \X {s.payload : s \in Shards}),
     ttl : 0..DecodeTimeout]

\* Type invariant of the decoder; in particular no block and no heap entry ever
\* has more than DecodeTimeout left.  The totals are typed by CountersExact.
TypeOK ==
    /\ pending \in [PacketIDs -> Blocks]
    /\ pendingExpiry \subseteq PacketIDs \X (0..DecodeTimeout)
    /\ started \in BOOLEAN
    /\ highest \in Nat
    /\ completed \subseteq PacketIDs
    /\ closed \in BOOLEAN
    /\ deliveries \in [PacketIDs -> Nat]

\* AddVerifiedShard returns OutcomeComplete at most once for a PacketID in the
\* life of a decoder, whatever arrives late, twice, out of order, after the
\* block expired, or after the window moved past a block that was pending.
AtMostOnce == \A id \in PacketIDs : deliveries[id] <= 1

\* The window never claims a delivery that did not happen: a shard answered
\* OutcomeDuplicate without a pending block belongs to a delivered Datagram,
\* so a Datagram still inside the window can be lost only by the network, by
\* its timeout or by a full decoder.
NoFalseDuplicate == \A id \in PacketIDs : Contains(id) => deliveries[id] = 1

\* A block is retained until it is complete and no longer: never k shards
\* without a delivery, never more blocks than the limit (a sweep makes room
\* before the limit is tested), and no block above the window's highest ID.
PendingBounded ==
    /\ Cardinality(PendingIDs) <= MaxPendingBlocks
    /\ \A id \in PendingIDs : Present(pending[id]) < DataShards
    /\ \A id \in PendingIDs : started /\ id <= highest

\* The expiry heap holds exactly one entry per pending block, the block's own,
\* so every block is swept at its deadline and the heap cannot outgrow the map.
HeapMatchesPending ==
    pendingExpiry = {<<id, pending[id].ttl>> : id \in PendingIDs}

\* What is retained is bounded, has its heap entries and is counted: the totals
\* that Stats reports are the sums over the pending blocks, after every sweep,
\* completion, failure and Close.
CountersExact ==
    /\ TypeOK /\ PendingBounded /\ HeapMatchesPending
    /\ pendingShards = MapThenSumSet(LAMBDA id : Present(pending[id]), PendingIDs)
    /\ pendingBytes = MapThenSumSet(LAMBDA id : Bytes(pending[id]), PendingIDs)

\* While the decoder is open the floor of the window only rises: an ID once
\* refused as too old is refused for good, and a block that is gone, or never
\* existed, is not opened again once its ID is below the floor.
FloorStep ==
    ~closed' =>
        /\ highest' >= highest
        /\ \A id \in PacketIDs :
              TooOld(id) => TooOld(id)' /\ (id \notin PendingIDs => id \notin PendingIDs')

FloorOnlyRises == [][FloorStep]_decoderVars

\* Every incarnation of a block ends: it is completed, failed or expired.  (The
\* same call may expire a block and open a new one for the PacketID, which
\* then has its full timeout.)
PendingResolved ==
    \A id \in PacketIDs :
        id \in PendingIDs /\ pending[id].ttl < DecodeTimeout
           ~> id \notin PendingIDs \/ pending[id].ttl = DecodeTimeout

============================================================================
