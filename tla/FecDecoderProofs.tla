------------------------- MODULE FecDecoderProofs -------------------------
(***************************************************************************)
(* Proofs about FecDecoder for every window, block size, limit and set of  *)
(* arriving shards.                                                        *)
(*                                                                         *)
(* AtMostOnce is not inductive: it needs to know that a delivered PacketID *)
(* can be admitted no more.  Delivered IDs are therefore shown to be out   *)
(* of the pending map and, while the decoder is open, either remembered in *)
(* the window or below its floor (Remembered).                             *)
(*                                                                         *)
(* CountersExact speaks of sums over the pending blocks.  A sum of natural *)
(* numbers over a finite set is shown to be the size of a set of units, so *)
(* that what a step does to it follows from facts about cardinalities.     *)
(*                                                                         *)
(* Last, the bitmap of ReplayRing implements the window the decoder is     *)
(* specified with, for any number of words of any size.                    *)
(***************************************************************************)
EXTENDS FecDecoder, ReplayRing, FiniteSetTheorems, TLAPS

\* A delivered ID has no block, and the window knows it or has passed it.
Remembered ==
    ~closed => \A id \in PacketIDs : deliveries[id] > 0 =>
        /\ id \notin PendingIDs
        /\ started
        /\ id <= highest
        /\ TooOld(id) \/ id \in completed

\* A completion bit is set for delivered IDs only, and under the highest ID.
BitsDelivered == \A id \in completed : deliveries[id] = 1 /\ id <= highest

\* A pending block's ID is under the highest one.
PendingAdmitted == \A id \in PendingIDs : started /\ id <= highest

\* A window that has admitted nothing is at zero.
WindowStarts == ~started => highest = 0

DeliveryInv ==
    Remembered /\ BitsDelivered /\ PendingAdmitted /\ WindowStarts /\ AtMostOnce

----------------------------------------------------------------------------
\* The fields of a block built by BlockWith, and the ID's place among the
\* pending ones before the call.
LEMMA BlockWithType ==
    ASSUME TypeOK, NEW s \in Shards
    PROVE  BlockWith(s) \in Blocks
<1>1. CASE NewBlock(s)
  BY <1>1, ShardsAssumption, TimeoutAssumption DEF BlockWith, Blocks
<1>2. CASE ~NewBlock(s)
  <2>1. pending[s.id] \in Blocks
    BY ShardsAssumption DEF TypeOK
  <2>2. <<s.index, s.payload>> \in Nat \X {t.payload : t \in Shards}
    BY ShardsAssumption
  <2>3. QED
    BY <1>2, <2>1, <2>2 DEF BlockWith, Blocks
<1>3. QED
  BY <1>1, <1>2

\* The decoder's variables keep their types under every call.
THEOREM TypeCorrect == Spec => []TypeOK
<1>1. Init => TypeOK
  <2> SUFFICES ASSUME Init PROVE TypeOK
    OBVIOUS
  <2>1. NoBlock \in Blocks
    BY TimeoutAssumption DEF NoBlock, Blocks
  <2>2. pending \in [PacketIDs -> Blocks]
    BY <2>1 DEF Init
  <2>3. deliveries \in [PacketIDs -> Nat]
    BY DEF Init
  <2>4. QED
    BY <2>2, <2>3 DEF Init, WindowInit, TypeOK
<1>2. TypeOK /\ [Next]_decoderVars => TypeOK'
  <2> SUFFICES ASSUME TypeOK, [Next]_decoderVars PROVE TypeOK'
    OBVIOUS
  <2>0. NoBlock \in Blocks
    BY TimeoutAssumption DEF NoBlock, Blocks
  <2>1. Swept \in [PacketIDs -> Blocks]
    BY <2>0 DEF TypeOK, Swept
  <2>2. SweptExpiry \subseteq PacketIDs \X (0..DecodeTimeout)
    BY DEF TypeOK, SweptExpiry
  <2>3. ASSUME SweepOnly PROVE TypeOK'
    BY <2>1, <2>2, <2>3 DEF SweepOnly, TypeOK
  <2>4. ASSUME NEW s \in Shards
        PROVE  TopWith(s) \in Nat /\ BitsWith(s) \subseteq PacketIDs
    BY ShardsAssumption, PacketIDsAssumption
       DEF TypeOK, TopWith, BitsWith, AdmittedHighest, Admitted
  <2>5. ASSUME NEW s \in Shards, RemovePending(s)
        PROVE  /\ pending' \in [PacketIDs -> Blocks]
               /\ pendingExpiry' \subseteq PacketIDs \X (0..DecodeTimeout)
    BY <2>0, <2>1, <2>2, <2>5 DEF RemovePending
  <2>6. CASE \E s \in Shards : AddVerifiedShard(s)
    <3> PICK s \in Shards : AddVerifiedShard(s)
      BY <2>6
    <3>1. CASE RefuseInvalid(s)
      BY <3>1 DEF RefuseInvalid, decoderVars, TypeOK
    <3>2. CASE \/ AnswerTooOld(s) \/ AnswerLate(s) \/ AnswerFull(s)
               \/ AnswerInconsistent(s) \/ AnswerDuplicateOrConflict(s)
      BY <3>2, <2>3 DEF AnswerTooOld, AnswerLate, AnswerFull,
                        AnswerInconsistent, AnswerDuplicateOrConflict
    <3>3. CASE Retain(s)
      <4>1. BlockWith(s) \in Blocks /\ BlockWith(s).ttl \in 0..DecodeTimeout
        BY BlockWithType DEF Blocks
      <4>2. pending' \in [PacketIDs -> Blocks]
        BY <3>3, <2>1, <4>1 DEF Retain
      <4>3. pendingExpiry' \subseteq PacketIDs \X (0..DecodeTimeout)
        BY <3>3, <2>2, <4>1, ShardsAssumption DEF Retain
      <4>4. QED
        BY <3>3, <2>4, <4>2, <4>3 DEF Retain, TypeOK
    <3>4. CASE Complete(s)
      <4>1. completed' \subseteq PacketIDs
        BY <3>4, <2>4, ShardsAssumption DEF Complete, Completed
      <4>2. deliveries' \in [PacketIDs -> Nat]
        BY <3>4, ShardsAssumption DEF Complete, TypeOK
      <4>3. QED
        BY <3>4, <2>4, <2>5, <4>1, <4>2 DEF Complete, TypeOK
    <3>5. CASE DecodeFails(s)
      BY <3>5, <2>4, <2>5 DEF DecodeFails, TypeOK
    <3>6. QED
      BY <3>1, <3>2, <3>3, <3>4, <3>5 DEF AddVerifiedShard
  <2>7. CASE Sweep
    BY <2>7, <2>3 DEF Sweep
  <2>8. CASE Close
    BY <2>8, <2>0 DEF Close, TypeOK
  <2>9. CASE Tick
    <3>1. \A t \in 0..DecodeTimeout : Earlier(t) \in 0..DecodeTimeout
      BY TimeoutAssumption DEF Earlier
    <3>2. pending' \in [PacketIDs -> Blocks]
      BY <2>9, <3>1 DEF Tick, TypeOK, Blocks
    <3>3. pendingExpiry' \subseteq PacketIDs \X (0..DecodeTimeout)
      BY <2>9, <3>1 DEF Tick, TypeOK
    <3>4. QED
      BY <2>9, <3>2, <3>3 DEF Tick, TypeOK
  <2>10. CASE UNCHANGED decoderVars
    BY <2>10 DEF decoderVars, TypeOK
  <2>11. QED
    BY <2>6, <2>7, <2>8, <2>9, <2>10 DEF Next
<1>3. QED
  BY <1>1, <1>2, PTL DEF Spec

----------------------------------------------------------------------------
\* Sweeping leaves the unexpired blocks and nothing else.
LEMMA SweepPending ==
    ASSUME TypeOK
    PROVE  {id \in PacketIDs : Swept[id].shards # {}} = SweptPending
  BY DEF Swept, SweptPending, PendingIDs, NoBlock, Expired

\* What the calls that retain a shard do to the window: it never moves back,
\* it covers the shard's ID, and the bits it drops are below its new floor.
LEMMA WindowMoves ==
    ASSUME TypeOK, PendingAdmitted, BitsDelivered, NEW s \in Shards, Retainable(s)
    PROVE  /\ TopWith(s) \in Nat
           /\ started => TopWith(s) >= highest
           /\ s.id <= TopWith(s)
           /\ BitsWith(s) \subseteq completed
           /\ \A c \in completed \ BitsWith(s) :
                  c < TopWith(s) /\ TopWith(s) - c >= Window
<1>1. s.id \in Nat /\ s.id \in PacketIDs /\ completed \subseteq Nat /\ highest \in Nat
  BY ShardsAssumption, PacketIDsAssumption DEF TypeOK
<1>2. CASE NewBlock(s)
  BY <1>1, <1>2, WindowAssumption
     DEF TopWith, BitsWith, AdmittedHighest, Admitted
<1>3. CASE ~NewBlock(s)
  <2>1. s.id <= highest
    BY <1>1, <1>3 DEF NewBlock, SweptPending, PendingAdmitted
  <2>2. QED
    BY <1>1, <1>3, <2>1 DEF TopWith, BitsWith
<1>4. QED
  BY <1>2, <1>3

\* A shard is retained only for an ID that has not been delivered.
LEMMA RetainableUndelivered ==
    ASSUME TypeOK, Remembered, ~closed, NEW s \in Shards, Retainable(s)
    PROVE  deliveries[s.id] = 0
<1>1. s.id \in PacketIDs /\ deliveries[s.id] \in Nat
  BY ShardsAssumption DEF TypeOK
<1>2. CASE NewBlock(s)
  <2>1. AdmissibleID(s)
    BY <1>2 DEF Retainable, SameBlock
  <2>2. QED
    BY <1>1, <2>1 DEF AdmissibleID, Remembered, Contains
<1>3. CASE ~NewBlock(s)
  BY <1>1, <1>3 DEF NewBlock, SweptPending, Remembered
<1>4. QED
  BY <1>2, <1>3

\* The calls that only sweep.
LEMMA SweepKeepsInv ==
    ASSUME TypeOK, DeliveryInv, SweepOnly
    PROVE  DeliveryInv'
<1>1. PendingIDs' \subseteq PendingIDs
  <2>1. PendingIDs' = SweptPending
    BY SweepPending DEF SweepOnly, PendingIDs
  <2>2. QED
    BY <2>1 DEF SweptPending
<1>2. UNCHANGED <<started, highest, completed, closed, deliveries>>
  BY DEF SweepOnly
<1>3. Remembered'
  BY <1>1, <1>2 DEF DeliveryInv, Remembered, TooOld
<1>4. PendingAdmitted'
  BY <1>1, <1>2 DEF DeliveryInv, PendingAdmitted
<1>5. QED
  BY <1>2, <1>3, <1>4 DEF DeliveryInv, BitsDelivered, WindowStarts, AtMostOnce

\* The calls that retain a shard without a delivery: the block is in the map
\* (Retain) or has been dropped again (DecodeFails).
LEMMA RetainKeepsInv ==
    ASSUME TypeOK, DeliveryInv, NEW s \in Shards, Retain(s) \/ DecodeFails(s)
    PROVE  DeliveryInv'
<1>1. /\ ~closed /\ Retainable(s)
      /\ started' = TRUE /\ highest' = TopWith(s) /\ completed' = BitsWith(s)
      /\ UNCHANGED <<closed, deliveries>>
  BY DEF Retain, DecodeFails
<1>2. /\ TopWith(s) \in Nat
      /\ started => TopWith(s) >= highest
      /\ s.id <= TopWith(s)
      /\ BitsWith(s) \subseteq completed
      /\ \A c \in completed \ BitsWith(s) :
             c < TopWith(s) /\ TopWith(s) - c >= Window
  BY <1>1, WindowMoves DEF DeliveryInv
<1>3. deliveries[s.id] = 0
  BY <1>1, RetainableUndelivered DEF DeliveryInv
<1>4. PendingIDs' \subseteq PendingIDs \cup {s.id}
  <2>1. \A id \in PacketIDs : id # s.id => pending'[id] = Swept[id]
    BY DEF Retain, DecodeFails, RemovePending, Swept
  <2>2. QED
    BY <2>1, SweepPending DEF PendingIDs, SweptPending
<1>5. PacketIDs \subseteq Nat /\ highest \in Nat /\ Window \in Nat
      /\ completed \subseteq PacketIDs /\ s.id \in PacketIDs
  BY PacketIDsAssumption, WindowAssumption, ShardsAssumption DEF TypeOK
<1>6. Remembered'
  <2> SUFFICES ASSUME NEW id \in PacketIDs, deliveries[id] > 0
               PROVE  /\ id \notin PendingIDs' /\ id <= highest'
                      /\ TooOld(id)' \/ id \in completed'
    BY <1>1 DEF Remembered
  <2>1. /\ id \notin PendingIDs /\ started /\ id <= highest
        /\ TooOld(id) \/ id \in completed
    BY <1>1 DEF DeliveryInv, Remembered
  <2>2. id # s.id
    BY <1>3
  <2>3. id \notin PendingIDs' /\ id <= highest'
    BY <1>1, <1>2, <1>4, <1>5, <2>1, <2>2
  <2>4. CASE id < highest /\ highest - id >= Window
    <3>1. id < TopWith(s) /\ TopWith(s) - id >= Window
      BY <1>2, <1>5, <2>1, <2>4
    <3>2. QED
      BY <1>1, <2>3, <3>1 DEF TooOld
  <2>5. CASE id \in completed
    BY <1>1, <1>2, <2>3, <2>5 DEF TooOld
  <2>6. QED
    BY <2>1, <2>4, <2>5 DEF TooOld
<1>7. BitsDelivered'
  <2> SUFFICES ASSUME NEW id \in BitsWith(s)
               PROVE  deliveries[id] = 1 /\ id <= TopWith(s)
    BY <1>1 DEF BitsDelivered
  <2>1. id \in completed /\ deliveries[id] = 1 /\ id <= highest
    BY <1>2 DEF DeliveryInv, BitsDelivered
  <2>2. started
    BY <1>1, <1>5, <2>1 DEF DeliveryInv, Remembered
  <2>3. QED
    BY <1>2, <1>5, <2>1, <2>2
<1>8. PendingAdmitted'
  BY <1>1, <1>2, <1>4, <1>5 DEF DeliveryInv, PendingAdmitted, PendingIDs
<1>9. QED
  BY <1>1, <1>6, <1>7, <1>8 DEF DeliveryInv, WindowStarts, AtMostOnce

\* The call that delivers.
LEMMA CompleteKeepsInv ==
    ASSUME TypeOK, DeliveryInv, NEW s \in Shards, Complete(s)
    PROVE  DeliveryInv'
<1>1. /\ ~closed /\ ~closed' /\ Retainable(s)
      /\ started' = TRUE /\ highest' = TopWith(s)
      /\ completed' = Completed(s.id, TopWith(s), BitsWith(s))
      /\ deliveries' = [deliveries EXCEPT ![s.id] = @ + 1]
  BY DEF Complete
<1>2. /\ TopWith(s) \in Nat
      /\ started => TopWith(s) >= highest
      /\ s.id <= TopWith(s)
      /\ BitsWith(s) \subseteq completed
      /\ \A c \in completed \ BitsWith(s) :
             c < TopWith(s) /\ TopWith(s) - c >= Window
  BY <1>1, WindowMoves DEF DeliveryInv
<1>3. deliveries[s.id] = 0
  BY <1>1, RetainableUndelivered DEF DeliveryInv
<1>4. PendingIDs' \subseteq PendingIDs \ {s.id}
  <2>1. \A id \in PacketIDs : id # s.id => pending'[id] = Swept[id]
    BY DEF Complete, RemovePending, Swept
  <2>2. s.id \in PacketIDs => pending'[s.id].shards = {}
    BY DEF Complete, RemovePending, Swept, NoBlock
  <2>3. QED
    BY <2>1, <2>2, SweepPending DEF PendingIDs, SweptPending
<1>5. PacketIDs \subseteq Nat /\ highest \in Nat /\ Window \in Nat
      /\ completed \subseteq PacketIDs /\ s.id \in PacketIDs
      /\ deliveries \in [PacketIDs -> Nat]
  BY PacketIDsAssumption, WindowAssumption, ShardsAssumption DEF TypeOK
<1>6. \A id \in PacketIDs :
          deliveries'[id] = IF id = s.id THEN 1 ELSE deliveries[id]
  BY <1>1, <1>3, <1>5
<1>7. Remembered'
  <2> SUFFICES ASSUME NEW id \in PacketIDs, deliveries'[id] > 0
               PROVE  /\ id \notin PendingIDs' /\ id <= highest'
                      /\ TooOld(id)' \/ id \in completed'
    BY <1>1 DEF Remembered
  <2>1. CASE id = s.id
    BY <1>1, <1>2, <1>4, <1>5, <2>1 DEF Completed, TooOld
  <2>2. CASE id # s.id
    <3>1. /\ id \notin PendingIDs /\ started /\ id <= highest
          /\ TooOld(id) \/ id \in completed
      BY <1>1, <1>6, <2>2 DEF DeliveryInv, Remembered
    <3>2. id \notin PendingIDs' /\ id <= highest'
      BY <1>1, <1>2, <1>4, <1>5, <3>1
    <3>3. CASE id < highest /\ highest - id >= Window
      <4>1. id < TopWith(s) /\ TopWith(s) - id >= Window
        BY <1>2, <1>5, <3>1, <3>3
      <4>2. QED
        BY <1>1, <3>2, <4>1 DEF TooOld
    <3>4. CASE id \in completed
      BY <1>1, <1>2, <3>2, <3>4 DEF TooOld, Completed
    <3>5. QED
      BY <3>1, <3>3, <3>4 DEF TooOld
  <2>3. QED
    BY <2>1, <2>2
<1>8. BitsDelivered'
  <2> SUFFICES ASSUME NEW id \in completed'
               PROVE  deliveries'[id] = 1 /\ id <= TopWith(s)
    BY <1>1 DEF BitsDelivered
  <2>1. CASE id = s.id
    BY <1>2, <1>5, <1>6, <2>1
  <2>2. CASE id # s.id
    <3>1. id \in completed
      BY <1>1, <1>2, <2>2 DEF Completed
    <3>2. id \in PacketIDs /\ deliveries[id] = 1 /\ id <= highest
      BY <1>5, <3>1 DEF DeliveryInv, BitsDelivered
    <3>3. started
      BY <1>1, <1>5, <3>2 DEF DeliveryInv, Remembered
    <3>4. QED
      BY <1>2, <1>5, <1>6, <2>2, <3>2, <3>3
  <2>3. QED
    BY <2>1, <2>2
<1>9. PendingAdmitted'
  BY <1>1, <1>2, <1>4, <1>5 DEF DeliveryInv, PendingAdmitted, PendingIDs
<1>10. AtMostOnce'
  BY <1>5, <1>6 DEF DeliveryInv, AtMostOnce
<1>11. QED
  BY <1>1, <1>7, <1>8, <1>9, <1>10 DEF DeliveryInv, WindowStarts

\* The delivery invariant holds in every reachable state.
THEOREM DeliveryInvariant == Spec => []DeliveryInv
<1>1. Init => DeliveryInv
  BY DEF Init, WindowInit, DeliveryInv, Remembered, BitsDelivered, PendingAdmitted,
         PendingIDs, NoBlock, WindowStarts, AtMostOnce
<1>2. TypeOK /\ DeliveryInv /\ [Next]_decoderVars => DeliveryInv'
  <2> SUFFICES ASSUME TypeOK, DeliveryInv, [Next]_decoderVars
               PROVE  DeliveryInv'
    OBVIOUS
  <2>1. CASE \E s \in Shards : AddVerifiedShard(s)
    <3> PICK s \in Shards : AddVerifiedShard(s)
      BY <2>1
    <3>1. CASE RefuseInvalid(s)
      BY <3>1 DEF RefuseInvalid, decoderVars, DeliveryInv, Remembered, TooOld,
                  BitsDelivered, PendingAdmitted, PendingIDs, WindowStarts, AtMostOnce
    <3>2. CASE \/ AnswerTooOld(s) \/ AnswerLate(s) \/ AnswerFull(s)
               \/ AnswerInconsistent(s) \/ AnswerDuplicateOrConflict(s)
      BY <3>2, SweepKeepsInv DEF AnswerTooOld, AnswerLate, AnswerFull,
                        AnswerInconsistent, AnswerDuplicateOrConflict
    <3>3. CASE Retain(s) \/ DecodeFails(s)
      BY <3>3, RetainKeepsInv
    <3>4. CASE Complete(s)
      BY <3>4, CompleteKeepsInv
    <3>5. QED
      BY <3>1, <3>2, <3>3, <3>4 DEF AddVerifiedShard
  <2>2. CASE Sweep
    BY <2>2, SweepKeepsInv DEF Sweep
  <2>3. CASE Close
    BY <2>3 DEF Close, DeliveryInv, Remembered, BitsDelivered,
                PendingAdmitted, PendingIDs, NoBlock, WindowStarts, AtMostOnce
  <2>4. CASE Tick
    <3>1. PendingIDs' = PendingIDs
      BY <2>4 DEF Tick, PendingIDs
    <3>2. QED
      BY <2>4, <3>1 DEF Tick, DeliveryInv, Remembered, TooOld, BitsDelivered,
                        PendingAdmitted, WindowStarts, AtMostOnce
  <2>5. CASE UNCHANGED decoderVars
    BY <2>5 DEF decoderVars, DeliveryInv, Remembered, TooOld, BitsDelivered,
                PendingAdmitted, PendingIDs, WindowStarts, AtMostOnce
  <2>6. QED
    BY <2>1, <2>2, <2>3, <2>4, <2>5 DEF Next
<1>3. QED
  BY <1>1, <1>2, TypeCorrect, PTL DEF Spec

\* No PacketID is delivered twice by one decoder, for any window and any
\* sequence of arrivals, expiries and sweeps.
THEOREM DeliveredAtMostOnce == Spec => []AtMostOnce
<1>1. DeliveryInv => AtMostOnce
  BY DEF DeliveryInv
<1>2. QED
  BY <1>1, DeliveryInvariant, PTL

\* OutcomeDuplicate without a pending block is answered for delivered
\* Datagrams only.
THEOREM DuplicatesWereDelivered == Spec => []NoFalseDuplicate
<1>1. DeliveryInv => NoFalseDuplicate
  BY DEF DeliveryInv, BitsDelivered, NoFalseDuplicate, Contains
<1>2. QED
  BY <1>1, DeliveryInvariant, PTL

\* The floor of the window never falls, and no block is opened below it.
THEOREM FloorNeverFalls == Spec => FloorOnlyRises
<1>1. TypeOK /\ DeliveryInv /\ [Next]_decoderVars => [FloorStep]_decoderVars
  <2> SUFFICES ASSUME TypeOK, DeliveryInv, Next, ~closed'
               PROVE  /\ highest' >= highest
                      /\ \A id \in PacketIDs : TooOld(id) =>
                            TooOld(id)' /\ (id \notin PendingIDs => id \notin PendingIDs')
    BY DEF FloorStep
  <2>0. highest \in Nat /\ PacketIDs \subseteq Nat /\ Window \in Nat
    BY PacketIDsAssumption, WindowAssumption DEF TypeOK
  <2>1. ASSUME UNCHANGED <<started, highest>>, PendingIDs' \subseteq PendingIDs
        PROVE  /\ highest' >= highest
               /\ \A id \in PacketIDs : TooOld(id) =>
                     TooOld(id)' /\ (id \notin PendingIDs => id \notin PendingIDs')
    BY <2>0, <2>1 DEF TooOld
  <2>2. ASSUME SweepOnly
        PROVE  UNCHANGED <<started, highest>> /\ PendingIDs' \subseteq PendingIDs
    <3>1. PendingIDs' = SweptPending
      BY <2>2, SweepPending DEF SweepOnly, PendingIDs
    <3>2. QED
      BY <2>2, <3>1 DEF SweptPending, SweepOnly
  <2>3. CASE \E s \in Shards : AddVerifiedShard(s)
    <3> PICK s \in Shards : AddVerifiedShard(s)
      BY <2>3
    <3>1. CASE RefuseInvalid(s)
      BY <3>1, <2>1 DEF RefuseInvalid, decoderVars, PendingIDs
    <3>2. CASE \/ AnswerTooOld(s) \/ AnswerLate(s) \/ AnswerFull(s)
               \/ AnswerInconsistent(s) \/ AnswerDuplicateOrConflict(s)
      BY <3>2, <2>1, <2>2 DEF AnswerTooOld, AnswerLate, AnswerFull,
                        AnswerInconsistent, AnswerDuplicateOrConflict
    <3>3. CASE Retain(s) \/ DecodeFails(s) \/ Complete(s)
      <4>1. Retainable(s) /\ started' = TRUE /\ highest' = TopWith(s)
        BY <3>3 DEF Retain, DecodeFails, Complete
      <4>2. /\ TopWith(s) \in Nat
            /\ started => TopWith(s) >= highest
        BY <4>1, WindowMoves DEF DeliveryInv
      <4>3. PendingIDs' \subseteq PendingIDs \cup {s.id}
        <5>1. \A id \in PacketIDs : id # s.id => pending'[id] = Swept[id]
          BY <3>3 DEF Retain, DecodeFails, Complete, RemovePending, Swept
        <5>2. QED
          BY <5>1, SweepPending DEF PendingIDs, SweptPending
      <4>4. ~started => highest = 0
        BY DEF DeliveryInv, WindowStarts
      <4>5. TooOld(s.id) => s.id \in PendingIDs
        BY <4>1 DEF Retainable, AdmissibleID, SameBlock, NewBlock, SweptPending
      <4>6. QED
        BY <2>0, <4>1, <4>2, <4>3, <4>4, <4>5 DEF TooOld
    <3>4. QED
      BY <3>1, <3>2, <3>3 DEF AddVerifiedShard
  <2>4. CASE Sweep
    BY <2>4, <2>1, <2>2 DEF Sweep
  <2>5. CASE Close
    BY <2>5 DEF Close
  <2>6. CASE Tick
    BY <2>6, <2>1 DEF Tick, PendingIDs
  <2>7. QED
    BY <2>3, <2>4, <2>5, <2>6 DEF Next
<1>2. QED
  BY <1>1, TypeCorrect, DeliveryInvariant, PTL DEF Spec, FloorOnlyRises

----------------------------------------------------------------------------
(* The retained state is bounded.  Finiteness of the pending set is part of *)
(* the invariant: cardinalities mean nothing without it.                    *)

BoundInv == IsFiniteSet(PendingIDs) /\ PendingBounded

\* A step that leaves only blocks that were pending before.
LEMMA FewerBlocksKeepBound ==
    ASSUME TypeOK, BoundInv, started' = started, highest' = highest,
           PendingIDs' \subseteq PendingIDs,
           \A id \in PendingIDs' : pending'[id].shards = pending[id].shards
    PROVE  BoundInv'
<1>1. IsFiniteSet(PendingIDs') /\ Cardinality(PendingIDs') <= Cardinality(PendingIDs)
  BY FS_Subset DEF BoundInv
<1>2. Cardinality(PendingIDs) \in Nat /\ Cardinality(PendingIDs') \in Nat
  BY <1>1, FS_CardinalityType DEF BoundInv
<1>3. Cardinality(PendingIDs') <= MaxPendingBlocks
  BY <1>1, <1>2, PendingAssumption DEF BoundInv, PendingBounded
<1>4. \A id \in PendingIDs' : Present(pending'[id]) < DataShards
  BY DEF BoundInv, PendingBounded, Present
<1>5. \A id \in PendingIDs' : started' /\ id <= highest'
  BY DEF BoundInv, PendingBounded
<1>6. QED
  BY <1>1, <1>3, <1>4, <1>5 DEF BoundInv, PendingBounded

\* The calls that only sweep keep the bound.
LEMMA SweepKeepsBound ==
    ASSUME TypeOK, BoundInv, SweepOnly
    PROVE  BoundInv'
<1>1. PendingIDs' = SweptPending
  BY SweepPending DEF SweepOnly, PendingIDs
<1>2. \A id \in SweptPending : pending'[id] = pending[id]
  BY DEF SweepOnly, Swept, SweptPending, PendingIDs
<1>3. QED
  BY <1>1, <1>2, FewerBlocksKeepBound DEF SweepOnly, SweptPending

\* The calls that retain a shard: the limit was tested after the sweep.
LEMMA RetainKeepsBound ==
    ASSUME TypeOK, DeliveryInv, BoundInv, NEW s \in Shards,
           Retain(s) \/ Complete(s) \/ DecodeFails(s)
    PROVE  BoundInv'
<1>1. Retainable(s) /\ started' = TRUE /\ highest' = TopWith(s)
  BY DEF Retain, DecodeFails, Complete
<1>2. \A id \in PacketIDs : id # s.id => pending'[id] = Swept[id]
  BY DEF Retain, DecodeFails, Complete, RemovePending, Swept
<1>3. PendingIDs' \subseteq SweptPending \cup {s.id}
  BY <1>2, SweepPending DEF PendingIDs
<1>4. IsFiniteSet(SweptPending) /\ Cardinality(SweptPending) <= Cardinality(PendingIDs)
  BY FS_Subset DEF BoundInv, SweptPending
<1>5. /\ Cardinality(PendingIDs) \in Nat /\ Cardinality(PendingIDs) <= MaxPendingBlocks
      /\ Cardinality(SweptPending) \in Nat
  BY <1>4, FS_CardinalityType DEF BoundInv, PendingBounded
<1>6. /\ IsFiniteSet(SweptPending \cup {s.id})
      /\ Cardinality(SweptPending \cup {s.id}) <= MaxPendingBlocks
  <2>1. CASE s.id \in SweptPending
    <3>1. SweptPending \cup {s.id} = SweptPending
      BY <2>1
    <3>2. QED
      BY <1>4, <1>5, <3>1, PendingAssumption
  <2>2. CASE s.id \notin SweptPending
    <3>1. Cardinality(SweptPending) < MaxPendingBlocks
      BY <1>1, <2>2 DEF Retainable, SameBlock, NewBlock
    <3>2. QED
      BY <1>4, <1>5, <2>2, <3>1, FS_AddElement, PendingAssumption
  <2>3. QED
    BY <2>1, <2>2
<1>7. /\ IsFiniteSet(PendingIDs')
      /\ Cardinality(PendingIDs') <= Cardinality(SweptPending \cup {s.id})
  BY <1>3, <1>6, FS_Subset
<1>8. Cardinality(PendingIDs') <= MaxPendingBlocks
  BY <1>6, <1>7, FS_CardinalityType, PendingAssumption
<1>9. \A id \in PendingIDs' : Present(pending'[id]) < DataShards
  <2> SUFFICES ASSUME NEW id \in PendingIDs' PROVE Present(pending'[id]) < DataShards
    OBVIOUS
  <2>1. CASE id = s.id
    <3>1. Retain(s)
      BY <2>1 DEF Complete, DecodeFails, RemovePending, NoBlock, PendingIDs, Swept
    <3>2. s.id \in PacketIDs
      BY ShardsAssumption
    <3>3. pending'[id] = BlockWith(s)
      BY <2>1, <3>1, <3>2 DEF Retain, Swept
    <3>4. QED
      BY <3>1, <3>3 DEF Retain
  <2>2. CASE id # s.id
    <3>1. id \in SweptPending
      BY <1>3, <2>2
    <3>2. pending'[id] = pending[id] /\ id \in PendingIDs
      BY <1>2, <2>2, <3>1 DEF Swept, SweptPending, PendingIDs
    <3>3. QED
      BY <3>2 DEF BoundInv, PendingBounded
  <2>3. QED
    BY <2>1, <2>2
<1>10. \A id \in PendingIDs' : started' /\ id <= highest'
  <2>1. DeliveryInv'
    BY RetainKeepsInv, CompleteKeepsInv
  <2>2. QED
    BY <2>1 DEF DeliveryInv, PendingAdmitted
<1>11. QED
  BY <1>7, <1>8, <1>9, <1>10 DEF BoundInv, PendingBounded

\* The bound and the finiteness it rests on hold in every reachable state.
THEOREM BoundInvariant == Spec => []BoundInv
<1>1. Init => BoundInv
  <2> SUFFICES ASSUME Init PROVE BoundInv
    OBVIOUS
  <2>1. PendingIDs = {}
    BY DEF Init, PendingIDs, NoBlock
  <2>2. IsFiniteSet(PendingIDs) /\ Cardinality(PendingIDs) = 0
    BY <2>1, FS_EmptySet
  <2>3. QED
    BY <2>1, <2>2, PendingAssumption DEF BoundInv, PendingBounded
<1>2. TypeOK /\ DeliveryInv /\ BoundInv /\ [Next]_decoderVars => BoundInv'
  <2> SUFFICES ASSUME TypeOK, DeliveryInv, BoundInv, [Next]_decoderVars
               PROVE  BoundInv'
    OBVIOUS
  <2>1. CASE \E s \in Shards : AddVerifiedShard(s)
    <3> PICK s \in Shards : AddVerifiedShard(s)
      BY <2>1
    <3>1. CASE RefuseInvalid(s)
      BY <3>1 DEF RefuseInvalid, decoderVars, BoundInv, PendingBounded, PendingIDs
    <3>2. CASE \/ AnswerTooOld(s) \/ AnswerLate(s) \/ AnswerFull(s)
               \/ AnswerInconsistent(s) \/ AnswerDuplicateOrConflict(s)
      BY <3>2, SweepKeepsBound DEF AnswerTooOld, AnswerLate, AnswerFull,
                        AnswerInconsistent, AnswerDuplicateOrConflict
    <3>3. CASE Retain(s) \/ Complete(s) \/ DecodeFails(s)
      BY <3>3, RetainKeepsBound
    <3>4. QED
      BY <3>1, <3>2, <3>3 DEF AddVerifiedShard
  <2>2. CASE Sweep
    BY <2>2, SweepKeepsBound DEF Sweep
  <2>3. CASE Close
    <3>1. PendingIDs' = {}
      BY <2>3 DEF Close, PendingIDs, NoBlock
    <3>2. IsFiniteSet(PendingIDs') /\ Cardinality(PendingIDs') = 0
      BY <3>1, FS_EmptySet
    <3>3. QED
      BY <3>1, <3>2, PendingAssumption DEF BoundInv, PendingBounded
  <2>4. CASE Tick
    <3>1. PendingIDs' = PendingIDs
      BY <2>4 DEF Tick, PendingIDs
    <3>2. \A id \in PendingIDs' : pending'[id].shards = pending[id].shards
      BY <2>4 DEF Tick, PendingIDs
    <3>3. QED
      BY <2>4, <3>1, <3>2, FewerBlocksKeepBound DEF Tick
  <2>5. CASE UNCHANGED decoderVars
    BY <2>5 DEF decoderVars, BoundInv, PendingBounded, PendingIDs
  <2>6. QED
    BY <2>1, <2>2, <2>3, <2>4, <2>5 DEF Next
<1>3. QED
  BY <1>1, <1>2, TypeCorrect, DeliveryInvariant, PTL DEF Spec

\* At most MaxPendingBlocks blocks are pending, none of them complete.
THEOREM PendingIsBounded == Spec => []PendingBounded
<1>1. BoundInv => PendingBounded
  BY DEF BoundInv
<1>2. QED
  BY <1>1, BoundInvariant, PTL

----------------------------------------------------------------------------
(* The expiry heap mirrors the pending map.                                *)

\* With the heap in step, a sweep takes from it what it takes from the map.
LEMMA SweptHeap ==
    ASSUME TypeOK, HeapMatchesPending
    PROVE  /\ SweptExpiry = {<<id, Swept[id].ttl>> : id \in SweptPending}
           /\ \A id \in SweptPending : Swept[id] = pending[id]
<1>1. Expired = {id \in PendingIDs : pending[id].ttl = 0}
  BY DEF Expired, Due, HeapMatchesPending
<1>2. \A id \in SweptPending : Swept[id] = pending[id]
  BY DEF Swept, SweptPending, PendingIDs
<1>3. SweptPending = {id \in PendingIDs : pending[id].ttl # 0}
  BY <1>1 DEF SweptPending
<1>4. SweptExpiry = {<<id, pending[id].ttl>> : id \in SweptPending}
  <2>1. ASSUME NEW e \in SweptExpiry
        PROVE  e \in {<<id, pending[id].ttl>> : id \in SweptPending}
    <3>1. PICK id \in PendingIDs : e = <<id, pending[id].ttl>>
      BY DEF SweptExpiry, HeapMatchesPending
    <3>2. e[2] # 0
      BY DEF SweptExpiry, Due
    <3>3. id \in SweptPending
      BY <1>3, <3>1, <3>2
    <3>4. QED
      BY <3>1, <3>3
  <2>2. ASSUME NEW id \in SweptPending
        PROVE  <<id, pending[id].ttl>> \in SweptExpiry
    BY <1>3 DEF SweptExpiry, Due, HeapMatchesPending
  <2>3. QED
    BY <2>1, <2>2
<1>5. QED
  BY <1>2, <1>4

\* One heap entry per pending block, its own, in every reachable state.
THEOREM HeapInStep == Spec => []HeapMatchesPending
<1>1. Init => HeapMatchesPending
  BY DEF Init, HeapMatchesPending, PendingIDs, NoBlock
<1>2. TypeOK /\ HeapMatchesPending /\ [Next]_decoderVars => HeapMatchesPending'
  <2> SUFFICES ASSUME TypeOK, HeapMatchesPending, [Next]_decoderVars
               PROVE  HeapMatchesPending'
    OBVIOUS
  <2>1. ASSUME SweepOnly PROVE HeapMatchesPending'
    <3>1. PendingIDs' = SweptPending
      BY <2>1, SweepPending DEF SweepOnly, PendingIDs
    <3>2. QED
      BY <2>1, <3>1, SweptHeap DEF SweepOnly, HeapMatchesPending
  <2>2. CASE \E s \in Shards : AddVerifiedShard(s)
    <3> PICK s \in Shards : AddVerifiedShard(s)
      BY <2>2
    <3>0. s.id \in PacketIDs
      BY ShardsAssumption
    <3>1. CASE RefuseInvalid(s)
      BY <3>1 DEF RefuseInvalid, decoderVars, HeapMatchesPending, PendingIDs
    <3>2. CASE \/ AnswerTooOld(s) \/ AnswerLate(s) \/ AnswerFull(s)
               \/ AnswerInconsistent(s) \/ AnswerDuplicateOrConflict(s)
      BY <3>2, <2>1 DEF AnswerTooOld, AnswerLate, AnswerFull,
                        AnswerInconsistent, AnswerDuplicateOrConflict
    <3>3. CASE Retain(s)
      <4>1. /\ pending' = [Swept EXCEPT ![s.id] = BlockWith(s)]
            /\ pendingExpiry' = SweptExpiry \cup {<<s.id, BlockWith(s).ttl>>}
        BY <3>3 DEF Retain
      <4>2. /\ pending'[s.id] = BlockWith(s)
            /\ \A id \in PacketIDs : id # s.id => pending'[id] = Swept[id]
        BY <3>0, <4>1 DEF Swept
      <4>3. BlockWith(s).shards # {}
        BY DEF BlockWith
      <4>4. PendingIDs' = SweptPending \cup {s.id}
        BY <3>0, <4>2, <4>3, SweepPending DEF PendingIDs
      <4>5. s.id \in SweptPending => BlockWith(s).ttl = Swept[s.id].ttl
        BY SweptHeap DEF BlockWith, NewBlock
      <4>6. \A id \in SweptPending : pending'[id].ttl = Swept[id].ttl
        BY <4>2, <4>5 DEF SweptPending, PendingIDs
      <4>7. QED
        BY <4>1, <4>2, <4>4, <4>6, SweptHeap DEF HeapMatchesPending
    <3>4. CASE Complete(s) \/ DecodeFails(s)
      <4>1. /\ pending' = [Swept EXCEPT ![s.id] = NoBlock]
            /\ pendingExpiry' = {e \in SweptExpiry : e[1] # s.id}
        BY <3>4 DEF Complete, DecodeFails, RemovePending
      <4>2. /\ pending'[s.id].shards = {}
            /\ \A id \in PacketIDs : id # s.id => pending'[id] = Swept[id]
        BY <3>0, <4>1 DEF Swept, NoBlock
      <4>3. PendingIDs' = SweptPending \ {s.id}
        BY <3>0, <4>2, SweepPending DEF PendingIDs
      <4>4. \A id \in PendingIDs' : pending'[id].ttl = Swept[id].ttl
        BY <4>2, <4>3 DEF SweptPending, PendingIDs
      <4>5. QED
        BY <4>1, <4>3, <4>4, SweptHeap DEF HeapMatchesPending
    <3>5. QED
      BY <3>1, <3>2, <3>3, <3>4 DEF AddVerifiedShard
  <2>3. CASE Sweep
    BY <2>3, <2>1 DEF Sweep
  <2>4. CASE Close
    BY <2>4 DEF Close, HeapMatchesPending, PendingIDs, NoBlock
  <2>5. CASE Tick
    <3>1. PendingIDs' = PendingIDs
      BY <2>5 DEF Tick, PendingIDs
    <3>2. \A id \in PendingIDs : pending'[id].ttl = Earlier(pending[id].ttl)
      BY <2>5 DEF Tick, PendingIDs
    <3>3. pendingExpiry' =
              {<<e[1], Earlier(e[2])>> : e \in {<<id, pending[id].ttl>> : id \in PendingIDs}}
      BY <2>5 DEF Tick, HeapMatchesPending
    <3>4. pendingExpiry' = {<<id, Earlier(pending[id].ttl)>> : id \in PendingIDs}
      <4>1. ASSUME NEW e \in {<<id, pending[id].ttl>> : id \in PendingIDs}
            PROVE  <<e[1], Earlier(e[2])>> \in
                      {<<id, Earlier(pending[id].ttl)>> : id \in PendingIDs}
        <5>1. PICK id \in PendingIDs : e = <<id, pending[id].ttl>>
          OBVIOUS
        <5>2. e[1] = id /\ e[2] = pending[id].ttl
          BY <5>1
        <5>3. QED
          BY <5>2
      <4>2. ASSUME NEW id \in PendingIDs
            PROVE  <<id, Earlier(pending[id].ttl)>> \in pendingExpiry'
        <5> DEFINE e == <<id, pending[id].ttl>>
        <5>1. e \in {<<x, pending[x].ttl>> : x \in PendingIDs}
          OBVIOUS
        <5> HIDE DEF e
        <5>2. <<e[1], Earlier(e[2])>> \in pendingExpiry'
          BY <3>3, <5>1
        <5>3. QED
          BY <5>2 DEF e
      <4>3. QED
        BY <3>3, <4>1, <4>2
    <3>5. QED
      BY <3>1, <3>2, <3>4 DEF HeapMatchesPending
  <2>6. CASE UNCHANGED decoderVars
    BY <2>6 DEF decoderVars, HeapMatchesPending, PendingIDs
  <2>7. QED
    BY <2>2, <2>3, <2>4, <2>5, <2>6 DEF Next
<1>3. QED
  BY <1>1, <1>2, TypeCorrect, PTL DEF Spec


----------------------------------------------------------------------------
(* Sums of natural numbers over a finite set                               *)

\* One point for every unit that w gives to an element of S: a sum as the size of a set.
Units(w, S) == UNION {{x} \X (1..w[x]) : x \in S}

LEMMA UnitsOfOne ==
    ASSUME NEW x, NEW n \in Nat
    PROVE  IsFiniteSet({x} \X (1..n)) /\ Cardinality({x} \X (1..n)) = n
<1>1. IsFiniteSet({x}) /\ Cardinality({x}) = 1
  BY FS_Singleton
<1>2. IsFiniteSet(1..n) /\ Cardinality(1..n) = n
  BY FS_Interval
<1>3. IsFiniteSet({x} \X (1..n)) /\ Cardinality({x} \X (1..n)) = Cardinality({x}) * Cardinality(1..n)
  BY <1>1, <1>2, FS_Product
<1>4. QED
  BY <1>1, <1>2, <1>3

LEMMA UnitsFinite ==
    ASSUME NEW w, NEW S, IsFiniteSet(S), \A x \in S : w[x] \in Nat
    PROVE  IsFiniteSet(Units(w, S)) /\ Cardinality(Units(w, S)) \in Nat
<1> DEFINE F == [x \in S |-> {x} \X (1..w[x])]
           C == {F[x] : x \in S}
<1>1. F \in [S -> C] /\ F \in Surjection(S, C)
  BY DEF Surjection
<1>2. IsFiniteSet(C)
  BY <1>1, FS_Surjection
<1>3. ASSUME NEW T \in C PROVE IsFiniteSet(T)
  <2>1. PICK x \in S : T = {x} \X (1..w[x])
    OBVIOUS
  <2>2. QED
    BY <2>1, UnitsOfOne
<1> HIDE DEF C
<1>4. IsFiniteSet(UNION C)
  BY <1>2, <1>3, FS_UNION
<1>5. UNION C = Units(w, S)
  BY DEF C, Units
<1>6. QED
  BY <1>4, <1>5, FS_CardinalityType

LEMMA UnitsAdd ==
    ASSUME NEW w, NEW S, IsFiniteSet(S), NEW x, x \notin S, \A y \in S \cup {x} : w[y] \in Nat
    PROVE  Cardinality(Units(w, S \cup {x})) = Cardinality(Units(w, S)) + w[x]
<1> DEFINE one == {x} \X (1..w[x])
<1>1. IsFiniteSet(one) /\ Cardinality(one) = w[x]
  BY UnitsOfOne
<1>2. IsFiniteSet(Units(w, S)) /\ Cardinality(Units(w, S)) \in Nat
  BY UnitsFinite
<1>3. Units(w, S \cup {x}) = Units(w, S) \cup one
  BY DEF Units
<1>4. Units(w, S) \cap one = {}
  BY DEF Units
<1> HIDE DEF one
<1>5. Cardinality(Units(w, S) \cup one)
        = Cardinality(Units(w, S)) + Cardinality(one) - Cardinality(Units(w, S) \cap one)
  BY <1>1, <1>2, FS_Union
<1>6. Cardinality(Units(w, S) \cap one) = 0
  BY <1>4, FS_EmptySet
<1>7. w[x] \in Nat
  OBVIOUS
<1>8. ASSUME NEW a \in Nat, NEW b \in Nat, NEW c, c = 0 PROVE a + b - c = a + b
  BY <1>8
<1>9. Cardinality(Units(w, S) \cup one) = Cardinality(Units(w, S)) + w[x]
  BY <1>1, <1>2, <1>5, <1>6, <1>7, <1>8
<1>10. QED
  BY <1>3, <1>9, Zenon

LEMMA UnitsSame ==
    ASSUME NEW w, NEW v, NEW S, \A x \in S : v[x] = w[x]
    PROVE  Units(v, S) = Units(w, S)
  BY DEF Units

LEMMA UnitsNone ==
    ASSUME NEW w
    PROVE  Cardinality(Units(w, {})) = 0
<1>1. Units(w, {}) = {}
  BY DEF Units
<1>2. QED
  BY <1>1, FS_EmptySet

\* What MapThenSumSet folds: one element after the other.
Adds(f, w, S) ==
    f = [s \in SUBSET S |-> IF s = {} THEN 0 ELSE
            w[CHOOSE x \in s : TRUE] + f[s \ {CHOOSE x \in s : TRUE}]]

\* By a smallest set for which the fold computes something else.
LEMMA AddsUnits ==
    ASSUME NEW w, NEW S, IsFiniteSet(S), \A x \in S : w[x] \in Nat, NEW f, Adds(f, w, S)
    PROVE  f[S] = Cardinality(Units(w, S))
<1> DEFINE wrong == {s \in SUBSET S : f[s] # Cardinality(Units(w, s))}
           R == StrictSubsetOrdering(S)
<1>0. \A s \in SUBSET S :
        f[s] = IF s = {} THEN 0 ELSE w[CHOOSE x \in s : TRUE] + f[s \ {CHOOSE x \in s : TRUE}]
  BY DEF Adds
<1>1. SUFFICES ASSUME wrong # {} PROVE FALSE
  OBVIOUS
<1>2. PICK s \in wrong : \A t \in wrong : ~(<<t, s>> \in R)
  <2>1. IsWellFoundedOn(R, SUBSET S)
    BY FS_StrictSubsetOrderingWellFounded, FS_FiniteSubsetsOfFinite
  <2>2. wrong \subseteq SUBSET S
    OBVIOUS
  <2> HIDE DEF wrong, R
  <2>3. QED
    BY <1>1, <2>1, <2>2, WFMin
<1>3. s # {}
  <2>1. SUFFICES ASSUME s = {} PROVE FALSE
    OBVIOUS
  <2>2. f[{}] = 0
    BY <1>0
  <2>3. QED
    BY <1>2, <2>1, <2>2, UnitsNone
<1> DEFINE x == CHOOSE y \in s : TRUE
           t == s \ {x}
<1>4. x \in s
  BY <1>3
<1>5. f[s] = w[x] + f[t]
  BY <1>0, <1>2, <1>3
<1> HIDE DEF x
<1>6. t \in SUBSET S /\ <<t, s>> \in R
  BY <1>2, <1>4 DEF StrictSubsetOrdering
<1>7. f[t] = Cardinality(Units(w, t))
  BY <1>2, <1>6
<1>8. IsFiniteSet(t) /\ x \notin t /\ t \cup {x} = s /\ \A y \in t \cup {x} : w[y] \in Nat
  BY <1>4, <1>6, FS_Subset
<1> HIDE DEF t
<1>9. Cardinality(Units(w, s)) = Cardinality(Units(w, t)) + w[x] /\ w[x] \in Nat
      /\ Cardinality(Units(w, t)) \in Nat
  BY <1>8, UnitsAdd, UnitsFinite
<1>10. f[s] = Cardinality(Units(w, s))
  BY <1>5, <1>7, <1>9
<1>11. QED
  BY <1>2, <1>10

LEMMA AddsExists ==
    ASSUME NEW w, NEW S, IsFiniteSet(S), \A x \in S : w[x] \in Nat
    PROVE  \E f : Adds(f, w, S)
<1> DEFINE g == [s \in SUBSET S |-> Cardinality(Units(w, s))]
<1>1. ASSUME NEW s \in SUBSET S
      PROVE  g[s] = IF s = {} THEN 0
                    ELSE w[CHOOSE x \in s : TRUE] + g[s \ {CHOOSE x \in s : TRUE}]
  <2>1. CASE s = {}
    BY <2>1, UnitsNone
  <2>2. CASE s # {}
    <3> DEFINE x == CHOOSE y \in s : TRUE
               t == s \ {x}
    <3>1. x \in s
      BY <2>2
    <3> HIDE DEF x
    <3>2. t \in SUBSET S /\ IsFiniteSet(t) /\ x \notin t /\ t \cup {x} = s
          /\ \A y \in t \cup {x} : w[y] \in Nat
      BY <3>1, FS_Subset
    <3> HIDE DEF t
    <3>3. Cardinality(Units(w, s)) = Cardinality(Units(w, t)) + w[x] /\ w[x] \in Nat
          /\ Cardinality(Units(w, t)) \in Nat
      BY <3>2, UnitsAdd, UnitsFinite
    <3>4. g[s] = w[x] + g[t]
      BY <3>2, <3>3
    <3> HIDE DEF g
    <3>5. QED
      BY <2>2, <3>4 DEF t, x
  <2>3. QED
    BY <2>1, <2>2
<1>2. g = [s \in SUBSET S |->
                   IF s = {} THEN 0
                   ELSE w[CHOOSE x \in s : TRUE] + g[s \ {CHOOSE x \in s : TRUE}]]
  <2>1. g = [s \in SUBSET S |-> g[s]]
    OBVIOUS
  <2> HIDE DEF g
  <2>2. QED
    BY <1>1, <2>1
<1> HIDE DEF g
<1>3. QED
  BY <1>2 DEF Adds

\* A part of the set has a part of the sum.
LEMMA UnitsSplit ==
    ASSUME NEW w, NEW S, IsFiniteSet(S), NEW T \in SUBSET S, \A x \in S : w[x] \in Nat
    PROVE  /\ Cardinality(Units(w, S)) = Cardinality(Units(w, T)) + Cardinality(Units(w, S \ T))
           /\ Cardinality(Units(w, T)) \in Nat /\ Cardinality(Units(w, S \ T)) \in Nat
<1> DEFINE rest == S \ T
<1>1. IsFiniteSet(T) /\ IsFiniteSet(rest)
  BY FS_Subset
<1>2. Units(w, S) = Units(w, T) \cup Units(w, rest)
  BY DEF Units
<1>3. Units(w, T) \cap Units(w, rest) = {}
  BY DEF Units
<1>4. (\A x \in T : w[x] \in Nat) /\ (\A x \in rest : w[x] \in Nat)
  OBVIOUS
<1> HIDE DEF rest
<1>5. /\ IsFiniteSet(Units(w, T)) /\ Cardinality(Units(w, T)) \in Nat
      /\ IsFiniteSet(Units(w, rest)) /\ Cardinality(Units(w, rest)) \in Nat
  BY <1>1, <1>4, UnitsFinite
<1>6. Cardinality(Units(w, T) \cup Units(w, rest))
        = Cardinality(Units(w, T)) + Cardinality(Units(w, rest))
            - Cardinality(Units(w, T) \cap Units(w, rest))
  BY <1>5, FS_Union
<1>7. Cardinality(Units(w, T) \cap Units(w, rest)) = 0
  BY <1>3, FS_EmptySet
<1>8. ASSUME NEW a \in Nat, NEW b \in Nat, NEW c, c = 0 PROVE a + b - c = a + b
  BY <1>8
<1>9. Cardinality(Units(w, T) \cup Units(w, rest))
        = Cardinality(Units(w, T)) + Cardinality(Units(w, rest))
  BY <1>5, <1>6, <1>7, <1>8
<1>10. Cardinality(Units(w, S)) = Cardinality(Units(w, T)) + Cardinality(Units(w, rest))
  BY <1>2, <1>9, Zenon
<1>11. QED
  BY <1>5, <1>10 DEF rest

----------------------------------------------------------------------------
(* The totals of the retained shards and bytes                             *)

ShardWeights(p) == [id \in PacketIDs |-> Present(p[id])]
ByteWeights(p) == [id \in PacketIDs |-> Bytes(p[id])]

LEMMA ShardUnits ==
    ASSUME NEW p, NEW X \in SUBSET PacketIDs, IsFiniteSet(X), \A id \in X : Present(p[id]) \in Nat
    PROVE  MapThenSumSet(LAMBDA id : Present(p[id]), X) = Cardinality(Units(ShardWeights(p), X))
<1> DEFINE w == ShardWeights(p)
           P(g) == g = [s \in SUBSET X |-> IF s = {} THEN 0 ELSE
                       Present(p[CHOOSE x \in s : TRUE]) + g[s \ {CHOOSE x \in s : TRUE}]]
           f == CHOOSE g : P(g)
<1>1. MapThenSumSet(LAMBDA id : Present(p[id]), X) = f[X]
  BY DEF MapThenSumSet, MapThenFoldSet
<1>2. \A id \in X : w[id] = Present(p[id]) /\ w[id] \in Nat
  BY DEF ShardWeights
<1>3. ASSUME NEW s \in SUBSET X, s # {}
      PROVE  w[CHOOSE x \in s : TRUE] = Present(p[CHOOSE x \in s : TRUE])
  BY <1>2, <1>3
<1> HIDE DEF w
<1>4. \A g : P(g) <=> Adds(g, w, X)
  BY <1>3 DEF Adds
<1>5. \E g : Adds(g, w, X)
  BY <1>2, AddsExists
<1> HIDE DEF P
<1>6. Adds(f, w, X)
  BY <1>4, <1>5
<1> HIDE DEF f
<1>7. f[X] = Cardinality(Units(w, X))
  BY <1>2, <1>6, AddsUnits
<1>8. QED
  BY <1>1, <1>7 DEF w

LEMMA ByteUnits ==
    ASSUME NEW p, NEW X \in SUBSET PacketIDs, IsFiniteSet(X), \A id \in X : Bytes(p[id]) \in Nat
    PROVE  MapThenSumSet(LAMBDA id : Bytes(p[id]), X) = Cardinality(Units(ByteWeights(p), X))
<1> DEFINE w == ByteWeights(p)
           P(g) == g = [s \in SUBSET X |-> IF s = {} THEN 0 ELSE
                       Bytes(p[CHOOSE x \in s : TRUE]) + g[s \ {CHOOSE x \in s : TRUE}]]
           f == CHOOSE g : P(g)
<1>1. MapThenSumSet(LAMBDA id : Bytes(p[id]), X) = f[X]
  BY DEF MapThenSumSet, MapThenFoldSet
<1>2. \A id \in X : w[id] = Bytes(p[id]) /\ w[id] \in Nat
  BY DEF ByteWeights
<1>3. ASSUME NEW s \in SUBSET X, s # {}
      PROVE  w[CHOOSE x \in s : TRUE] = Bytes(p[CHOOSE x \in s : TRUE])
  BY <1>2, <1>3
<1> HIDE DEF w
<1>4. \A g : P(g) <=> Adds(g, w, X)
  BY <1>3 DEF Adds
<1>5. \E g : Adds(g, w, X)
  BY <1>2, AddsExists
<1> HIDE DEF P
<1>6. Adds(f, w, X)
  BY <1>4, <1>5
<1> HIDE DEF f
<1>7. f[X] = Cardinality(Units(w, X))
  BY <1>2, <1>6, AddsUnits
<1>8. QED
  BY <1>1, <1>7 DEF w

\* Every block has finitely many shards, and the totals are the sums over the
\* pending ones.
Counted ==
    /\ \A id \in PacketIDs : IsFiniteSet(pending[id].shards)
    /\ pendingShards = Cardinality(Units(ShardWeights(pending), PendingIDs))
    /\ pendingBytes = Cardinality(Units(ByteWeights(pending), PendingIDs))

LEMMA CountedPrimed ==
    Counted' <=>
        /\ \A id \in PacketIDs : IsFiniteSet(pending'[id].shards)
        /\ pendingShards' = Cardinality(Units(ShardWeights(pending'), PendingIDs'))
        /\ pendingBytes' = Cardinality(Units(ByteWeights(pending'), PendingIDs'))
BY DEF Counted, Units, ShardWeights, ByteWeights, Present, Bytes

LEMMA ShardSizeType ==
    ASSUME NEW n \in Nat
    PROVE  ShardSizeForDatagram(n) \in Nat
<1>1. DataShards \in Nat /\ DataShards > 0
  BY ParamsAssumption
<1>2. n \div DataShards \in Nat
  BY <1>1
<1>3. QED
  BY <1>2 DEF ShardSizeForDatagram

LEMMA BlockWeights ==
    ASSUME NEW b \in Blocks, IsFiniteSet(b.shards)
    PROVE  Present(b) \in Nat /\ Bytes(b) \in Nat
<1>1. Present(b) \in Nat
  BY FS_CardinalityType DEF Present
<1>2. ShardSizeForDatagram(b.length) \in Nat
  BY ShardSizeType DEF Blocks
<1>3. ASSUME NEW m \in Nat, NEW n \in Nat PROVE m * n \in Nat
  OBVIOUS
<1>4. QED
  BY <1>1, <1>2, <1>3 DEF Bytes

LEMMA WeightTypes ==
    ASSUME TypeOK, Counted
    PROVE  \A id \in PacketIDs :
               /\ Present(pending[id]) \in Nat /\ Bytes(pending[id]) \in Nat
               /\ ShardWeights(pending)[id] = Present(pending[id])
               /\ ByteWeights(pending)[id] = Bytes(pending[id])
<1> SUFFICES ASSUME NEW id \in PacketIDs
             PROVE  /\ Present(pending[id]) \in Nat /\ Bytes(pending[id]) \in Nat
                    /\ ShardWeights(pending)[id] = Present(pending[id])
                    /\ ByteWeights(pending)[id] = Bytes(pending[id])
  OBVIOUS
<1>1. pending[id] \in Blocks /\ IsFiniteSet(pending[id].shards)
  BY DEF TypeOK, Counted
<1>2. QED
  BY <1>1, BlockWeights DEF ShardWeights, ByteWeights

\* After the sweep the totals are those of the blocks it leaves.
LEMMA SweptTotals ==
    ASSUME TypeOK, Counted, IsFiniteSet(PendingIDs)
    PROVE  /\ SweptShards = Cardinality(Units(ShardWeights(pending), SweptPending))
           /\ SweptBytes = Cardinality(Units(ByteWeights(pending), SweptPending))
           /\ IsFiniteSet(SweptPending) /\ SweptPending \subseteq PacketIDs
<1>1. PendingIDs \subseteq PacketIDs /\ Expired \in SUBSET PendingIDs /\ Expired \in SUBSET PacketIDs
  BY DEF PendingIDs, Expired
<1>2. IsFiniteSet(Expired) /\ IsFiniteSet(SweptPending)
  BY <1>1, FS_Subset DEF SweptPending
<1>3. /\ SweptShards = pendingShards - Cardinality(Units(ShardWeights(pending), Expired))
      /\ SweptBytes = pendingBytes - Cardinality(Units(ByteWeights(pending), Expired))
  <2>1. (\A id \in Expired : Present(pending[id]) \in Nat) /\ (\A id \in Expired : Bytes(pending[id]) \in Nat)
    BY <1>1, WeightTypes
  <2>2. MapThenSumSet(LAMBDA id : Present(pending[id]), Expired)
          = Cardinality(Units(ShardWeights(pending), Expired))
    BY <1>1, <1>2, <2>1, ShardUnits
  <2>3. MapThenSumSet(LAMBDA id : Bytes(pending[id]), Expired)
          = Cardinality(Units(ByteWeights(pending), Expired))
    BY <1>1, <1>2, <2>1, ByteUnits
  <2>4. QED
    BY <2>2, <2>3 DEF SweptShards, SweptBytes
<1>4. /\ \A id \in PendingIDs : ShardWeights(pending)[id] \in Nat
      /\ \A id \in PendingIDs : ByteWeights(pending)[id] \in Nat
  BY <1>1, WeightTypes
<1>5. /\ Cardinality(Units(ShardWeights(pending), PendingIDs))
           = Cardinality(Units(ShardWeights(pending), Expired))
               + Cardinality(Units(ShardWeights(pending), SweptPending))
      /\ Cardinality(Units(ShardWeights(pending), Expired)) \in Nat
      /\ Cardinality(Units(ShardWeights(pending), SweptPending)) \in Nat
  BY <1>1, <1>4, UnitsSplit DEF SweptPending
<1>6. /\ Cardinality(Units(ByteWeights(pending), PendingIDs))
           = Cardinality(Units(ByteWeights(pending), Expired))
               + Cardinality(Units(ByteWeights(pending), SweptPending))
      /\ Cardinality(Units(ByteWeights(pending), Expired)) \in Nat
      /\ Cardinality(Units(ByteWeights(pending), SweptPending)) \in Nat
  BY <1>1, <1>4, UnitsSplit DEF SweptPending
<1>7. /\ pendingShards = Cardinality(Units(ShardWeights(pending), PendingIDs))
      /\ pendingBytes = Cardinality(Units(ByteWeights(pending), PendingIDs))
  BY DEF Counted
<1>8. SweptPending \subseteq PacketIDs
  BY <1>1 DEF SweptPending
<1>9. QED
  BY <1>2, <1>3, <1>5, <1>6, <1>7, <1>8

\* A step after which every pending block has the shards it had before.
LEMMA SameBlocksCounted ==
    ASSUME TypeOK, Counted, NEW S \in SUBSET PacketIDs, PendingIDs' = S,
           \A id \in PacketIDs : IsFiniteSet(pending'[id].shards),
           \A id \in S : pending'[id].shards = pending[id].shards
                         /\ pending'[id].length = pending[id].length,
           pendingShards' = Cardinality(Units(ShardWeights(pending), S)),
           pendingBytes' = Cardinality(Units(ByteWeights(pending), S))
    PROVE  Counted'
<1>1. \A id \in S : /\ ShardWeights(pending')[id] = ShardWeights(pending)[id]
                    /\ ByteWeights(pending')[id] = ByteWeights(pending)[id]
  BY DEF ShardWeights, ByteWeights, Present, Bytes
<1>2. /\ Units(ShardWeights(pending'), S) = Units(ShardWeights(pending), S)
      /\ Units(ByteWeights(pending'), S) = Units(ByteWeights(pending), S)
  BY <1>1, UnitsSame
<1>3. QED
  BY <1>2, CountedPrimed

LEMMA SweepCounted ==
    ASSUME TypeOK, Counted, IsFiniteSet(PendingIDs), SweepOnly
    PROVE  Counted'
<1>1. PendingIDs' = SweptPending
  BY SweepPending DEF SweepOnly, PendingIDs
<1>2. \A id \in SweptPending : pending'[id] = pending[id]
  BY DEF SweepOnly, Swept, SweptPending, PendingIDs
<1>3. \A id \in PacketIDs : IsFiniteSet(pending'[id].shards)
  BY FS_EmptySet DEF SweepOnly, Swept, NoBlock, Counted
<1>4. /\ pendingShards' = Cardinality(Units(ShardWeights(pending), SweptPending))
      /\ pendingBytes' = Cardinality(Units(ByteWeights(pending), SweptPending))
      /\ SweptPending \in SUBSET PacketIDs
  BY SweptTotals DEF SweepOnly
<1>5. QED
  BY <1>1, <1>2, <1>3, <1>4, SameBlocksCounted

\* The shard a call retains is one more in its block, with as many bytes as the
\* block's other shards.
LEMMA BlockWithCounts ==
    ASSUME TypeOK, Counted, NEW s \in Shards, ValidShard(s), Retainable(s)
    PROVE  /\ IsFiniteSet(BlockWith(s).shards)
           /\ NewBlock(s) => Present(BlockWith(s)) = 1 /\ Bytes(BlockWith(s)) = s.size
           /\ ~NewBlock(s) => /\ Present(BlockWith(s)) = Present(pending[s.id]) + 1
                              /\ Bytes(BlockWith(s)) = Bytes(pending[s.id]) + s.size
<1>1. s.size = ShardSizeForDatagram(s.length) /\ s.size \in Nat /\ s.id \in PacketIDs
  BY ShardsAssumption DEF ValidShard
<1>2. CASE NewBlock(s)
  <2>1. BlockWith(s).shards = {<<s.index, s.payload>>} /\ BlockWith(s).length = s.length
    BY <1>2 DEF BlockWith
  <2>2. IsFiniteSet(BlockWith(s).shards) /\ Cardinality(BlockWith(s).shards) = 1
    BY <2>1, FS_Singleton
  <2>3. QED
    BY <1>1, <1>2, <2>1, <2>2 DEF Present, Bytes
<1>3. CASE ~NewBlock(s)
  <2>1. /\ pending[s.id].length = s.length /\ \A old \in pending[s.id].shards : old[1] # s.index
    BY <1>3 DEF Retainable, AdmissibleID, SameBlock
  <2>2. /\ BlockWith(s).shards = pending[s.id].shards \cup {<<s.index, s.payload>>}
        /\ BlockWith(s).length = s.length
    BY <1>3, <2>1 DEF BlockWith
  <2>3. <<s.index, s.payload>> \notin pending[s.id].shards
    BY <2>1
  <2>4. IsFiniteSet(pending[s.id].shards) /\ Present(pending[s.id]) \in Nat
    BY <1>1, WeightTypes DEF Counted
  <2>5. /\ IsFiniteSet(BlockWith(s).shards)
        /\ Cardinality(BlockWith(s).shards) = Cardinality(pending[s.id].shards) + 1
    <3> DEFINE old == pending[s.id].shards
               x == <<s.index, s.payload>>
    <3>1. IsFiniteSet(old) /\ x \notin old
      BY <2>3, <2>4
    <3> HIDE DEF old, x
    <3>2. IsFiniteSet(old \cup {x}) /\ Cardinality(old \cup {x}) = Cardinality(old) + 1
      BY <3>1, FS_AddElement
    <3>3. QED
      BY <2>2, <3>2 DEF old, x
  <2>6. ASSUME NEW m \in Nat, NEW n \in Nat PROVE (m + 1) * n = m * n + n
    OBVIOUS
  <2>7. Bytes(BlockWith(s)) = (Present(pending[s.id]) + 1) * s.size
        /\ Bytes(pending[s.id]) = Present(pending[s.id]) * s.size
    BY <1>1, <2>1, <2>2, <2>5 DEF Bytes, Present
  <2>8. Bytes(BlockWith(s)) = Bytes(pending[s.id]) + s.size
    BY <1>1, <2>4, <2>6, <2>7
  <2>9. QED
    BY <1>3, <2>5, <2>8 DEF Present
<1>4. QED
  BY <1>2, <1>3

\* With the retained shard the totals are those of its block and of the others.
LEMMA RetainTotals ==
    ASSUME TypeOK, Counted, IsFiniteSet(PendingIDs), NEW s \in Shards, ValidShard(s), Retainable(s)
    PROVE  /\ SweptShards + 1 = Cardinality(Units(ShardWeights(pending), SweptPending \ {s.id}))
                                  + Present(BlockWith(s))
           /\ SweptBytes + s.size = Cardinality(Units(ByteWeights(pending), SweptPending \ {s.id}))
                                      + Bytes(BlockWith(s))
           /\ Cardinality(Units(ShardWeights(pending), SweptPending \ {s.id})) \in Nat
           /\ Cardinality(Units(ByteWeights(pending), SweptPending \ {s.id})) \in Nat
           /\ Present(BlockWith(s)) \in Nat /\ Bytes(BlockWith(s)) \in Nat
<1> DEFINE rest == SweptPending \ {s.id}
           u == ShardWeights(pending)
           v == ByteWeights(pending)
<1>1. /\ SweptShards = Cardinality(Units(u, SweptPending))
      /\ SweptBytes = Cardinality(Units(v, SweptPending))
      /\ IsFiniteSet(SweptPending) /\ SweptPending \subseteq PacketIDs
  BY SweptTotals
<1>2. /\ \A id \in SweptPending : u[id] \in Nat /\ u[id] = Present(pending[id])
      /\ \A id \in SweptPending : v[id] \in Nat /\ v[id] = Bytes(pending[id])
  BY <1>1, WeightTypes
<1>3. IsFiniteSet(rest) /\ rest \subseteq SweptPending /\ s.id \notin rest
  BY <1>1, FS_Subset
<1>4. Present(BlockWith(s)) \in Nat /\ Bytes(BlockWith(s)) \in Nat /\ s.size \in Nat
  BY BlockWithType, BlockWithCounts, BlockWeights, ShardsAssumption
<1>5. NewBlock(s) => rest = SweptPending
  BY DEF NewBlock
<1>6. ~NewBlock(s) => s.id \in SweptPending /\ SweptPending = rest \cup {s.id}
  BY DEF NewBlock
<1> HIDE DEF rest, u, v
<1>7. Cardinality(Units(u, rest)) \in Nat /\ Cardinality(Units(v, rest)) \in Nat
  BY <1>2, <1>3, UnitsFinite
<1>8. /\ SweptShards + 1 = Cardinality(Units(u, rest)) + Present(BlockWith(s))
      /\ SweptBytes + s.size = Cardinality(Units(v, rest)) + Bytes(BlockWith(s))
  <2>1. CASE NewBlock(s)
    <3>1. Present(BlockWith(s)) = 1 /\ Bytes(BlockWith(s)) = s.size
      BY <2>1, BlockWithCounts
    <3>2. QED
      BY <1>1, <1>4, <1>5, <1>7, <2>1, <3>1
  <2>2. CASE ~NewBlock(s)
    <3>1. /\ Present(BlockWith(s)) = Present(pending[s.id]) + 1
          /\ Bytes(BlockWith(s)) = Bytes(pending[s.id]) + s.size
      BY <2>2, BlockWithCounts
    <3>2. /\ u[s.id] \in Nat /\ u[s.id] = Present(pending[s.id])
          /\ v[s.id] \in Nat /\ v[s.id] = Bytes(pending[s.id])
      BY <1>2, <1>6, <2>2
    <3>3. \A y \in rest \cup {s.id} : u[y] \in Nat /\ v[y] \in Nat
      BY <1>2, <1>3, <3>2
    <3>4. /\ Cardinality(Units(u, rest \cup {s.id})) = Cardinality(Units(u, rest)) + u[s.id]
          /\ Cardinality(Units(v, rest \cup {s.id})) = Cardinality(Units(v, rest)) + v[s.id]
      BY <1>3, <3>3, UnitsAdd
    <3>5. /\ SweptShards = Cardinality(Units(u, rest)) + u[s.id]
          /\ SweptBytes = Cardinality(Units(v, rest)) + v[s.id]
      BY <1>1, <1>6, <2>2, <3>4, Zenon
    <3>6. QED
      BY <1>4, <1>7, <3>1, <3>2, <3>5
  <2>3. QED
    BY <2>1, <2>2
<1>9. QED
  BY <1>4, <1>7, <1>8 DEF rest, u, v

\* The blocks other than the shard's, after a call that retains it.
LEMMA OtherBlocks ==
    ASSUME TypeOK, Counted, NEW s \in Shards, ValidShard(s), Retainable(s),
           NEW b, pending' = [Swept EXCEPT ![s.id] = b], IsFiniteSet(b.shards)
    PROVE  /\ pending'[s.id] = b /\ s.id \in PacketIDs
           /\ \A id \in SweptPending \ {s.id} : pending'[id] = pending[id]
           /\ \A id \in PacketIDs : IsFiniteSet(pending'[id].shards)
           /\ PendingIDs' = IF b.shards = {} THEN SweptPending \ {s.id}
                            ELSE (SweptPending \ {s.id}) \cup {s.id}
<1>1. s.id \in PacketIDs
  BY ShardsAssumption
<1>2. pending'[s.id] = b /\ \A id \in PacketIDs : id # s.id => pending'[id] = Swept[id]
  BY <1>1 DEF Swept
<1>3. \A id \in PacketIDs : IsFiniteSet(Swept[id].shards)
  BY FS_EmptySet DEF Swept, NoBlock, Counted
<1>4. \A id \in SweptPending : Swept[id] = pending[id] /\ id \in PacketIDs
  BY DEF Swept, SweptPending, PendingIDs
<1>5. PendingIDs' = IF b.shards = {} THEN SweptPending \ {s.id}
                    ELSE (SweptPending \ {s.id}) \cup {s.id}
  BY <1>1, <1>2, SweepPending DEF PendingIDs
<1>6. QED
  BY <1>1, <1>2, <1>3, <1>4, <1>5

LEMMA RetainCounted ==
    ASSUME TypeOK, Counted, IsFiniteSet(PendingIDs), NEW s \in Shards, Retain(s)
    PROVE  Counted'
<1> DEFINE rest == SweptPending \ {s.id}
<1>1. /\ ValidShard(s) /\ Retainable(s) /\ pending' = [Swept EXCEPT ![s.id] = BlockWith(s)]
      /\ pendingShards' = SweptShards + 1 /\ pendingBytes' = SweptBytes + s.size
  BY DEF Retain
<1>2. IsFiniteSet(BlockWith(s).shards) /\ BlockWith(s).shards # {}
  BY <1>1, BlockWithCounts DEF BlockWith
<1>3. /\ pending'[s.id] = BlockWith(s) /\ s.id \in PacketIDs
      /\ \A id \in rest : pending'[id] = pending[id]
      /\ \A id \in PacketIDs : IsFiniteSet(pending'[id].shards)
      /\ PendingIDs' = rest \cup {s.id}
  BY <1>1, <1>2, OtherBlocks
<1>4. /\ SweptShards + 1 = Cardinality(Units(ShardWeights(pending), rest)) + Present(BlockWith(s))
      /\ SweptBytes + s.size = Cardinality(Units(ByteWeights(pending), rest)) + Bytes(BlockWith(s))
      /\ Present(BlockWith(s)) \in Nat /\ Bytes(BlockWith(s)) \in Nat
  BY <1>1, RetainTotals
<1>5. IsFiniteSet(rest) /\ s.id \notin rest /\ rest \subseteq PacketIDs
  BY SweptTotals, FS_Subset
<1>6. /\ \A id \in rest : ShardWeights(pending)[id] \in Nat
      /\ \A id \in rest : ByteWeights(pending)[id] \in Nat
  BY <1>5, WeightTypes
<1> DEFINE u == ShardWeights(pending')
           v == ByteWeights(pending')
<1>7. /\ \A id \in rest : u[id] = ShardWeights(pending)[id]
      /\ \A id \in rest : v[id] = ByteWeights(pending)[id]
  BY <1>3, <1>5 DEF ShardWeights, ByteWeights
<1>8. u[s.id] = Present(BlockWith(s)) /\ v[s.id] = Bytes(BlockWith(s))
  BY <1>3 DEF ShardWeights, ByteWeights
<1> HIDE DEF rest, u, v
<1>9. Units(u, rest) = Units(ShardWeights(pending), rest) /\ Units(v, rest) = Units(ByteWeights(pending), rest)
  BY <1>7, UnitsSame
<1>10. \A y \in rest \cup {s.id} : u[y] \in Nat /\ v[y] \in Nat
  BY <1>4, <1>6, <1>7, <1>8
<1>11. /\ Cardinality(Units(u, rest \cup {s.id})) = Cardinality(Units(u, rest)) + u[s.id]
       /\ Cardinality(Units(v, rest \cup {s.id})) = Cardinality(Units(v, rest)) + v[s.id]
  BY <1>5, <1>10, UnitsAdd
<1>12. pendingShards' = Cardinality(Units(u, PendingIDs')) /\ pendingBytes' = Cardinality(Units(v, PendingIDs'))
  BY <1>1, <1>3, <1>4, <1>8, <1>9, <1>11, Zenon
<1>13. QED
  BY <1>3, <1>12, CountedPrimed DEF u, v

LEMMA RemoveCounted ==
    ASSUME TypeOK, Counted, IsFiniteSet(PendingIDs), NEW s \in Shards, ValidShard(s), Retainable(s),
           RemovePending(s)
    PROVE  Counted'
<1> DEFINE rest == SweptPending \ {s.id}
<1>1. /\ pending' = [Swept EXCEPT ![s.id] = NoBlock]
      /\ pendingShards' = SweptShards + 1 - Present(BlockWith(s))
      /\ pendingBytes' = SweptBytes + s.size - Bytes(BlockWith(s))
  BY DEF RemovePending
<1>2. IsFiniteSet(NoBlock.shards) /\ NoBlock.shards = {}
  BY FS_EmptySet DEF NoBlock
<1>3. /\ \A id \in rest : pending'[id] = pending[id]
      /\ \A id \in PacketIDs : IsFiniteSet(pending'[id].shards)
      /\ PendingIDs' = rest
  BY <1>1, <1>2, OtherBlocks
<1>4. /\ SweptShards + 1 = Cardinality(Units(ShardWeights(pending), rest)) + Present(BlockWith(s))
      /\ SweptBytes + s.size = Cardinality(Units(ByteWeights(pending), rest)) + Bytes(BlockWith(s))
      /\ Cardinality(Units(ShardWeights(pending), rest)) \in Nat
      /\ Cardinality(Units(ByteWeights(pending), rest)) \in Nat
      /\ Present(BlockWith(s)) \in Nat /\ Bytes(BlockWith(s)) \in Nat
  BY RetainTotals
<1>5. rest \in SUBSET PacketIDs
  BY SweptTotals
<1> HIDE DEF rest
<1>6. /\ pendingShards' = Cardinality(Units(ShardWeights(pending), rest))
      /\ pendingBytes' = Cardinality(Units(ByteWeights(pending), rest))
  <2>1. SweptShards \in Nat /\ SweptBytes \in Nat /\ s.size \in Nat
    <3>1. \A id \in SweptPending : ShardWeights(pending)[id] \in Nat
      BY SweptTotals, WeightTypes
    <3>2. \A id \in SweptPending : ByteWeights(pending)[id] \in Nat
      BY SweptTotals, WeightTypes
    <3>3. SweptShards \in Nat
      BY <3>1, SweptTotals, UnitsFinite
    <3>4. SweptBytes \in Nat
      BY <3>2, SweptTotals, UnitsFinite
    <3>5. QED
      BY <3>3, <3>4, ShardsAssumption
  <2>2. ASSUME NEW a \in Nat, NEW b \in Nat, NEW c \in Nat, NEW d \in Nat, c + d = a + b
        PROVE  c + d - b = a
    BY <2>2
  <2>3. pendingShards' = Cardinality(Units(ShardWeights(pending), rest))
    BY <1>1, <1>4, <2>1, <2>2
  <2>4. pendingBytes' = Cardinality(Units(ByteWeights(pending), rest))
    BY <1>1, <1>4, <2>1, <2>2
  <2>5. QED
    BY <2>3, <2>4
<1>7. QED
  BY <1>3, <1>5, <1>6, SameBlocksCounted

LEMMA StepKeepsCounted ==
    ASSUME TypeOK, Counted, IsFiniteSet(PendingIDs), [Next]_decoderVars
    PROVE  Counted'
<1>1. PendingIDs \in SUBSET PacketIDs
  BY DEF PendingIDs
<1>2. /\ \A id \in PacketIDs : IsFiniteSet(pending[id].shards)
      /\ pendingShards = Cardinality(Units(ShardWeights(pending), PendingIDs))
      /\ pendingBytes = Cardinality(Units(ByteWeights(pending), PendingIDs))
  BY DEF Counted
<1>3. ASSUME UNCHANGED decoderVars PROVE Counted'
  <2>1. UNCHANGED <<pending, pendingShards, pendingBytes>> /\ PendingIDs' = PendingIDs
    BY <1>3 DEF decoderVars, PendingIDs
  <2>2. QED
    BY <1>1, <1>2, <2>1, SameBlocksCounted
<1>4. CASE \E s \in Shards : AddVerifiedShard(s)
  <2> PICK s \in Shards : AddVerifiedShard(s)
    BY <1>4
  <2>1. CASE RefuseInvalid(s)
    BY <1>3, <2>1 DEF RefuseInvalid
  <2>2. CASE \/ AnswerTooOld(s) \/ AnswerLate(s) \/ AnswerFull(s)
             \/ AnswerInconsistent(s) \/ AnswerDuplicateOrConflict(s)
    BY <2>2, SweepCounted DEF AnswerTooOld, AnswerLate, AnswerFull,
                      AnswerInconsistent, AnswerDuplicateOrConflict
  <2>3. CASE Retain(s)
    BY <2>3, RetainCounted
  <2>4. CASE Complete(s) \/ DecodeFails(s)
    BY <2>4, RemoveCounted DEF Complete, DecodeFails
  <2>5. QED
    BY <2>1, <2>2, <2>3, <2>4 DEF AddVerifiedShard
<1>5. CASE Sweep
  BY <1>5, SweepCounted DEF Sweep
<1>6. CASE Close
  <2>1. PendingIDs' = {} /\ pendingShards' = 0 /\ pendingBytes' = 0
    BY <1>6 DEF Close, PendingIDs, NoBlock
  <2>2. \A id \in PacketIDs : IsFiniteSet(pending'[id].shards)
    BY <1>6, FS_EmptySet DEF Close, NoBlock
  <2>3. QED
    BY <2>1, <2>2, CountedPrimed, UnitsNone
<1>7. CASE Tick
  <2>1. /\ UNCHANGED <<pendingShards, pendingBytes>>
        /\ \A id \in PacketIDs : /\ pending'[id].shards = pending[id].shards
                                 /\ pending'[id].length = pending[id].length
    BY <1>7 DEF Tick
  <2>2. PendingIDs' = PendingIDs
    BY <2>1 DEF PendingIDs
  <2>3. QED
    BY <1>1, <1>2, <2>1, <2>2, SameBlocksCounted
<1>8. QED
  BY <1>3, <1>4, <1>5, <1>6, <1>7 DEF Next

\* The decoder's totals are the sums over its pending blocks in every reachable
\* state, with the bound and the heap that retained state has.
THEOREM TotalsExact == Spec => []CountersExact
<1>1. Init => Counted
  <2> SUFFICES ASSUME Init PROVE Counted
    OBVIOUS
  <2>1. PendingIDs = {}
    BY DEF Init, PendingIDs, NoBlock
  <2>2. \A id \in PacketIDs : IsFiniteSet(pending[id].shards)
    BY FS_EmptySet DEF Init, NoBlock
  <2>3. QED
    BY <2>1, <2>2, UnitsNone DEF Init, Counted
<1>2. TypeOK /\ BoundInv /\ Counted /\ [Next]_decoderVars => Counted'
  BY StepKeepsCounted DEF BoundInv
<1>3. TypeOK /\ BoundInv /\ HeapMatchesPending /\ Counted => CountersExact
  <2> SUFFICES ASSUME TypeOK, BoundInv, HeapMatchesPending, Counted PROVE CountersExact
    OBVIOUS
  <2>1. PendingIDs \in SUBSET PacketIDs /\ IsFiniteSet(PendingIDs)
    BY DEF PendingIDs, BoundInv
  <2>2. /\ \A id \in PendingIDs : Present(pending[id]) \in Nat
        /\ \A id \in PendingIDs : Bytes(pending[id]) \in Nat
    BY <2>1, WeightTypes
  <2>3. MapThenSumSet(LAMBDA id : Present(pending[id]), PendingIDs)
          = Cardinality(Units(ShardWeights(pending), PendingIDs))
    BY <2>1, <2>2, ShardUnits
  <2>4. MapThenSumSet(LAMBDA id : Bytes(pending[id]), PendingIDs)
          = Cardinality(Units(ByteWeights(pending), PendingIDs))
    BY <2>1, <2>2, ByteUnits
  <2>5. QED
    BY <2>3, <2>4 DEF CountersExact, BoundInv, Counted
<1>4. QED
  BY <1>1, <1>2, <1>3, TypeCorrect, BoundInvariant, HeapInStep, PTL DEF Spec

----------------------------------------------------------------------------
(* Remainders                                                              *)
LEMMA ModOf ==
    ASSUME NEW n \in Int, NEW m \in Nat \ {0}
    PROVE  n = m * (n \div m) + (n % m) /\ n % m \in 0..(m - 1) /\ n \div m \in Int
OBVIOUS

LEMMA Multiples ==
    ASSUME NEW m \in Nat \ {0}, NEW a \in Int, NEW b \in Int, a < b
    PROVE  m * b >= m * a + m
<1>1. b - a - 1 \in Nat
  OBVIOUS
<1>2. m * (b - a - 1) >= 0
  BY <1>1
<1>3. QED
  BY <1>2

LEMMA ModIs ==
    ASSUME NEW n \in Int, NEW m \in Nat \ {0}, NEW q \in Int, NEW r \in 0..(m - 1), n = m * q + r
    PROVE  n % m = r
<1> DEFINE d == n \div m
           s == n % m
<1>1. n = m * d + s /\ s \in 0..(m - 1) /\ d \in Int
  BY ModOf
<1> HIDE DEF d, s
<1>2. ~(d < q)
  <2>1. SUFFICES ASSUME d < q PROVE FALSE
    OBVIOUS
  <2>2. m * q >= m * d + m
    BY <1>1, <2>1, Multiples
  <2>3. m * q \in Int /\ m * d \in Int
    BY <1>1
  <2>4. QED
    BY <1>1, <2>2, <2>3
<1>3. ~(q < d)
  <2>1. SUFFICES ASSUME q < d PROVE FALSE
    OBVIOUS
  <2>2. m * d >= m * q + m
    BY <1>1, <2>1, Multiples
  <2>3. m * q \in Int /\ m * d \in Int
    BY <1>1
  <2>4. QED
    BY <1>1, <2>2, <2>3
<1>4. d = q
  BY <1>1, <1>2, <1>3
<1>5. QED
  BY <1>1, <1>4 DEF s

\* A remainder may be taken before or after an addition.
LEMMA ModPlus ==
    ASSUME NEW a \in Int, NEW i \in Int, NEW m \in Nat \ {0}
    PROVE  ((a % m) + i) % m = (a + i) % m
<1> DEFINE q == a \div m
           s == a % m
           n == s + i
           q2 == n \div m
           r == n % m
<1>1. a = m * q + s /\ s \in 0..(m - 1) /\ q \in Int
  BY ModOf
<1>2. n \in Int /\ n = s + i
  BY <1>1
<1> HIDE DEF n
<1>3. n = m * q2 + r /\ r \in 0..(m - 1) /\ q2 \in Int
  BY <1>2, ModOf
<1> HIDE DEF q, s, q2, r
<1>4. m * (q + q2) = m * q + m * q2 /\ m * q \in Int /\ m * q2 \in Int
  BY <1>1, <1>3
<1>5. a + i = m * (q + q2) + r /\ q + q2 \in Int /\ a + i \in Int
  BY <1>1, <1>2, <1>3, <1>4
<1>6. (a + i) % m = r
  BY <1>3, <1>5, ModIs
<1>7. QED
  BY <1>6 DEF r, s, n

\* Numbers less than m apart have different remainders.
LEMMA ModApart ==
    ASSUME NEW m \in Nat \ {0}, NEW a \in Int, NEW b \in Int, a < b, b - a < m
    PROVE  a % m # b % m
<1> DEFINE p == a \div m
           q == b \div m
<1>1. a = m * p + (a % m) /\ b = m * q + (b % m) /\ p \in Int /\ q \in Int
      /\ a % m \in Int /\ b % m \in Int
  BY ModOf
<1> HIDE DEF p, q
<1>2. SUFFICES ASSUME a % m = b % m PROVE FALSE
  OBVIOUS
<1>3. m * p \in Int /\ m * q \in Int
  BY <1>1
<1>4. m * p < m * q /\ m * q < m * p + m
  BY <1>1, <1>2, <1>3
<1>5. ~(p < q)
  BY <1>1, <1>3, <1>4, Multiples
<1>6. ~(q < p)
  BY <1>1, <1>3, <1>4, Multiples
<1>7. p = q
  BY <1>1, <1>5, <1>6
<1>8. QED
  BY <1>3, <1>4, <1>7

----------------------------------------------------------------------------
(* What the loop over words clears                                         *)

\* The ring positions of the r IDs from a on.
Residues(a, r) == {(a + i) % Window : i \in 0..(r - 1)}

\* An iteration clears at least one position and does not pass the end of the ring.
LEMMA WidthOf ==
    ASSUME NEW r \in 1..(Window - 1), NEW p \in Positions
    PROVE  /\ Width(p, r) \in 1..r
           /\ p + Width(p, r) <= Window
<1> DEFINE t == p % WordBits
           j == p \div WordBits
           k == Window \div WordBits
           w == Width(p, r)
<1>1. WordBits \in Nat \ {0} /\ Window \in Nat \ {0} /\ Window % WordBits = 0
  BY RingAssumption, WindowAssumption, PacketIDsAssumption
<1>2. p \in Nat /\ p < Window /\ r \in Nat /\ r >= 1
  BY <1>1 DEF Positions
<1>3. p = WordBits * j + t /\ t \in 0..(WordBits - 1) /\ j \in Int
  BY <1>1, <1>2, ModOf
<1>4. Window = WordBits * k + 0 /\ k \in Int
  BY <1>1, ModOf
<1>5. w = CHOOSE x \in {r, WordBits - t} : \A y \in {r, WordBits - t} : x <= y
  BY DEF Width, Min
<1> HIDE DEF t, j, k, w
<1>6. w \in {r, WordBits - t} /\ w <= r /\ w <= WordBits - t
  <2>1. \E x \in {r, WordBits - t} : \A y \in {r, WordBits - t} : x <= y
    BY <1>1, <1>2, <1>3
  <2>2. QED
    BY <1>5, <2>1
<1>7. w \in 1..r
  BY <1>1, <1>2, <1>3, <1>6
<1>8. j < k
  <2>1. SUFFICES ASSUME ~(j < k) PROVE FALSE
    OBVIOUS
  <2>2. j = k \/ k < j
    BY <1>3, <1>4, <2>1
  <2>3. WordBits * j \in Int /\ WordBits * k \in Int
    BY <1>1, <1>3, <1>4
  <2>4. WordBits * j >= WordBits * k
    BY <1>1, <1>3, <1>4, <2>2, <2>3, Multiples
  <2>5. QED
    BY <1>1, <1>2, <1>3, <1>4, <2>3, <2>4
<1>9. WordBits * k >= WordBits * j + WordBits
  BY <1>1, <1>3, <1>4, <1>8, Multiples
<1>10. WordBits * j \in Int /\ WordBits * k \in Int
  BY <1>1, <1>3, <1>4
<1>11. p + w <= Window
  BY <1>1, <1>2, <1>3, <1>4, <1>6, <1>7, <1>9, <1>10
<1>12. QED
  BY <1>7, <1>11 DEF w

\* One iteration and the rest of the loop.
LEMMA ResiduesSplit ==
    ASSUME NEW r \in 1..(Window - 1), NEW p \in Positions, NEW w \in 1..r, p + w <= Window
    PROVE  Residues(p, r) = p..(p + w - 1) \cup Residues((p + w) % Window, r - w)
<1>1. Window \in Nat \ {0} /\ p \in Nat /\ r \in Nat /\ w \in Nat
  BY RingAssumption, WindowAssumption, PacketIDsAssumption DEF Positions
<1>2. ASSUME NEW i \in 0..(w - 1) PROVE (p + i) % Window = p + i
  <2>1. PICK x \in 0..(Window - 1) : x = p + i
    BY <1>1
  <2>2. x \in Int /\ 0 \in Int /\ x = Window * 0 + x
    BY <1>1, <2>1
  <2>3. x % Window = x
    BY <1>1, <2>1, <2>2, ModIs
  <2>4. QED
    BY <2>1, <2>3
<1>3. ASSUME NEW i \in Int PROVE (((p + w) % Window) + i) % Window = (p + (w + i)) % Window
  <2>1. (((p + w) % Window) + i) % Window = ((p + w) + i) % Window
    <3> DEFINE a == p + w
    <3>1. a \in Int
      BY <1>1
    <3> HIDE DEF a
    <3>2. ((a % Window) + i) % Window = (a + i) % Window
      BY <1>1, <3>1, ModPlus
    <3>3. QED
      BY <3>2 DEF a
  <2>2. (p + w) + i = p + (w + i)
    BY <1>1
  <2>3. QED
    BY <2>1, <2>2
<1>4. ASSUME NEW x \in Residues(p, r)
      PROVE  x \in p..(p + w - 1) \cup Residues((p + w) % Window, r - w)
  <2>1. PICK i \in 0..(r - 1) : x = (p + i) % Window
    BY DEF Residues
  <2>2. CASE i < w
    BY <1>1, <1>2, <2>1, <2>2
  <2>3. CASE i >= w
    <3>1. i - w \in 0..((r - w) - 1) /\ w + (i - w) = i
      BY <1>1, <2>1, <2>3
    <3>2. x = (((p + w) % Window) + (i - w)) % Window
      BY <1>3, <2>1, <3>1
    <3>3. QED
      BY <3>1, <3>2 DEF Residues
  <2>4. QED
    BY <1>1, <2>1, <2>2, <2>3
<1>5. ASSUME NEW x \in p..(p + w - 1) PROVE x \in Residues(p, r)
  <2>1. x - p \in 0..(w - 1) /\ x - p \in 0..(r - 1) /\ p + (x - p) = x
    BY <1>1
  <2>2. (p + (x - p)) % Window = p + (x - p)
    BY <1>2, <2>1
  <2>3. QED
    BY <2>1, <2>2 DEF Residues
<1>6. ASSUME NEW x \in Residues((p + w) % Window, r - w) PROVE x \in Residues(p, r)
  <2>1. PICK i \in 0..((r - w) - 1) : x = (((p + w) % Window) + i) % Window
    BY DEF Residues
  <2>2. w + i \in 0..(r - 1) /\ i \in Int
    BY <1>1, <2>1
  <2>3. x = (p + (w + i)) % Window
    BY <1>3, <2>1, <2>2
  <2>4. QED
    BY <2>2, <2>3 DEF Residues
<1>7. QED
  BY <1>4, <1>5, <1>6

\* What one iteration does, given what the following ones do.
Iteration(f, r) ==
    [p \in Positions |->
        IF r = 0 THEN {}
        ELSE p..(p + Width(p, r) - 1) \cup f[r - Width(p, r)][(p + Width(p, r)) % Window]]
Loops(f) == f = [r \in 0..(Window - 1) |-> Iteration(f, r)]

\* The loop clears the positions of the IDs it was started for.
LEMMA LoopClears ==
    ASSUME NEW r \in 0..(Window - 1), NEW p \in Positions
    PROVE  ClearLoop[r][p] = Residues(p, r)
<1>0. Window \in Nat \ {0}
  BY RingAssumption, WindowAssumption, PacketIDsAssumption
<1>1. ClearLoop = CHOOSE f : Loops(f)
  BY DEF ClearLoop, Loops, Iteration
<1>2. ASSUME NEW n \in 1..(Window - 1), NEW x \in Positions
      PROVE  /\ n - Width(x, n) \in 0..(n - 1)
             /\ n - Width(x, n) \in 0..(Window - 1)
             /\ (x + Width(x, n)) % Window \in Positions
             /\ Residues(x, n) = x..(x + Width(x, n) - 1)
                                   \cup Residues((x + Width(x, n)) % Window, n - Width(x, n))
  <2> DEFINE w == Width(x, n)
  <2>1. w \in 1..n /\ x + w <= Window
    BY WidthOf
  <2>2. x \in Int
    BY <1>0 DEF Positions
  <2> HIDE DEF w
  <2>3. n - w \in 0..(n - 1) /\ n - w \in 0..(Window - 1) /\ x + w \in Int
    BY <1>0, <2>1, <2>2
  <2>4. (x + w) % Window \in Positions
    BY <1>0, <2>3, ModOf DEF Positions
  <2>5. Residues(x, n) = x..(x + w - 1) \cup Residues((x + w) % Window, n - w)
    BY <2>1, ResiduesSplit
  <2>6. QED
    BY <2>3, <2>4, <2>5 DEF w
<1>3. ASSUME NEW x PROVE Residues(x, 0) = {}
  BY DEF Residues
<1>4. \E f : Loops(f)
  <2> DEFINE g == [n \in 0..(Window - 1) |-> [x \in Positions |-> Residues(x, n)]]
  <2>1. ASSUME NEW n \in 0..(Window - 1) PROVE g[n] = Iteration(g, n)
    <3>1. ASSUME NEW x \in Positions PROVE g[n][x] = Iteration(g, n)[x]
      <4>1. CASE n = 0
        BY <1>3, <4>1 DEF Iteration
      <4>2. CASE n # 0
        <5>1. n \in 1..(Window - 1)
          BY <4>2
        <5>2. QED
          BY <1>2, <4>2, <5>1 DEF Iteration
      <4>3. QED
        BY <4>1, <4>2
    <3>2. g[n] = [x \in Positions |-> g[n][x]]
      OBVIOUS
    <3>3. Iteration(g, n) = [x \in Positions |-> Iteration(g, n)[x]]
      BY DEF Iteration
    <3> HIDE DEF g
    <3>4. QED
      BY <3>1, <3>2, <3>3
  <2>2. g = [n \in 0..(Window - 1) |-> g[n]]
    OBVIOUS
  <2> HIDE DEF g
  <2>3. g = [n \in 0..(Window - 1) |-> Iteration(g, n)]
    BY <2>1, <2>2
  <2>4. QED
    BY <2>3 DEF Loops
<1> DEFINE f == CHOOSE g : Loops(g)
<1>5. Loops(f)
  BY <1>4
<1>6. ClearLoop = f
  BY <1>1
<1> HIDE DEF f
<1>7. \A n \in 0..(Window - 1) : f[n] = Iteration(f, n)
  BY <1>5 DEF Loops
<1> DEFINE wrong == {n \in 0..(Window - 1) : \E x \in Positions : f[n][x] # Residues(x, n)}
<1>8. SUFFICES ASSUME wrong # {} PROVE FALSE
  BY <1>6
<1>9. PICK n \in wrong : \A m \in wrong : ~(m < n)
  <2>1. wrong \subseteq Nat
    BY <1>0
  <2> HIDE DEF wrong
  <2> DEFINE R == {pair \in Nat \X Nat : pair[1] < pair[2]}
  <2>2. IsWellFoundedOn(R, Nat)
    BY NatLessThanWellFounded, Zenon DEF OpToRel
  <2>3. PICK n \in wrong : \A m \in wrong : ~(<<m, n>> \in R)
    <3> HIDE DEF R
    <3>1. QED
      BY <1>8, <2>1, <2>2, WFMin
  <2>4. QED
    BY <2>1, <2>3
<1>10. PICK x \in Positions : f[n][x] # Residues(x, n)
  BY <1>9
<1>11. CASE n = 0
  BY <1>3, <1>7, <1>9, <1>10, <1>11 DEF Iteration
<1>12. CASE n # 0
  <2> DEFINE w == Width(x, n)
             y == (x + w) % Window
             m == n - w
  <2>1. n \in 1..(Window - 1)
    BY <1>9, <1>12
  <2>2. /\ m \in 0..(n - 1) /\ m \in 0..(Window - 1) /\ y \in Positions
        /\ Residues(x, n) = x..(x + w - 1) \cup Residues(y, m)
    BY <1>2, <2>1
  <2>3. f[n][x] = x..(x + w - 1) \cup f[m][y]
    <3>1. f[n] = Iteration(f, n)
      BY <1>7, <1>9
    <3>2. Iteration(f, n)[x] = x..(x + w - 1) \cup f[m][y]
      BY <1>12 DEF Iteration
    <3>3. QED
      BY <3>1, <3>2
  <2> HIDE DEF w, y, m
  <2>4. m < n
    BY <2>1, <2>2
  <2>5. f[m][y] = Residues(y, m)
    BY <1>9, <2>2, <2>4
  <2>6. QED
    BY <1>10, <2>2, <2>3, <2>5
<1>13. QED
  BY <1>11, <1>12

----------------------------------------------------------------------------
(* The ring implements the window.                                         *)

\* The types, the count, and that a pending ID was admitted.
RingInv ==
    /\ RingTypeOK /\ CountExact
    /\ ~started => bits = {} /\ open = {}
    /\ \A id \in open : id <= highest

\* The IDs the ring knows as delivered: the window's completed set.
Known == {id \in PacketIDs : RingContains(id)}

LEMMA RingTypes ==
    ASSUME RingInv
    PROVE  /\ Window \in Nat \ {0} /\ PacketIDs \subseteq Nat /\ highest \in Nat /\ started \in BOOLEAN
           /\ bits \subseteq Positions /\ open \subseteq PacketIDs
           /\ IsFiniteSet(bits) /\ count = Cardinality(bits)
<1>1. /\ Window \in Nat \ {0} /\ PacketIDs \subseteq Nat /\ highest \in Nat /\ started \in BOOLEAN
      /\ bits \subseteq Positions /\ open \subseteq PacketIDs /\ count = Cardinality(bits)
  <2>1. Window \in Nat \ {0} /\ PacketIDs \subseteq Nat
    BY RingAssumption, WindowAssumption, PacketIDsAssumption
  <2>2. highest \in Nat /\ bits \subseteq Positions /\ open \subseteq PacketIDs
    BY DEF RingInv, RingTypeOK
  <2>3. started \in BOOLEAN /\ count = Cardinality(bits)
    BY Zenon DEF RingInv, RingTypeOK, CountExact
  <2>4. QED
    BY <2>1, <2>2, <2>3, Zenon
<1>2. IsFiniteSet(bits)
  <2>1. 0 \in Int /\ Window - 1 \in Int
    BY <1>1
  <2>2. IsFiniteSet(0..(Window - 1))
    BY <2>1, FS_Interval
  <2>3. QED
    BY <1>1, <2>2, FS_Subset DEF Positions
<1>3. QED
  BY <1>1, <1>2

\* A set of positions is no larger than the ring.
LEMMA RingRoom ==
    ASSUME NEW S, S \subseteq Positions
    PROVE  IsFiniteSet(S) /\ Cardinality(S) \in 0..Window
<1>1. Window \in Nat \ {0} /\ 0 \in Int /\ Window - 1 \in Int
  BY RingAssumption, WindowAssumption, PacketIDsAssumption
<1>2. /\ IsFiniteSet(0..(Window - 1))
      /\ Cardinality(0..(Window - 1)) = IF 0 > Window - 1 THEN 0 ELSE (Window - 1) - 0 + 1
  BY <1>1, FS_Interval
<1>3. Cardinality(Positions) = Window /\ IsFiniteSet(Positions)
  BY <1>1, <1>2 DEF Positions
<1>4. IsFiniteSet(S) /\ Cardinality(S) <= Cardinality(Positions)
  BY <1>3, FS_Subset
<1>5. Cardinality(S) \in Nat
  BY <1>4, FS_CardinalityType
<1>6. QED
  BY <1>1, <1>3, <1>4, <1>5

\* Two IDs inside the window have the same position only if they are the same.
LEMMA OnePosition ==
    ASSUME NEW top \in Nat, NEW a \in Nat, NEW b \in Nat,
           a <= top, b <= top, top - a < Window, top - b < Window, a % Window = b % Window
    PROVE  a = b
<1>1. Window \in Nat \ {0}
  BY RingAssumption, WindowAssumption, PacketIDsAssumption
<1>2. ~(a < b)
  <2>1. SUFFICES ASSUME a < b PROVE FALSE
    OBVIOUS
  <2>2. b - a < Window
    BY <1>1, <2>1
  <2>3. a \in Int /\ b \in Int
    OBVIOUS
  <2>4. a % Window # b % Window
    BY <1>1, <2>1, <2>2, <2>3, ModApart, Zenon
  <2>5. QED
    BY <2>4
<1>3. ~(b < a)
  <2>1. SUFFICES ASSUME b < a PROVE FALSE
    OBVIOUS
  <2>2. a - b < Window
    BY <1>1, <2>1
  <2>3. a \in Int /\ b \in Int
    OBVIOUS
  <2>4. a % Window # b % Window
    BY <1>1, <2>1, <2>2, <2>3, ModApart, Zenon
  <2>5. QED
    BY <2>4
<1>4. QED
  BY <1>2, <1>3

\* Moving the window clears the positions of the IDs it moves over.
LEMMA MoveClears ==
    ASSUME RingInv, NEW id \in Nat, id > highest
    PROVE  /\ ClearedBy(id) \subseteq Positions
           /\ \A c \in (highest + 1)..id : c % Window \in ClearedBy(id)
           /\ \A c \in Nat : c <= highest /\ id - c < Window => c % Window \notin ClearedBy(id)
<1>1. Window \in Nat \ {0} /\ highest \in Nat
  BY RingTypes
<1>2. \A c \in Int : c % Window \in Positions
  BY <1>1, ModOf DEF Positions
<1>3. CASE id - highest >= Window
  <2>1. ClearedBy(id) = Positions
    BY <1>3 DEF ClearedBy
  <2>2. \A c \in Nat : ~(c <= highest /\ id - c < Window)
    BY <1>1, <1>3
  <2>3. QED
    BY <1>1, <1>2, <2>1, <2>2
<1>4. CASE id - highest < Window
  <2> DEFINE r == id - highest
             a == highest + 1
             p == a % Window
  <2>1. r \in 0..(Window - 1) /\ a \in Int /\ r \in Nat
    BY <1>1, <1>4
  <2>2. p \in Positions
    BY <1>2, <2>1
  <2>3. ClearedBy(id) = Residues(p, r)
    <3>1. ClearedBy(id) = ClearLoop[r][p]
      BY <1>1, <1>4 DEF ClearedBy
    <3>2. QED
      BY <2>1, <2>2, <3>1, LoopClears
  <2> HIDE DEF p
  <2>4. \A i \in Int : (p + i) % Window = (a + i) % Window
    <3> SUFFICES ASSUME NEW i \in Int PROVE (p + i) % Window = (a + i) % Window
      OBVIOUS
    <3> HIDE DEF a
    <3>1. QED
      BY <1>1, <2>1, ModPlus DEF p
  <2>5. ASSUME NEW x \in ClearedBy(id)
        PROVE  x \in Positions /\ \E c \in (highest + 1)..id : x = c % Window
    <3>1. PICK i \in 0..(r - 1) : x = (p + i) % Window
      BY <2>3 DEF Residues
    <3>2. a + i \in (highest + 1)..id /\ i \in Int /\ a + i \in Int
      BY <1>1, <2>1, <3>1
    <3>3. x = (a + i) % Window
      BY <2>4, <3>1, <3>2
    <3>4. QED
      BY <1>2, <3>2, <3>3
  <2>6. ASSUME NEW c \in (highest + 1)..id PROVE c % Window \in ClearedBy(id)
    <3>1. c - a \in 0..(r - 1) /\ c - a \in Int /\ a + (c - a) = c
      BY <1>1, <2>1
    <3>2. (p + (c - a)) % Window = c % Window
      BY <2>4, <3>1
    <3>3. QED
      BY <2>3, <3>1, <3>2 DEF Residues
  <2>7. ASSUME NEW c \in Nat, c <= highest, id - c < Window, c % Window \in ClearedBy(id)
        PROVE  FALSE
    <3>1. PICK d \in (highest + 1)..id : c % Window = d % Window
      BY <2>5, <2>7
    <3>2. d \in Nat /\ d <= id /\ c <= id /\ id - d < Window /\ c # d
      BY <1>1, <1>4, <2>7, <3>1
    <3>3. QED
      BY <2>7, <3>1, <3>2, OnePosition
  <2>8. QED
    BY <2>5, <2>6, <2>7
<1>5. id - highest >= Window \/ id - highest < Window
  BY <1>1
<1>6. QED
  BY <1>3, <1>4, <1>5, Zenon

\* An admission moves the ring as it moves the window.
LEMMA AdmitImplements ==
    ASSUME RingInv, NEW id \in PacketIDs, RingAdmit(id)
    PROVE  RingInv' /\ Abstract!Admit(id)
<1>1. /\ Window \in Nat \ {0} /\ PacketIDs \subseteq Nat /\ highest \in Nat /\ started \in BOOLEAN
      /\ bits \subseteq Positions /\ open \subseteq PacketIDs
      /\ IsFiniteSet(bits) /\ count = Cardinality(bits) /\ id \in Nat
  BY RingTypes
<1>2. /\ ~TooOld(id) /\ ~RingContains(id) /\ open' = open \cup {id}
  BY DEF RingAdmit
<1>3. ~Abstract!TooOld(id) /\ ~Abstract!Contains(id)
  BY <1>2 DEF Abstract!TooOld, Abstract!Contains, TooOld, RingContains
<1>4. CASE ~started
  <2>1. started' = TRUE /\ highest' = id /\ bits' = bits /\ count' = count /\ bits = {} /\ open = {}
    BY <1>4 DEF RingAdmit, RingInv
  <2>2. RingInv'
    <3>1. CountExact'
      BY <2>1 DEF RingInv, CountExact
    <3>2. open' \subseteq PacketIDs /\ \A c \in open' : c <= highest'
      BY <1>1, <1>2, <2>1
    <3>3. bits' \subseteq Positions' /\ count' \in 0..Window /\ highest' \in Nat
      BY <1>1, <2>1 DEF RingInv, RingTypeOK, Positions
    <3>4. QED
      BY <2>1, <3>1, <3>2, <3>3 DEF RingInv, RingTypeOK
  <2>3. Known' = {} /\ Known = {}
    BY <1>4, <2>1 DEF Known, RingContains
  <2>4. highest' = Abstract!AdmittedHighest(id)
    BY <1>4, <2>1 DEF Abstract!AdmittedHighest
  <2>5. Known' = Abstract!Admitted(id)
    BY <2>3 DEF Abstract!Admitted, Known
  <2>6. QED
    BY <1>3, <2>1, <2>2, <2>4, <2>5 DEF Abstract!Admit, Known
<1>5. CASE started /\ id <= highest
  <2>0. ~(id > highest)
    BY <1>1, <1>5
  <2>1. UNCHANGED <<started, highest, bits, count>>
    BY <1>5, <2>0, Zenon DEF RingAdmit
  <2>2. RingInv'
    BY <1>1, <1>2, <1>5, <2>1 DEF RingInv, RingTypeOK, CountExact, Positions
  <2>3. Known' = Known
    BY <2>1 DEF Known, RingContains, TooOld
  <2>4. highest' = Abstract!AdmittedHighest(id) /\ Abstract!AdmittedHighest(id) = highest
    BY <1>5, <2>1 DEF Abstract!AdmittedHighest
  <2>5. \A c \in Known : c > highest - Window
    BY <1>1 DEF Known, RingContains, TooOld
  <2>6. Known' = Abstract!Admitted(id)
    BY <2>3, <2>4, <2>5 DEF Abstract!Admitted, Known
  <2>7. QED
    BY <1>3, <1>5, <2>1, <2>2, <2>4, <2>6 DEF Abstract!Admit, Known
<1>6. CASE started /\ id > highest
  <2> DEFINE cleared == ClearedBy(id)
  <2>1. /\ bits' = bits \ cleared /\ highest' = id /\ started' = started
        /\ count' = count - Cardinality(bits \cap cleared)
    <3>1. ~(id <= highest)
      BY <1>1, <1>6
    <3>2. /\ bits' = bits \ cleared /\ highest' = id /\ started' = started
          /\ count' = CountAfterMove(id)
      BY <1>6, <3>1, Zenon DEF RingAdmit
    <3>3. QED
      BY <3>2 DEF CountAfterMove
  <2>2. /\ \A c \in (highest + 1)..id : c % Window \in cleared
        /\ \A c \in Nat : c <= highest /\ id - c < Window => c % Window \notin cleared
    BY <1>1, <1>6, MoveClears
  <2> HIDE DEF cleared
  <2>3. RingInv'
    <3>1. bits' \subseteq Positions /\ IsFiniteSet(bits \cap cleared)
      BY <1>1, <2>1, FS_Subset
    <3>2. Cardinality(bits') = Cardinality(bits) - Cardinality(bits \cap cleared)
      BY <1>1, <2>1, FS_Difference
    <3>3. count' = Cardinality(bits') /\ count' \in 0..Window
      BY <1>1, <2>1, <3>1, <3>2, RingRoom
    <3>4. CountExact'
      BY <3>3 DEF CountExact
    <3>5. RingTypeOK'
      BY <1>1, <1>2, <1>6, <2>1, <3>1, <3>3 DEF RingTypeOK, Positions
    <3>6. \A c \in open' : c <= highest'
      BY <1>1, <1>2, <1>6, <2>1 DEF RingInv
    <3>7. QED
      BY <1>6, <2>1, <3>4, <3>5, <3>6 DEF RingInv
  <2>4. highest' = Abstract!AdmittedHighest(id) /\ Abstract!AdmittedHighest(id) = id
    BY <1>1, <1>6, <2>1 DEF Abstract!AdmittedHighest
  <2>5. ASSUME NEW c \in PacketIDs
        PROVE  RingContains(c)' <=> RingContains(c) /\ c > id - Window
    <3>1. c \in Nat
      BY <1>1
    <3>2. CASE c <= highest /\ id - c < Window
      <4>1. c % Window \notin cleared /\ c <= id /\ c > id - Window /\ ~(highest - c >= Window)
        BY <1>1, <1>6, <2>2, <3>1, <3>2
      <4>2. QED
        BY <1>1, <1>6, <2>1, <3>1, <3>2, <4>1 DEF RingContains, TooOld
    <3>3. CASE c > highest
      <4>1. ~RingContains(c)
        BY <1>1, <3>1, <3>3 DEF RingContains
      <4>2. c <= id => c % Window \in cleared
        BY <1>1, <2>2, <3>1, <3>3
      <4>3. QED
        BY <1>6, <2>1, <4>1, <4>2 DEF RingContains
    <3>4. CASE id - c >= Window
      <4>1. c < id /\ ~(c > id - Window)
        BY <1>1, <3>1, <3>4
      <4>2. QED
        BY <1>6, <2>1, <3>4, <4>1 DEF RingContains, TooOld
    <3>5. (c <= highest /\ id - c < Window) \/ c > highest \/ id - c >= Window
      BY <1>1, <3>1
    <3>6. QED
      BY <3>2, <3>3, <3>4, <3>5, Zenon
  <2>6. Known' = {c \in Known : c > id - Window}
    BY <2>5 DEF Known
  <2>7. Known' = Abstract!Admitted(id)
    BY <2>4, <2>6 DEF Abstract!Admitted, Known
  <2>8. QED
    BY <1>3, <1>6, <2>1, <2>3, <2>4, <2>7 DEF Abstract!Admit, Known
<1>7. QED
  BY <1>1, <1>4, <1>5, <1>6

\* A completion inside the window sets the bit of its ID and of no other.
LEMMA CompleteImplements ==
    ASSUME RingInv, NEW id \in PacketIDs, RingComplete(id)
    PROVE  RingInv' /\ Abstract!CompleteID(id)
<1>1. /\ Window \in Nat \ {0} /\ PacketIDs \subseteq Nat /\ highest \in Nat /\ started \in BOOLEAN
      /\ bits \subseteq Positions /\ open \subseteq PacketIDs
      /\ IsFiniteSet(bits) /\ count = Cardinality(bits) /\ id \in Nat
  BY RingTypes
<1>2. id \in open /\ open' = open \ {id} /\ UNCHANGED <<started, highest>>
  BY DEF RingComplete
<1>3. started /\ id <= highest
  BY <1>2 DEF RingInv
<1>4. CASE TooOld(id)
  <2>1. UNCHANGED <<bits, count>>
    BY <1>4 DEF RingComplete
  <2>2. RingInv'
    BY <1>1, <1>2, <1>3, <2>1 DEF RingInv, RingTypeOK, CountExact, Positions
  <2>3. Known' = Known
    BY <1>2, <2>1 DEF Known, RingContains, TooOld
  <2>4. Abstract!Completed(id, highest, Known) = Known
    BY <1>4 DEF Abstract!Completed, TooOld
  <2>5. QED
    BY <1>2, <1>3, <2>2, <2>3, <2>4 DEF Abstract!CompleteID, Known
<1>5. CASE ~TooOld(id)
  <2> DEFINE p == id % Window
  <2>1. bits' = bits \cup {p} /\ count' = IF p \in bits THEN count ELSE count + 1
    BY <1>5 DEF RingComplete, Index
  <2>2. p \in Positions
    BY <1>1, ModOf DEF Positions
  <2>3. highest - id < Window
    BY <1>1, <1>3, <1>5 DEF TooOld
  <2>4. RingInv'
    <3> HIDE DEF p
    <3>1. bits' \subseteq Positions
      BY <1>1, <2>1, <2>2
    <3>2. count' = Cardinality(bits')
      <4>1. CASE p \in bits
        <5>1. bits' = bits
          BY <2>1, <4>1
        <5>2. QED
          BY <1>1, <2>1, <4>1, <5>1
      <4>2. CASE p \notin bits
        <5>1. Cardinality(bits \cup {p}) = Cardinality(bits) + 1
          BY <1>1, <4>2, FS_AddElement
        <5>2. QED
          BY <1>1, <2>1, <4>2, <5>1
      <4>3. QED
        BY <4>1, <4>2
    <3>3. count' \in 0..Window
      BY <3>1, <3>2, RingRoom
    <3>4. CountExact'
      BY <3>2 DEF CountExact
    <3>5. RingTypeOK'
      BY <1>1, <1>2, <3>1, <3>3 DEF RingTypeOK, Positions
    <3>6. \A c \in open' : c <= highest'
      BY <1>2 DEF RingInv
    <3>7. QED
      BY <1>2, <1>3, <3>4, <3>5, <3>6 DEF RingInv
  <2>5. ASSUME NEW c \in PacketIDs
        PROVE  RingContains(c)' <=> RingContains(c) \/ c = id
    <3>1. c \in Nat
      BY <1>1
    <3>2. CASE c <= highest /\ highest - c < Window
      <4>1. c % Window = p => c = id
        BY <1>1, <1>3, <2>3, <3>1, <3>2, OnePosition
      <4>2. ~(highest - c >= Window)
        BY <1>1, <3>1, <3>2
      <4>3. (c % Window \in bits') <=> (c % Window \in bits \/ c = id)
        BY <2>1, <4>1
      <4>4. RingContains(c)' <=> c % Window \in bits'
        BY <1>2, <1>3, <3>2, <4>2 DEF RingContains, TooOld
      <4>5. RingContains(c) <=> c % Window \in bits
        BY <1>3, <3>2, <4>2 DEF RingContains, TooOld
      <4>6. QED
        BY <4>3, <4>4, <4>5
    <3>3. CASE ~(c <= highest /\ highest - c < Window)
      <4>1. c # id
        BY <1>3, <2>3, <3>3
      <4>2. ~(c <= highest) \/ (c < highest /\ highest - c >= Window)
        BY <1>1, <3>1, <3>3
      <4>3. ~RingContains(c) /\ ~RingContains(c)'
        BY <1>2, <1>3, <4>2 DEF RingContains, TooOld
      <4>4. QED
        BY <4>1, <4>3
    <3>4. QED
      BY <3>2, <3>3
  <2>6. Known' = Known \cup {id}
    BY <2>5 DEF Known
  <2>7. Abstract!Completed(id, highest, Known) = Known \cup {id}
    BY <1>3, <1>5 DEF Abstract!Completed, TooOld
  <2>8. QED
    BY <1>2, <1>3, <2>4, <2>6, <2>7 DEF Abstract!CompleteID, Known
<1>6. QED
  BY <1>4, <1>5

\* What leaves the ring alone leaves the window alone.
LEMMA QuietImplements ==
    ASSUME RingInv, open' \subseteq open,
           UNCHANGED <<started, highest, bits, count>>
    PROVE  RingInv' /\ UNCHANGED Abstract!windowVars
<1>1. /\ Window \in Nat \ {0} /\ PacketIDs \subseteq Nat /\ highest \in Nat /\ started \in BOOLEAN
      /\ bits \subseteq Positions /\ open \subseteq PacketIDs
  BY RingTypes
<1>2. RingInv'
  BY <1>1 DEF RingInv, RingTypeOK, CountExact, Positions
<1>3. Known' = Known
  BY DEF Known, RingContains, TooOld
<1>4. QED
  BY <1>2, <1>3 DEF Abstract!windowVars, Known

\* The ring behaves as the set of the delivered IDs among the last Window ones,
\* and counts them right, for any ring size, word size and IDs.
THEOREM RingImplementsWindow ==
    RingSpec => RefinesWindow
<1>1. RingInit => RingInv /\ Abstract!WindowInit
  <2> SUFFICES ASSUME RingInit PROVE RingInv /\ Abstract!WindowInit
    OBVIOUS
  <2>1. started = FALSE /\ highest = 0 /\ bits = {} /\ count = 0 /\ open = {}
    BY DEF RingInit
  <2>2. Known = {}
    BY <2>1 DEF Known, RingContains
  <2>3. count = Cardinality(bits)
    BY <2>1, FS_EmptySet
  <2>4. Window \in Nat
    BY RingAssumption, WindowAssumption, PacketIDsAssumption
  <2>5. RingInv
    <3>1. count \in 0..Window /\ highest \in Nat
      BY <2>1, <2>4
    <3>2. /\ bits \subseteq Positions /\ open \subseteq PacketIDs
          /\ \A id \in open : id <= highest
      BY <2>1
    <3>3. QED
      BY <2>1, <2>3, <3>1, <3>2, Zenon DEF RingInv, RingTypeOK, CountExact
  <2>6. QED
    BY <2>1, <2>2, <2>5 DEF Abstract!WindowInit, Known
<1>2. RingInv /\ [RingNext]_ringVars
        => RingInv' /\ [Abstract!WindowNext]_Abstract!windowVars
  <2> SUFFICES ASSUME RingInv, [RingNext]_ringVars
               PROVE  RingInv' /\ [Abstract!WindowNext]_Abstract!windowVars
    OBVIOUS
  <2>1. ASSUME NEW id \in PacketIDs, RingAdmit(id)
        PROVE  RingInv' /\ [Abstract!WindowNext]_Abstract!windowVars
    BY <2>1, AdmitImplements DEF Abstract!WindowNext
  <2>2. ASSUME NEW id \in PacketIDs, RingComplete(id)
        PROVE  RingInv' /\ [Abstract!WindowNext]_Abstract!windowVars
    BY <2>2, CompleteImplements DEF Abstract!WindowNext
  <2>3. ASSUME NEW id \in PacketIDs, RingAbandon(id)
        PROVE  RingInv' /\ [Abstract!WindowNext]_Abstract!windowVars
    BY <2>3, QuietImplements DEF RingAbandon
  <2>4. CASE UNCHANGED ringVars
    BY <2>4, QuietImplements DEF ringVars
  <2>5. QED
    BY <2>1, <2>2, <2>3, <2>4 DEF RingNext
<1>3. RingInv => RingTypeOK /\ CountExact
  BY DEF RingInv
<1>4. QED
  BY <1>1, <1>2, <1>3, PTL DEF RingSpec, RefinesWindow, Abstract!WindowSpec

============================================================================
