---------------------------- MODULE ReplayRing ----------------------------
(***************************************************************************)
(* The bitmap of the v1 replay window (internal/fec/replay_window.go): one *)
(* bit per position id % Window, in words of WordBits bits, and a count of *)
(* the bits set.  Moving the window clears the positions of the skipped    *)
(* IDs one word at a time.                                                 *)
(*                                                                         *)
(* The decoder drives it: it admits an ID only when it is not pending, too *)
(* old or completed, and completes only IDs it has pending.  RefinesWindow *)
(* says that this ring behaves as the set of IDs of ReplayWindow.          *)
(***************************************************************************)
EXTENDS WindowExtent, FiniteSets, FiniteSetsExt

CONSTANT WordBits   \* 64 in the code

ASSUME RingAssumption == WordBits \in Nat \ {0} /\ Window % WordBits = 0

VARIABLES
    bits,           \* the ring positions whose bit is set
    count,
    open            \* the decoder's pending IDs

ringVars == <<started, highest, bits, count, open>>

Positions == 0..(Window - 1)

RingInit ==
    /\ started = FALSE
    /\ highest = 0
    /\ bits = {}
    /\ count = 0
    /\ open = {}

RingContains(id) ==
    /\ started /\ id <= highest /\ ~TooOld(id)
    /\ id % Window \in bits

----------------------------------------------------------------------------
\* The bits one iteration of the loop clears: up to the end of the word.
Width(position, remaining) ==
    Min({remaining, WordBits - (position % WordBits)})

\* All positions the loop clears from position on.
ClearLoop[remaining \in 0..(Window - 1)] ==
    [position \in Positions |->
        IF remaining = 0 THEN {}
        ELSE LET width == Width(position, remaining)
             IN  position..(position + width - 1)
                   \cup ClearLoop[remaining - width][(position + width) % Window]]

\* Mutant: the loop starts at the old highest ID, not after it.
MutantClearsFromHighest(id) ==
    IF id - highest >= Window THEN Positions
    ELSE ClearLoop[id - highest][highest % Window]

ClearedBy(id) ==
    IF id - highest >= Window THEN Positions
    ELSE ClearLoop[id - highest][(highest + 1) % Window]

CountAfterMove(id) == count - Cardinality(bits \cap ClearedBy(id))

RingAdmit(id) ==
    /\ id \notin open /\ ~TooOld(id) /\ ~RingContains(id)
    /\ open' = open \cup {id}
    /\ \/ /\ ~started
          /\ started' = TRUE
          /\ highest' = id
          /\ UNCHANGED <<bits, count>>
       \/ /\ started /\ id <= highest
          /\ UNCHANGED <<started, highest, bits, count>>
       \/ /\ started /\ id > highest
          /\ bits' = bits \ ClearedBy(id)
          /\ count' = CountAfterMove(id)
          /\ highest' = id
          /\ UNCHANGED started

Index(id) == id % Window

\* A pending block completes.  Below the floor no bit is kept for it.
RingComplete(id) ==
    /\ id \in open
    /\ open' = open \ {id}
    /\ \/ TooOld(id) /\ UNCHANGED <<bits, count>>
       \/ /\ ~TooOld(id)
          /\ bits' = bits \cup {Index(id)}
          /\ count' = IF Index(id) \in bits THEN count ELSE count + 1
    /\ UNCHANGED <<started, highest>>

\* A pending block expires or fails: the window is not told.
RingAbandon(id) ==
    /\ id \in open
    /\ open' = open \ {id}
    /\ UNCHANGED <<started, highest, bits, count>>

RingNext == \E id \in PacketIDs : RingAdmit(id) \/ RingComplete(id) \/ RingAbandon(id)

RingSpec == RingInit /\ [][RingNext]_ringVars

----------------------------------------------------------------------------
(* Properties                                                              *)

\* Types: set bits and the count stay within the ring.
RingTypeOK ==
    /\ started \in BOOLEAN
    /\ highest \in Nat
    /\ bits \subseteq Positions
    /\ count \in 0..Window
    /\ open \subseteq PacketIDs

\* The count Stats reports is the number of bits set, after every word-wise
\* clear and every jump over the whole ring.
CountExact == count = Cardinality(bits)

Abstract == INSTANCE ReplayWindow
    WITH completed <- {id \in PacketIDs : RingContains(id)}

\* The ring implements the abstract window: it answers for every ID as the
\* set of the delivered IDs among the last Window ones would, so a slot that a
\* newer ID takes over never makes that one look delivered; and its count is exact.
RefinesWindow == Abstract!WindowSpec /\ [](RingTypeOK /\ CountExact)

============================================================================
