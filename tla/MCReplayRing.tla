--------------------------- MODULE MCReplayRing ---------------------------
(* A ring of two words of two bits; IDs up to three times round the ring.  *)
EXTENDS ReplayRing

CONSTANT MaxID

MCPacketIDs == 0..MaxID
============================================================================
