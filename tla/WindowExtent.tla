--------------------------- MODULE WindowExtent ---------------------------
(***************************************************************************)
(* Which PacketIDs the v1 replay window covers: the last Window ones up to *)
(* the highest it has admitted.  The abstract window and the ring that     *)
(* stores it have this in common (internal/fec/replay_window.go).          *)
(***************************************************************************)
EXTENDS Integers

CONSTANTS
    PacketIDs,      \* the PacketIDs an authenticated peer can send
    Window          \* ReplayWindowIDs

ASSUME PacketIDsAssumption == PacketIDs \subseteq Nat
ASSUME WindowAssumption == Window \in Nat \ {0}

VARIABLES
    started,        \* has the window admitted an ID?
    highest         \* the highest admitted ID

TooOld(id) == started /\ id < highest /\ highest - id >= Window

============================================================================
