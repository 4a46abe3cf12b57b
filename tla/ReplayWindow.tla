--------------------------- MODULE ReplayWindow ---------------------------
(***************************************************************************)
(* What the v1 replay window promises (internal/fec/replay_window.go): it  *)
(* remembers exactly the delivered PacketIDs among the last Window ones,   *)
(* and calls every lower ID too old.                                       *)
(*                                                                         *)
(* This is the abstract window the decoder is specified with: a set of     *)
(* IDs.  ReplayRing is the bitmap that stores it.                          *)
(***************************************************************************)
EXTENDS WindowExtent

VARIABLE completed  \* the IDs whose completion bit is set

windowVars == <<started, highest, completed>>

WindowInit ==
    /\ started = FALSE
    /\ highest = 0
    /\ completed = {}

Contains(id) == started /\ id <= highest /\ ~TooOld(id) /\ id \in completed

\* The window after a new pending block for id: only a higher ID moves it,
\* and the IDs that leave it are forgotten.
AdmittedHighest(id) == IF started /\ id <= highest THEN highest ELSE id

\* Mutant: the bit of the lowest ID inside the window is cleared too.
MutantForgetsFloor(id) ==
    {c \in completed : c > AdmittedHighest(id) - Window + 1}

Admitted(id) ==
    {c \in completed : c > AdmittedHighest(id) - Window}

\* complete() after the window has been moved to top: no bit below the floor.
Completed(id, top, bits) ==
    IF id < top /\ top - id >= Window THEN bits ELSE bits \cup {id}

----------------------------------------------------------------------------
(* The window on its own.  Its owner admits an ID it was told is neither    *)
(* too old nor completed, and completes an ID it admitted.                  *)

Admit(id) ==
    /\ ~TooOld(id) /\ ~Contains(id)
    /\ started' = TRUE
    /\ highest' = AdmittedHighest(id)
    /\ completed' = Admitted(id)

CompleteID(id) ==
    /\ started /\ id <= highest
    /\ completed' = Completed(id, highest, completed)
    /\ UNCHANGED <<started, highest>>

WindowNext == \E id \in PacketIDs : Admit(id) \/ CompleteID(id)

WindowSpec == WindowInit /\ [][WindowNext]_windowVars

============================================================================
