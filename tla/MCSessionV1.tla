---------------------------- MODULE MCSessionV1 ----------------------------
(***************************************************************************)
(* An instance of SessionV1 for TLC.                                       *)
(***************************************************************************)
EXTENDS SessionV1, TLC

CONSTANTS p1, p2

TwoPaths == {p1, p2}

\* No step tells one path from another.
Symmetry == Permutations(TwoPaths)

============================================================================
