--------------------------- MODULE MCCreditLedger ---------------------------
(***************************************************************************)
(* An instance of CreditLedger for TLC.                                    *)
(***************************************************************************)
EXTENDS CreditLedger, TLC

CONSTANTS s1, s2, s3, l1, l2, l3, l4

MCScopes == {s1, s2, s3}
MCLeases == {l1, l2, l3, l4}

\* Nothing, bytes alone, a stream to accept, and a stream without bytes.
MCClaims ==
    {[bytes |-> 0, stream |-> FALSE, accept |-> FALSE],
     [bytes |-> 2, stream |-> FALSE, accept |-> FALSE],
     [bytes |-> 1, stream |-> TRUE, accept |-> TRUE],
     [bytes |-> 0, stream |-> TRUE, accept |-> FALSE]}

\* No step tells one handle from another.
Symmetry == Permutations(MCScopes) \cup Permutations(MCLeases)

============================================================================
