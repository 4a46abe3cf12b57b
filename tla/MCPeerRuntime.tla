--------------------------- MODULE MCPeerRuntime ---------------------------
(***************************************************************************)
(* Instances of PeerRuntime for TLC.                                       *)
(***************************************************************************)
EXTENDS PeerRuntime

\* An inbound and an outbound Session compete for one place; two inbound Sessions
\* are in use at once; the parent context ends under an inbound or an outbound
\* Session; an ID gets a new controller while the wrapper of its old one is being
\* closed.
Competing == [maxSessions |-> 1, inbound |-> 2, outbound |-> 1, ids |-> 1, parent |-> FALSE]
Inbounds == [maxSessions |-> 2, inbound |-> 2, outbound |-> 0, ids |-> 2, parent |-> FALSE]
Abandoned == {[maxSessions |-> 1, inbound |-> i, outbound |-> 1 - i, ids |-> 1, parent |-> TRUE] :
                  i \in {0, 1}}
Succeeding == [maxSessions |-> 2, inbound |-> 2, outbound |-> 0, ids |-> 1, parent |-> FALSE]
MCScenarios == {Competing, Inbounds} \cup Abandoned
OnlySucceeding == {Succeeding}

============================================================================
