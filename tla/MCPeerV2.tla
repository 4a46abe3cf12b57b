----------------------------- MODULE MCPeerV2 ------------------------------
(* The v2 Peer runtime: who exists and who calls in each scenario. *)
EXTENDS PeerV2

MCOutbound == {"d1"}
MCInbound == {"x1", "x2"}

\* A dial over two carriers, its construction and every way to close it.
Dialing == [sessions |-> {"d1"}, callers |-> {"close", "closePeer"}, fence |-> "flush"]
\* Two remote initiators compete for one place on the Accept queue.
Accepting == [sessions |-> {"x1", "x2"}, callers |-> {"accept", "close", "closeListener"},
              fence |-> "flush"]
\* Fence callers and readers of an outbound Session.
Writing == [sessions |-> {"d1"}, callers |-> {"fence", "close"}, fence |-> "write"]
Flushing == [sessions |-> {"d1"}, callers |-> {"fence", "read", "parent"}, fence |-> "async"]
Draining == [sessions |-> {"x1"}, callers |-> {"fence", "accept", "closePeer", "parent"},
             fence |-> "grace"]

MCScenarios == {Dialing, Accepting, Writing, Flushing, Draining}
=============================================================================
