-------------------------- MODULE MCSendPipelineV2 --------------------------
(* Two paths, two shards, groups with room for three bytes of one Datagram. *)
EXTENDS SendPipelineV2

\* A Session starts; its bootstrap path may fail or join again.
Startup == [owned |-> TRUE, aggregation |-> FALSE, established |-> FALSE,
            sizes |-> {}, datagrams |-> 0, joins |-> 1, losses |-> 0, rebuilds |-> 0]
\* An established Session sends what it aggregates.
Sending == [owned |-> TRUE, aggregation |-> TRUE, established |-> TRUE,
            sizes |-> {0, 4}, datagrams |-> 2, joins |-> 0, losses |-> 0, rebuilds |-> 0]
\* A path joins again while a Datagram is on its way.
Joining == [owned |-> TRUE, aggregation |-> FALSE, established |-> TRUE,
            sizes |-> {0}, datagrams |-> 1, joins |-> 1, losses |-> 0, rebuilds |-> 1]
\* The runtime's mode: sends within the call.
Synchronous == [owned |-> FALSE, aggregation |-> TRUE, established |-> TRUE,
                sizes |-> {4}, datagrams |-> 2, joins |-> 1, losses |-> 1, rebuilds |-> 0]
MCScenarios == {Startup, Sending, Joining, Synchronous}
============================================================================
