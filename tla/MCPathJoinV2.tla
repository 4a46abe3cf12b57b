---------------------------- MODULE MCPathJoinV2 ----------------------------
EXTENDS PathJoinV2

CONSTANTS b1, b2
MCBindings == {b1, b2}
\* A Session starts on its bootstrap path, or moves an established one twice.
Starting == [established |-> FALSE, joins |-> 0, failures |-> 0]
Moving == [established |-> TRUE, joins |-> 2, failures |-> 0]
Failing == [established |-> TRUE, joins |-> 1, failures |-> 1]
MCScenarios == {Starting, Moving, Failing}
============================================================================
