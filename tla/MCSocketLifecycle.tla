-------------------------- MODULE MCSocketLifecycle --------------------------
EXTENDS SocketLifecycle

CONSTANTS r1, r2, c1, c2, s1, s2
MCRebuilders == {r1, r2}
MCClosers == {c1, c2}
MCSenders == {s1, s2}
\* Two rebuilds and two closes race; a send races a rebuild and a close; a
\* Listener, which is never rebuilt, with two sends or two closes.
MCScenarios ==
    {[kind |-> "carrier", rebuilders |-> {r1, r2}, closers |-> {c1, c2}, senders |-> {}],
     [kind |-> "carrier", rebuilders |-> {r1}, closers |-> {c1}, senders |-> {s1}],
     [kind |-> "listener", rebuilders |-> {}, closers |-> {c1}, senders |-> {s1, s2}],
     [kind |-> "listener", rebuilders |-> {}, closers |-> {c1, c2}, senders |-> {s1}]}
=============================================================================
