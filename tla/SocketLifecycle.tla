--------------------------- MODULE SocketLifecycle ---------------------------
(***************************************************************************)
(* The goroutines around a UDP socket: of a Carrier, which replaces its    *)
(* socket generation (internal/transport/carrier.go), and of a Listener,   *)
(* which has one socket for its life (internal/transport/listener.go).     *)
(*                                                                         *)
(* The short critical sections of the state lock are single steps; what a  *)
(* goroutine does between two of them, and what it waits for with no lock  *)
(* or with the lifecycle lock held, is a step of its own.  Sockets, the    *)
(* kernel's reads and writes and the owner's callbacks are external.       *)
(***************************************************************************)
EXTENDS Integers, Sequences, FiniteSets

CONSTANTS
    Rebuilders, Closers, Senders,   \* goroutines that call
    Scenarios                       \* a socket's kind and those of them that do

ASSUME ScenariosAssumption ==
    /\ Scenarios \subseteq [kind : {"carrier", "listener"}, rebuilders : SUBSET Rebuilders,
                            closers : SUBSET Closers, senders : SUBSET Senders]
    /\ \A s \in Scenarios : s.kind = "listener" => s.rebuilders = {}
    /\ IsFiniteSet(Rebuilders) /\ IsFiniteSet(Senders)
    /\ Rebuilders \cap Closers = {}         \* a call is one or the other

NoConn == 0
Nobody == "nobody"

ASSUME NobodyAssumption == Nobody \notin Rebuilders \cup Senders

VARIABLES
    scenario,
    conns,      \* every socket so far, in the order they were dialled
    current,    \* the published generation's socket
    nextGen, closed,
    lifecycle,  \* who holds lifecycleMu
    closeDone,
    calls,      \* [rebuilders and closers -> what the call is doing]
    sends       \* [senders -> what the send is doing]

socketVars == <<scenario, conns, current, nextGen, closed, lifecycle, closeDone, calls, sends>>

Carrier == scenario.kind = "carrier"
Conns == DOMAIN conns
Callers == scenario.rebuilders \cup scenario.closers

NewConn(number) ==
    [open |-> TRUE, number |-> number, alive |-> TRUE, loop |-> "none",
     active |-> 0, writer |-> Nobody, deadline |-> FALSE, reported |-> FALSE]

\* newListener: the socket with its read loop running.
NewListener == [NewConn(1) EXCEPT !.loop = "reading"]

\* newListener has returned, or OpenCarrier, whose first Rebuild found nothing
\* to retire.
SocketInit ==
    /\ scenario \in Scenarios
    /\ conns = <<NewListener>>
    /\ current = 1
    /\ nextGen = 1
    /\ closed = FALSE
    /\ lifecycle = Nobody
    /\ closeDone = FALSE
    /\ calls = [c \in Callers |-> [pc |-> "idle", conn |-> NoConn]]
    /\ sends = [s \in scenario.senders |-> [pc |-> "idle", conn |-> NoConn, callback |-> "none"]]

\* Mutant: a generation whose read loop failed no longer counts as current.
MutantCurrentIfAlive(c) == ~closed /\ current = c /\ conns[c].alive

IsCurrent(c) == ~closed /\ current = c

Goto(t, pc) == calls' = [calls EXCEPT ![t].pc = pc]

----------------------------------------------------------------------------
(* Rebuild                                                                 *)

\* Each rebuilder calls once.
BeginRebuild(t) ==
    /\ calls[t].pc = "idle"
    /\ Goto(t, "begin")
    /\ UNCHANGED <<scenario, conns, current, nextGen, closed, lifecycle, closeDone, sends>>

\* Mutant: the early return of a closed carrier keeps the lifecycle lock.
MutantKeepsLock(t) ==
    /\ calls[t].pc = "begin"
    /\ lifecycle = Nobody
    /\ lifecycle' = t
    /\ Goto(t, IF closed THEN "returned" ELSE "dialing")
    /\ UNCHANGED <<scenario, conns, current, nextGen, closed, closeDone, sends>>

LockLifecycle(t) ==
    /\ calls[t].pc = "begin"
    /\ lifecycle = Nobody
    /\ \/ closed /\ Goto(t, "returned") /\ UNCHANGED lifecycle
       \/ ~closed /\ Goto(t, "dialing") /\ lifecycle' = t
    /\ UNCHANGED <<scenario, conns, current, nextGen, closed, closeDone, sends>>

\* The dial fails, gives no connection or one without PMTU discovery.
DialFails(t) ==
    /\ calls[t].pc = "dialing"
    /\ Goto(t, "returned")
    /\ lifecycle' = Nobody
    /\ UNCHANGED <<scenario, conns, current, nextGen, closed, closeDone, sends>>

Dialed(t) ==
    /\ calls[t].pc = "dialing"
    /\ conns' = Append(conns, NewConn(0))
    /\ calls' = [calls EXCEPT ![t] = [pc |-> "publish", conn |-> Len(conns) + 1]]
    /\ UNCHANGED <<scenario, current, nextGen, closed, lifecycle, closeDone, sends>>

\* The carrier may have been closed while the dial went on.
Publish(t) ==
    /\ calls[t].pc = "publish"
    /\ LET c == calls[t].conn
       IN  \/ /\ closed
              /\ conns' = [conns EXCEPT ![c].open = FALSE]
              /\ lifecycle' = Nobody
              /\ Goto(t, "returned")
              /\ UNCHANGED <<current, nextGen>>
           \/ /\ ~closed
              /\ nextGen' = nextGen + 1
              /\ conns' = [conns EXCEPT ![c].number = nextGen', ![c].loop = "reading"]
              /\ current' = c
              /\ calls' = [calls EXCEPT ![t] = [pc |-> "retire", conn |-> current]]
              /\ UNCHANGED lifecycle
    /\ UNCHANGED <<scenario, closed, closeDone, sends>>

----------------------------------------------------------------------------
(* retireCarrierGeneration, and Close of both kinds                        *)

\* alive := false and conn.Close.
Retire(t) ==
    /\ calls[t].pc = "retire"
    /\ LET c == calls[t].conn
       IN  \/ c = NoConn /\ UNCHANGED conns
           \/ c # NoConn /\ conns' = [conns EXCEPT ![c].alive = FALSE, ![c].open = FALSE]
    /\ Goto(t, "drain")
    /\ UNCHANGED <<scenario, current, nextGen, closed, lifecycle, closeDone, sends>>

\* Mutant: only the read loop is waited for, not the callbacks and the sends.
MutantLoopOnly(c) == c = NoConn \/ conns[c].loop = "done"

\* <-done and active.Wait().
Drained(c) == c = NoConn \/ (conns[c].loop = "done" /\ conns[c].active = 0)

RebuildReturns(t) ==
    /\ t \in scenario.rebuilders
    /\ calls[t].pc = "drain" /\ Drained(calls[t].conn)
    /\ lifecycle' = Nobody
    /\ Goto(t, "returned")
    /\ UNCHANGED <<scenario, conns, current, nextGen, closed, closeDone, sends>>

\* Close: the first call takes the socket, a later one waits for the first.
\* A Listener closes its socket under the lock.
BeginClose(t) ==
    /\ calls[t].pc = "idle"
    /\ closed' = TRUE
    /\ \/ /\ closed
          /\ Goto(t, "await")
          /\ UNCHANGED <<conns, current>>
       \/ /\ ~closed /\ Carrier
          /\ current' = NoConn
          /\ calls' = [calls EXCEPT ![t] = [pc |-> "lifecycle", conn |-> current]]
          /\ UNCHANGED conns
       \/ /\ ~closed /\ ~Carrier
          /\ conns' = [conns EXCEPT ![1].open = FALSE]
          /\ calls' = [calls EXCEPT ![t] = [pc |-> "drain", conn |-> 1]]
          /\ UNCHANGED current
    /\ UNCHANGED <<scenario, nextGen, lifecycle, closeDone, sends>>

\* A rebuild may still be dialling, or retiring an older generation.
PassLifecycle(t) ==
    /\ calls[t].pc = "lifecycle"
    /\ lifecycle = Nobody
    /\ Goto(t, "retire")
    /\ UNCHANGED <<scenario, conns, current, nextGen, closed, lifecycle, closeDone, sends>>

CloseReturns(t) ==
    /\ t \in scenario.closers
    /\ \/ calls[t].pc = "drain" /\ Drained(calls[t].conn) /\ closeDone' = TRUE
       \/ calls[t].pc = "await" /\ closeDone /\ UNCHANGED closeDone
    /\ Goto(t, "returned")
    /\ UNCHANGED <<scenario, conns, current, nextGen, closed, lifecycle, sends>>

----------------------------------------------------------------------------
(* readLoop                                                                *)

LoopTo(c, at) == conns' = [conns EXCEPT ![c].loop = at]

\* Read returns a packet that fits, one that is too long, an error of the
\* socket, or that the socket is closed.  alive is a Carrier's.
Read(c) ==
    /\ conns[c].loop = "reading"
    /\ \/ conns[c].open /\ LoopTo(c, "packet")
       \/ conns[c].open /\ LoopTo(c, "oversized")
       \/ conns[c].open /\ conns' = [conns EXCEPT ![c].loop = "failed",
                                                  ![c].alive = IF Carrier THEN FALSE ELSE @]
       \/ ~conns[c].open /\ conns' = [conns EXCEPT ![c].loop = "done",
                                                   ![c].alive = IF Carrier THEN FALSE ELSE @]

\* deliverIfCurrent, up to the callback; a closed Listener's loop ends.
Deliver(c) ==
    /\ conns[c].loop = "packet"
    /\ \/ IsCurrent(c) /\ conns' = [conns EXCEPT ![c].loop = "callback", ![c].active = @ + 1]
       \/ ~IsCurrent(c) /\ LoopTo(c, IF Carrier THEN "reading" ELSE "done")

CallbackReturns(c) ==
    /\ conns[c].loop = "callback"
    /\ conns' = [conns EXCEPT ![c].loop = "reading", ![c].active = @ - 1]

\* reportIfCurrent before the next read; a Listener reports in any case.
ReportOversized(c) ==
    /\ conns[c].loop = "oversized"
    /\ LoopTo(c, IF IsCurrent(c) \/ ~Carrier THEN "reporting" ELSE "reading")

OversizedReported(c) == conns[c].loop = "reporting" /\ LoopTo(c, "reading")

\* The check and the report of a read error are two steps.
ReportFailure(c) ==
    /\ conns[c].loop = "failed"
    /\ LoopTo(c, IF IsCurrent(c) THEN "ending" ELSE "done")

FailureReturns(c) ==
    /\ conns[c].loop = "ending"
    /\ conns' = [conns EXCEPT ![c].loop = "done", ![c].reported = TRUE]

ReadLoop(c) ==
    /\ \/ Read(c) \/ Deliver(c) \/ CallbackReturns(c)
       \/ ReportOversized(c) \/ OversizedReported(c) \/ ReportFailure(c) \/ FailureReturns(c)
    /\ UNCHANGED <<scenario, current, nextGen, closed, lifecycle, closeDone, calls, sends>>

----------------------------------------------------------------------------
(* sendOnGeneration and writeConnected; sendToWithControl of a Listener    *)

rest == <<scenario, current, nextGen, closed, lifecycle, closeDone, calls>>

\* Admitted on the current generation; a reply path names the one it expects.
BeginSend(s, expected) ==
    /\ sends[s].pc = "idle"
    /\ ~closed /\ current # NoConn
    /\ Carrier => conns[current].alive
    /\ expected \in {0, conns[current].number}
    /\ conns' = [conns EXCEPT ![current].active = @ + 1]
    /\ \E pc \in {"admitted", "tooLong"} :
          sends' = [sends EXCEPT ![s] = [pc |-> pc, conn |-> current, callback |-> "none"]]
    /\ UNCHANGED rest

\* The payload is too long, or the write lock came after the context ended.
SendRejected(s) ==
    /\ \/ sends[s].pc = "tooLong"
       \/ sends[s].pc = "admitted" /\ conns[sends[s].conn].writer = Nobody
    /\ conns' = [conns EXCEPT ![sends[s].conn].active = @ - 1]
    /\ sends' = [sends EXCEPT ![s] = [pc |-> "idle", conn |-> NoConn, callback |-> "none"]]
    /\ UNCHANGED rest

\* Holding the write lock: set the deadline, if there is one, and arm the callback.
BeginWrite(s) ==
    /\ sends[s].pc = "admitted"
    /\ conns[sends[s].conn].writer = Nobody
    /\ \E timed \in BOOLEAN :
          conns' = [conns EXCEPT ![sends[s].conn].writer = s,
                                 ![sends[s].conn].deadline = timed \/ @]
    /\ sends' = [sends EXCEPT ![s].pc = "writing", ![s].callback = "armed"]
    /\ UNCHANGED rest

\* The context ends: its callback starts, and moves the deadline to now.
ContextEnds(s) ==
    /\ sends[s].callback = "armed"
    /\ sends' = [sends EXCEPT ![s].callback = "running"]
    /\ UNCHANGED <<conns, rest>>

Callback(s) ==
    /\ sends[s].callback = "running"
    /\ conns' = [conns EXCEPT ![sends[s].conn].deadline = TRUE]
    /\ sends' = [sends EXCEPT ![s].callback = "done"]
    /\ UNCHANGED rest

SocketWriteReturns(s) ==
    /\ sends[s].pc = "writing"
    /\ sends' = [sends EXCEPT ![s].pc = "written"]
    /\ UNCHANGED <<conns, rest>>

\* Stop the callback or wait for it, then reset the deadline.
SendReturns(s) ==
    /\ sends[s].pc = "written"
    /\ sends[s].callback # "running"
    /\ conns' = [conns EXCEPT ![sends[s].conn].deadline = FALSE,
                              ![sends[s].conn].writer = Nobody,
                              ![sends[s].conn].active = @ - 1]
    /\ sends' = [sends EXCEPT ![s] = [pc |-> "idle", conn |-> NoConn, callback |-> "none"]]
    /\ UNCHANGED rest

----------------------------------------------------------------------------
CallStep(t) ==
    \/ LockLifecycle(t) \/ DialFails(t) \/ Dialed(t) \/ Publish(t) \/ RebuildReturns(t)
    \/ Retire(t) \/ PassLifecycle(t) \/ CloseReturns(t)

SendStep(s) ==
    \/ SendRejected(s) \/ BeginWrite(s) \/ Callback(s) \/ SocketWriteReturns(s) \/ SendReturns(s)

SocketNext ==
    \/ \E t \in scenario.rebuilders : BeginRebuild(t)
    \/ \E t \in scenario.closers : BeginClose(t)
    \/ \E t \in Callers : CallStep(t)
    \/ \E c \in Conns : ReadLoop(c)
    \/ \E s \in scenario.senders, expected \in 0..nextGen : BeginSend(s, expected)
    \/ \E s \in scenario.senders : SendStep(s) \/ ContextEnds(s)

SocketSpec == SocketInit /\ [][SocketNext]_socketVars

\* Goroutines run; a dial, a write and a callback of the owner return (the
\* runtimes only try to enqueue), and a read of a closed socket does.
FairSocketSpec ==
    /\ SocketSpec
    /\ \A t \in Rebuilders \cup Closers : WF_socketVars(t \in Callers /\ CallStep(t))
    /\ \A s \in Senders : WF_socketVars(s \in scenario.senders /\ SendStep(s))
    /\ \A c \in 1..(1 + Cardinality(Rebuilders)) : WF_socketVars(c \in Conns /\ ReadLoop(c))

----------------------------------------------------------------------------
(* Properties                                                              *)

SocketTypeOK ==
    /\ current \in {NoConn} \cup Conns
    /\ nextGen \in 1..Len(conns)
    /\ \A c \in Conns : conns[c].active \in 0..(1 + Cardinality(scenario.senders))

\* Nothing of a socket goes on: no read, no callback or report, no send.
Silent(c) == ~conns[c].open /\ conns[c].loop \in {"none", "done"} /\ conns[c].active = 0

\* When a Rebuild has returned, every socket but the current one and the one
\* another Rebuild is dialling or retiring is silent; when a Close has
\* returned, the first or a concurrent one, every socket is, also one that was
\* being dialled when it began.  A send whose context ended under it leaves no
\* deadline behind for the next send on the socket.
ReturnedMeansSilent ==
    /\ SocketTypeOK
    /\ (\E t \in scenario.closers : calls[t].pc = "returned") => \A c \in Conns : Silent(c)
    /\ \A c \in Conns \ {current} :
          Silent(c) \/ \E t \in Callers : calls[t].conn = c /\ calls[t].pc # "returned"
    /\ \A c \in Conns : conns[c].writer = Nobody => ~conns[c].deadline

\* Every call of Rebuild and Close returns, whoever else waits for whom.
SocketCallsReturn ==
    \A t \in Rebuilders \cup Closers :
        (t \in Callers /\ calls[t].pc # "idle") ~> (t \in Callers /\ calls[t].pc = "returned")

\* A read error that ends the loop of the published generation is reported to
\* the owner, which rebuilds on it, unless a Rebuild or Close comes first.
FailureReported ==
    \A c \in 1..(1 + Cardinality(Rebuilders)) :
        (c \in Conns /\ conns[c].loop = "failed" /\ ~closed /\ current = c)
            ~> (closed \/ current # c \/ conns[c].reported)

=============================================================================
