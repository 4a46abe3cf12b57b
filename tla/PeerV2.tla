------------------------------- MODULE PeerV2 -------------------------------
(***************************************************************************)
(* The v2 Peer runtime (peer_v2.go, peer_v2_runtime.go,                    *)
(* peer_v2_session.go): one mutex around the handshake engine, the tables  *)
(* of Sessions and the Session controllers; a dispatcher goroutine that    *)
(* sleeps until a packet, a wake-up or the next deadline; and the          *)
(* goroutines of callers, which sleep outside the mutex in NewSession,     *)
(* WritePacket, Flush, CloseGracefully, ReadPacket, Accept and Close.      *)
(*                                                                         *)
(* A section under the mutex is one step.  The tables the mutex protects   *)
(* are kept by Session: the record sessions[s] says what the wrapper, the  *)
(* engine and every table of the Peer hold for s, and where the callers of *)
(* s are.  The operators below map one such record to the next as the      *)
(* methods do; a method that calls the engine handles the engine's result  *)
(* in the same section, and a loop over Sessions changes all of them in    *)
(* one step, each on its own.  The engine is what HandshakeV2 shows of it  *)
(* with one attempt per dial at a time, and a controller is reduced to how *)
(* far its send fence got and whether it has a path left; when the fence   *)
(* moves on is the subject of SendPipelineV2.                              *)
(*                                                                         *)
(* An outbound Session stands for its wrapper and its dial, an inbound one *)
(* for a SessionID of an initiator and the wrapper installed for it (once; *)
(* an initiator that comes back with the same ID is another element).  A   *)
(* route, like the attempt it belongs to, is a carrier; the listener       *)
(* socket is carrier 0.                                                    *)
(***************************************************************************)
EXTENDS Integers, FiniteSets

CONSTANTS
    Outbound, Inbound,
    NumCarriers,
    MaxPendingAccepts, DeliveryQueueCapacity,
    MaxWrites,          \* bound: Datagrams admitted per Session
    Scenarios

Sessions == Outbound \cup Inbound
Carriers == 1..NumCarriers

\* sessions: those that may exist; callers: which goroutines the user has;
\* fence: what the fence caller of a Session calls.
Scenario == [sessions : SUBSET Sessions,
             callers : SUBSET {"fence", "read", "close", "accept", "closeListener", "closePeer",
                               "parent"},
             fence : {"write", "async", "flush", "grace"}]

ASSUME ScenariosAssumption == Scenarios \subseteq Scenario
ASSUME SessionsAssumption == Outbound \cap Inbound = {}
ASSUME LimitsAssumption ==
    /\ NumCarriers \in Nat \ {0} /\ MaxPendingAccepts \in Nat \ {0}
    /\ DeliveryQueueCapacity \in Nat \ {0} /\ MaxWrites \in Nat

VARIABLES
    scenario,   \* fixed
    cutOff,     \* Sessions that lost all their sockets and do not know it
    sessions,   \* by Session: wrapper, attempt, tables and callers
    listener,   \* v2Listener
    peer,       \* v2Peer.closed and the Peer's context
    calls,      \* where Accept, Listener.Close and Peer.Close are
    overflow,   \* history: an established Session found no place on the Accept queue
    driver,     \* the dispatcher: "compute" the deadline, "select" or "stopped"
    armed,      \* whether its timer is set
    wake        \* the wake channel holds a token

vars == <<scenario, cutOff, sessions, listener, peer, calls, overflow, driver, armed, wake>>

Places == {"idle", "open", "opened", "failing", "check", "asleep", "waking", "closing",
           "cancelled", "joining", "done"}

\* v2Session, and what the tables hold for it.  paths are the carriers registered
\* with the wrapper (and in r.sockets), open the sockets that are open, next the
\* carrier its constructor is at; admitted, completed and frontier are the
\* controller's fence and the one the caller waits for; phase and carrier are the
\* engine's attempt; turn orders the Accept queue, 0 when the Session is not on it.
Session ==
    [made : BOOLEAN, closed : BOOLEAN, cancelled : BOOLEAN, controller : BOOLEAN,
     draining : BOOLEAN, accepted : BOOLEAN,
     paths : SUBSET Carriers, open : SUBSET Carriers, next : 1..(NumCarriers + 1),
     delivery : 0..DeliveryQueueCapacity,
     admitted : 0..MaxWrites, completed : 0..MaxWrites, frontier : 0..MaxWrites,
     phase : {"none", "pending", "established"}, carrier : 0..NumCarriers,
     routes : SUBSET (0..NumCarriers), dialing : BOOLEAN, established : BOOLEAN, turn : Nat,
     new : Places, fence : Places, read : Places, close : Places]

NoSession ==
    [made |-> FALSE, closed |-> FALSE, cancelled |-> FALSE, controller |-> FALSE,
     draining |-> FALSE, accepted |-> FALSE,
     paths |-> {}, open |-> {}, next |-> 1,
     delivery |-> 0, admitted |-> 0, completed |-> 0, frontier |-> 0,
     phase |-> "none", carrier |-> 0,
     routes |-> {}, dialing |-> FALSE, established |-> FALSE, turn |-> 0,
     new |-> "idle", fence |-> "idle", read |-> "idle", close |-> "idle"]

\* newV2Peer.
Init ==
    /\ scenario \in Scenarios /\ cutOff = {}
    /\ sessions = [s \in Sessions |-> NoSession]
    /\ listener = [cancelled |-> FALSE, closed |-> FALSE]
    /\ peer = [cancelled |-> FALSE, closed |-> FALSE]
    /\ calls = [accept |-> "idle", closeListener |-> "idle", closePeer |-> "idle"]
    /\ overflow = FALSE
    /\ driver = "compute" /\ armed = FALSE /\ wake = FALSE

----------------------------------------------------------------------------
(* Operations on a Session.                                                *)

\* The context of a Session descends from the Listener's or the Peer's.
ListenerDone == listener.cancelled \/ peer.cancelled
ParentDone(s) == peer.cancelled \/ (s \in Inbound /\ listener.cancelled)
ContextDone(s) == sessions[s].cancelled \/ ParentDone(s)

\* Close a channel that callers sleep on and make a new one.
Woken(place) == IF place = "asleep" THEN "check" ELSE place

\* Mutant: only the readers are told.
MutantNotifiesReaders(x) == [x EXCEPT !.read = Woken(@)]

\* v2Session.notify.
Notify(x) == [x EXCEPT !.fence = Woken(@), !.read = Woken(@)]

\* The engine drops the attempt or the Session; Failures and Closed drop its route.
Forget(x) == [x EXCEPT !.phase = "none", !.carrier = 0, !.routes = @ \ {x.carrier}]

\* v2Peer.dispose.
Dispose(x) ==
    IF ~x.made \/ x.closed THEN x ELSE
    Notify([x EXCEPT !.closed = TRUE, !.cancelled = TRUE, !.delivery = 0,
                     !.open = @ \ x.paths, !.paths = {},
                     !.established = FALSE, !.dialing = FALSE, !.routes = {}, !.turn = 0])

\* closeSession: CloseSession or CancelDial of the engine, then dispose.
CloseSession(x) == IF ~x.made \/ x.closed THEN x ELSE Dispose(Forget(x))

\* The carriers that may take the next HELLO of dial s, whose record is x, after
\* carrier c: a HELLO on a closed socket, or in a cancelled context, fails for
\* good.  0: the dial is over.
NextCarriers(s, x, c) == {0} \cup {n \in (c + 1)..NumCarriers : n \in x.open /\ ~ContextDone(s)}

\* startAttempt and emitBootstrap: the HELLO makes the route.
StartAttempt(x, n) == [x EXCEPT !.phase = "pending", !.carrier = n, !.routes = @ \cup {n}]

\* Mutant: an exhausted dial is reported and its Session left as it is.
MutantKeepsExhausted(x, n) ==
    IF n = 0 THEN Forget(x)
    ELSE [StartAttempt(Forget(x), n) EXCEPT !.open = @ \ ((x.carrier + 1)..(n - 1))]

\* An attempt of a dial failed.  fillDials goes on to carrier n; the carriers in
\* between failed their HELLO for good, which closes them (handleHandshake,
\* failCarrier).  Without a further attempt the Session is disposed of.
FallBack(x, n) ==
    IF n = 0 THEN Dispose(Forget(x))
    ELSE [StartAttempt(Forget(x), n) EXCEPT !.open = @ \ ((x.carrier + 1)..(n - 1))]

\* REJECT, CLOSE or the deadline ends an attempt.
EndAttempt(s, x, n) == IF s \in Outbound THEN FallBack(x, n) ELSE Forget(x)

\* What an operation of a controller did.  With no path left every one that drives
\* the sending half ends in ErrNoAvailablePaths.
Outcomes == {"quiet", "delivers", "completes", "terminal"}

FindsOut(s, outcome) == s \in cutOff => outcome = "terminal"

\* The Datagrams it delivered, if the queue has room, and the fence it reached.
Worked(x, outcome) ==
    [x EXCEPT
        !.delivery = IF outcome = "delivers" /\ @ < DeliveryQueueCapacity THEN @ + 1 ELSE @,
        !.completed = IF outcome = "completes" /\ @ < x.admitted THEN @ + 1 ELSE @]

\* handleSession.
HandleSession(x, outcome) ==
    LET told == Notify(Worked(x, outcome))
    IN  IF outcome = "terminal" THEN CloseSession(told) ELSE told

\* install, Controller.Start and what handleHandshake does with Established.
Install(x, outcome) ==
    HandleSession([x EXCEPT !.phase = "established", !.established = TRUE,
                            !.made = TRUE, !.controller = TRUE], outcome)

\* What closeListener does to an inbound Session: close it, end the attempt of a
\* listener route, and drop the Accept queue.
EndInbound(x) ==
    LET ended == CloseSession(x)
    IN  [IF 0 \in ended.routes THEN Forget(ended) ELSE ended EXCEPT !.turn = 0]

\* What closePeer does to a Session under the mutex: the engine is closed first.
Ended(s, x) ==
    LET disposed == Dispose([x EXCEPT !.phase = "none", !.carrier = 0])
        ended == IF s \in Inbound /\ ~listener.closed THEN EndInbound(disposed) ELSE disposed
    IN  [ended EXCEPT !.routes = {}]

\* closeListener.
CloseListener ==
    /\ listener' = [cancelled |-> TRUE, closed |-> TRUE]
    /\ sessions' = IF listener.closed THEN sessions
                   ELSE [s \in Sessions |->
                           IF s \in Inbound THEN EndInbound(sessions[s]) ELSE sessions[s]]

\* The Accept queue, and the ledger's count of pending accepts: from HELLO to
\* MarkAccepted or disposal.
Queue == {s \in Inbound : sessions[s].turn # 0}
Reserved == {s \in Inbound : sessions[s].phase # "none" /\ ~sessions[s].accepted}

\* nextDeadline: a pending attempt has one, and a controller with work left and a
\* path to send it on.
Work(x) == x.controller /\ ~x.closed /\ x.completed < x.admitted
HasDeadline ==
    \E s \in Sessions :
        sessions[s].phase = "pending" \/ (Work(sessions[s]) /\ s \notin cutOff)

----------------------------------------------------------------------------
(* The dispatcher.                                                         *)

ComputeDeadline ==
    /\ driver = "compute"
    /\ driver' = "select" /\ armed' = HasDeadline
    /\ UNCHANGED <<scenario, cutOff, sessions, listener, peer, calls, overflow, wake>>

TakeWake ==
    /\ wake /\ driver = "select"
    /\ wake' = FALSE /\ driver' = "compute" /\ armed' = FALSE
    /\ UNCHANGED <<scenario, cutOff, sessions, listener, peer, calls, overflow>>

Stop ==
    /\ peer.cancelled /\ driver = "select"
    /\ driver' = "stopped" /\ armed' = FALSE
    /\ UNCHANGED <<scenario, cutOff, sessions, listener, peer, calls, overflow, wake>>

\* The dispatcher takes an event; a closed Peer ignores it.
Turn ==
    /\ driver = "select"
    /\ driver' = "compute" /\ armed' = FALSE
    /\ UNCHANGED <<scenario, cutOff, peer, wake>>
Serve(new) == Turn /\ sessions' = IF peer.closed THEN sessions ELSE new

\* An event of Session s, which becomes x.
ServeOne(s, x) ==
    Serve([sessions EXCEPT ![s] = x]) /\ UNCHANGED <<listener, calls, overflow>>

ListenerFails ==
    ~listener.closed /\ Turn /\ CloseListener /\ UNCHANGED <<calls, overflow>>

\* The engine's receiveHello.  A HELLO for an expired attempt fails it and opens
\* a new one in the same call, and the reported Failure then takes the route of
\* the new one, which has the same SessionID.
ReceiveHello(s, expired) ==
    LET x == sessions[s]
        room == Cardinality(Reserved \ {s}) < MaxPendingAccepts
    IN  /\ s \in Inbound /\ ~listener.closed /\ x.phase # "established" /\ ~x.made
        /\ expired => x.phase = "pending"
        /\ x.phase = "none" => room
        /\ ServeOne(s, IF expired THEN [x EXCEPT !.routes = @ \ {0}] ELSE StartAttempt(x, 0))

\* handleHandshake offers the installed Session x to Accept, or finds no room.
Offer(s, x) ==
    LET fits == Cardinality(Queue) < MaxPendingAccepts
        last == Cardinality({t \in Inbound : sessions[t].controller})
    IN  /\ Serve([sessions EXCEPT ![s] = IF x.closed THEN x
                                         ELSE IF fits THEN [x EXCEPT !.turn = last + 1]
                                         ELSE CloseSession(x)])
        /\ calls' = [calls EXCEPT !.accept = IF ~x.closed /\ fits THEN Woken(@) ELSE @]
        /\ overflow' = (overflow \/ (~x.closed /\ ~fits))
        /\ UNCHANGED listener

\* FINISH: sessionv2.New refuses a Session without a bootstrap path.
ReceiveFinish(s, outcome) ==
    LET x == sessions[s]
    IN  /\ s \in Inbound /\ ~listener.closed /\ x.phase = "pending"
        /\ outcome \in {"quiet", "terminal"}
        /\ IF ListenerDone \/ 0 \notin x.routes
           THEN outcome = "quiet" /\ ServeOne(s, Forget(x))
           ELSE Offer(s, Install(x, outcome))

ReceiveReady(s, outcome, n) ==
    LET x == sessions[s]
    IN  /\ s \in Outbound /\ x.phase = "pending"
        /\ outcome \in {"quiet", "terminal"}
        /\ n \in NextCarriers(s, x, x.carrier)
        /\ IF x.dialing /\ ~x.closed
           THEN n = 0 /\ ServeOne(s, Install(x, outcome))
           ELSE ServeOne(s, FallBack(x, n))

AttemptEnds(s, n) ==
    LET x == sessions[s]
    IN  /\ x.phase = "pending" /\ n \in NextCarriers(s, x, x.carrier)
        /\ ServeOne(s, EndAttempt(s, x, n))

ReceiveClose(s) ==
    /\ sessions[s].phase = "established" /\ (s \in Inbound => ~listener.closed)
    /\ ServeOne(s, Dispose(Forget(sessions[s])))

\* The packets of a lost socket are discarded.
ReceiveData(s, outcome) ==
    /\ s \notin cutOff
    /\ sessions[s].established /\ ~sessions[s].closed /\ (s \in Inbound => ~listener.closed)
    /\ ServeOne(s, HandleSession(sessions[s], outcome))

\* The last sockets of a Session fail, and enqueue finds no place for the reports.
ReportsDropped(s) ==
    /\ s \in Outbound \ cutOff /\ sessions[s].controller /\ ~sessions[s].closed
    /\ cutOff' = cutOff \cup {s}
    /\ UNCHANGED <<scenario, sessions, listener, peer, calls, overflow, driver, armed, wake>>

\* failCarrier, from the read loop of a socket.
CarrierFails(s, c, outcome, n) ==
    LET x == sessions[s]
        shut == [x EXCEPT !.open = @ \ {c}]
    IN  /\ s \in Outbound /\ c \in x.paths /\ ~x.closed /\ c \in x.open
        /\ outcome \in {"quiet", "terminal"} /\ FindsOut(s, outcome)
        /\ CASE x.controller -> n = 0 /\ ServeOne(s, HandleSession(shut, outcome))
             [] ~x.controller /\ c \in x.routes ->
                  outcome = "quiet" /\ n \in NextCarriers(s, shut, c) /\ ServeOne(s, FallBack(shut, n))
             [] ~x.controller /\ c \notin x.routes ->
                  outcome = "quiet" /\ n = 0 /\ ServeOne(s, shut)

\* The timer: Engine.Advance ends the attempts in ends, each of which goes on
\* to the carrier next says, and every controller advances.
Advanced(x, outcome) == IF x.controller /\ ~x.closed THEN HandleSession(x, outcome) ELSE x
TimerFires(ends, next, outcome) ==
    /\ armed
    /\ \A s \in Sessions : FindsOut(s, outcome[s])
    /\ \A s \in ends : /\ sessions[s].phase = "pending"
                       /\ next[s] \in NextCarriers(s, sessions[s], sessions[s].carrier)
    /\ Serve([s \in Sessions |->
                 Advanced(IF s \in ends THEN EndAttempt(s, sessions[s], next[s]) ELSE sessions[s],
                          outcome[s])])
    /\ UNCHANGED <<listener, calls, overflow>>

----------------------------------------------------------------------------
(* Callers.                                                                *)

\* A caller of Session s acts: s becomes x.  Afterwards it may wake the dispatcher.
Acts(s, x) ==
    /\ sessions' = [sessions EXCEPT ![s] = x]
    /\ UNCHANGED <<scenario, cutOff, listener, peer, calls, overflow, driver, armed>>
Locked(s, x) == Acts(s, x) /\ UNCHANGED wake
Caller(name) == name \in scenario.callers

\* Mutant: the call returns without waking the dispatcher.
MutantNoWake(place, s, x) == place = "waking" /\ Locked(s, x)

\* wakeDriver, after the mutex is released.
WakeDriver(place, s, x) == place = "waking" /\ Acts(s, x) /\ wake' = TRUE

\* newSession.
NewSession(s) ==
    /\ sessions[s].new = "idle" /\ s \in Outbound /\ ~peer.closed /\ ~peer.cancelled
    /\ Locked(s, [sessions[s] EXCEPT !.made = TRUE, !.new = "open"])

\* openCarrier, outside the mutex.
OpenCarrier(s, ok) ==
    LET x == sessions[s]
    IN  /\ x.new = "open" /\ x.next <= NumCarriers
        /\ Locked(s, IF ok THEN [x EXCEPT !.open = @ \cup {x.next}, !.new = "opened"]
                     ELSE [x EXCEPT !.new = "failing"])

\* Mutant: the constructor registers its carrier without looking again.
MutantRegistersBlindly(s) ==
    LET x == sessions[s]
    IN  /\ x.new = "opened"
        /\ Locked(s, [x EXCEPT !.paths = @ \cup {x.next}, !.next = @ + 1, !.new = "open"])

RegisterCarrier(s) ==
    LET x == sessions[s]
    IN  /\ x.new = "opened"
        /\ Locked(s, IF x.closed \/ peer.closed \/ ContextDone(s)
                     THEN [x EXCEPT !.open = @ \ {x.next}, !.new = "failing"]
                     ELSE [x EXCEPT !.paths = @ \cup {x.next}, !.next = @ + 1, !.new = "open"])

BeginDial(s, n, started) ==
    LET x == sessions[s]
    IN  /\ x.new = "open" /\ x.next > NumCarriers
        /\ n \in NextCarriers(s, x, 0)
        /\ started \/ n = 0
        /\ Locked(s, IF ContextDone(s) \/ x.closed \/ ~started THEN [x EXCEPT !.new = "failing"]
                     ELSE FallBack([x EXCEPT !.dialing = TRUE, !.new = "waking"], n))

NewSessionReturns(s) == WakeDriver(sessions[s].new, s, [sessions[s] EXCEPT !.new = "done"])

NewSessionFails(s) ==
    /\ sessions[s].new = "failing"
    /\ Locked(s, Dispose([sessions[s] EXCEPT !.new = "done"]))

\* The user holds the Session: NewSession or Accept returned it.
Held(s) == IF s \in Outbound THEN sessions[s].new = "done" ELSE sessions[s].accepted

\* WritePacket, Flush and CloseGracefully.
Returned == IF scenario.fence = "grace" THEN "closing" ELSE "idle"
Kind(k) == scenario.fence \in k

\* A Write the controller refuses, not ready, without a path or short of storage,
\* has receipt 0.
FenceCall(s, outcome, refused) ==
    LET x == sessions[s]
        writes == Kind({"write", "async"})
        stopped == [x EXCEPT !.draining = @ \/ Kind({"grace"})]
        admitted == [stopped EXCEPT !.admitted = IF writes /\ ~refused THEN @ + 1 ELSE @]
        fenced == [admitted EXCEPT !.frontier = IF refused THEN 0 ELSE admitted.admitted,
                                   !.fence = "waking"]
    IN  /\ Caller("fence") /\ x.fence = "idle" /\ Held(s)
        /\ ~x.closed /\ ~x.draining /\ ~ContextDone(s)
        /\ refused => writes /\ x.controller
        /\ writes /\ x.controller /\ ~refused => x.admitted < MaxWrites /\ s \notin cutOff
        /\ outcome # "delivers" /\ (refused => outcome # "completes")
        /\ FindsOut(s, outcome)
        /\ Locked(s, IF x.controller THEN HandleSession(fenced, outcome)
                     ELSE [stopped EXCEPT !.fence = Returned])

\* Only a Write with a receipt waits for it, and only without aggregation.
Waits(x) == Kind({"flush", "grace"}) \/ (Kind({"write"}) /\ x.frontier # 0)
FenceWakesDriver(s) ==
    LET x == sessions[s]
    IN  WakeDriver(x.fence, s, [x EXCEPT !.fence = IF Waits(x) THEN "check" ELSE "idle"])

\* waitFence under the mutex.
CheckFence(s) ==
    LET x == sessions[s]
        over == x.closed \/ ~x.controller \/ ContextDone(s) \/ x.completed >= x.frontier
    IN  /\ x.fence = "check"
        /\ Locked(s, [x EXCEPT !.fence = IF over THEN Returned ELSE "asleep"])

\* The Session's context ends the sleep; the caller's own context ends the call.
FenceInterrupted(s) ==
    /\ sessions[s].fence = "asleep" /\ ContextDone(s)
    /\ Locked(s, [sessions[s] EXCEPT !.fence = "check"])
FenceTimesOut(s) ==
    /\ sessions[s].fence = "asleep" /\ Kind({"flush", "grace"})
    /\ Locked(s, [sessions[s] EXCEPT !.fence = Returned])

\* v2Session.Close: cancel before the mutex, then close and wake the dispatcher.
Cancel(s, x) == Locked(s, [x EXCEPT !.cancelled = TRUE])
CloseLocked(s, x) == Acts(s, CloseSession(x)) /\ wake' = TRUE

GraceCloses(s) ==
    sessions[s].fence = "closing" /\ Cancel(s, [sessions[s] EXCEPT !.fence = "cancelled"])
GraceClosed(s) ==
    sessions[s].fence = "cancelled" /\ CloseLocked(s, [sessions[s] EXCEPT !.fence = "done"])
CloseCall(s) ==
    /\ Caller("close") /\ sessions[s].close = "idle" /\ Held(s)
    /\ Cancel(s, [sessions[s] EXCEPT !.close = "cancelled"])
CloseReturns(s) ==
    sessions[s].close = "cancelled" /\ CloseLocked(s, [sessions[s] EXCEPT !.close = "done"])

\* ReadPacket.
ReadCall(s) ==
    /\ Caller("read") /\ sessions[s].read = "idle" /\ Held(s)
    /\ Locked(s, [sessions[s] EXCEPT !.read = "check"])

CheckDelivery(s) ==
    LET x == sessions[s]
    IN  /\ x.read = "check"
        /\ Locked(s, IF x.closed \/ ContextDone(s) THEN [x EXCEPT !.read = "idle"]
                     ELSE IF x.delivery > 0 THEN [x EXCEPT !.delivery = @ - 1, !.read = "waking"]
                     ELSE [x EXCEPT !.read = "asleep"])

ReadWakesDriver(s) == WakeDriver(sessions[s].read, s, [sessions[s] EXCEPT !.read = "idle"])
ReadInterrupted(s) ==
    /\ sessions[s].read = "asleep" /\ ContextDone(s)
    /\ Locked(s, [sessions[s] EXCEPT !.read = "idle"])

\* A call on the Listener or the Peer goes on to place.
AcceptAt(place) ==
    /\ calls' = [calls EXCEPT !.accept = place]
    /\ UNCHANGED <<scenario, cutOff, listener, peer, overflow, driver, armed, wake>>

\* v2Listener.Accept.
AcceptCall ==
    Caller("accept") /\ calls.accept = "idle" /\ AcceptAt("check") /\ UNCHANGED sessions

AcceptRefused == listener.closed \/ peer.closed \/ ListenerDone
AcceptEnds ==
    /\ calls.accept = "check" /\ (AcceptRefused \/ Queue = {})
    /\ AcceptAt(IF AcceptRefused THEN "idle" ELSE "asleep")
    /\ UNCHANGED sessions

\* The first Session on the queue; one that is closed is passed over.
AcceptTakes(s) ==
    LET x == sessions[s]
    IN  /\ calls.accept = "check" /\ ~AcceptRefused
        /\ s \in Queue /\ \A t \in Queue : x.turn <= sessions[t].turn
        /\ AcceptAt(IF x.closed THEN "check" ELSE "idle")
        /\ sessions' = [sessions EXCEPT ![s] =
                          [x EXCEPT !.turn = 0, !.accepted = @ \/ ~x.closed]]

CheckAccept == AcceptEnds \/ \E s \in Inbound : AcceptTakes(s)

\* The Listener's context or the caller's.
AcceptReturns == calls.accept = "asleep" /\ AcceptAt("idle") /\ UNCHANGED sessions

\* v2Listener.Close.
CancelListener ==
    /\ Caller("closeListener") /\ calls.closeListener = "idle"
    /\ listener' = [listener EXCEPT !.cancelled = TRUE]
    /\ calls' = [calls EXCEPT !.closeListener = "cancelled"]
    /\ UNCHANGED <<scenario, cutOff, sessions, peer, overflow, driver, armed, wake>>
ListenerCloses ==
    /\ calls.closeListener = "cancelled"
    /\ CloseListener
    /\ calls' = [calls EXCEPT !.closeListener = "done"]
    /\ UNCHANGED <<scenario, cutOff, peer, overflow, driver, armed, wake>>

\* The context given to NewPeerContext is cancelled, with or without a Close.
CancelParent ==
    /\ Caller("parent") /\ ~peer.cancelled
    /\ peer' = [peer EXCEPT !.cancelled = TRUE]
    /\ UNCHANGED <<scenario, cutOff, sessions, listener, calls, overflow, driver, armed, wake>>

\* closePeer.
CancelPeer ==
    /\ Caller("closePeer") /\ calls.closePeer = "idle"
    /\ peer' = [peer EXCEPT !.cancelled = TRUE]
    /\ calls' = [calls EXCEPT !.closePeer = "cancelled"]
    /\ UNCHANGED <<scenario, cutOff, sessions, listener, overflow, driver, armed, wake>>
PeerCloses ==
    /\ calls.closePeer = "cancelled"
    /\ peer' = [peer EXCEPT !.closed = TRUE]
    /\ sessions' = [s \in Sessions |-> Ended(s, sessions[s])]
    /\ listener' = [cancelled |-> TRUE, closed |-> TRUE]
    /\ calls' = [calls EXCEPT !.closePeer = "joining"]
    /\ UNCHANGED <<scenario, cutOff, overflow, driver, armed, wake>>
Constructing(s) == sessions[s].new \notin {"idle", "done"}
PeerClosed ==
    /\ calls.closePeer = "joining"
    /\ driver = "stopped" /\ ~\E s \in Outbound : Constructing(s)
    /\ calls' = [calls EXCEPT !.closePeer = "done"]
    /\ UNCHANGED <<scenario, cutOff, sessions, listener, peer, overflow, driver, armed, wake>>

----------------------------------------------------------------------------

Dispatch ==
    \/ ComputeDeadline \/ TakeWake \/ Stop \/ ListenerFails
    \/ \E s \in scenario.sessions :
         \/ ReceiveClose(s) \/ ReportsDropped(s)
         \/ \E expired \in BOOLEAN : ReceiveHello(s, expired)
         \/ \E n \in 0..NumCarriers : AttemptEnds(s, n)
         \/ \E outcome \in Outcomes :
              \/ ReceiveFinish(s, outcome)
              \/ ReceiveData(s, outcome)
              \/ \E n \in 0..NumCarriers :
                   \/ ReceiveReady(s, outcome, n)
                   \/ \E c \in Carriers : CarrierFails(s, c, outcome, n)
    \/ \E ends \in SUBSET scenario.sessions :
         \E next \in [ends -> 0..NumCarriers], outcome \in [Sessions -> Outcomes] :
            TimerFires(ends, next, outcome)

Construct(s) ==
    \/ \E ok \in BOOLEAN : OpenCarrier(s, ok)
    \/ RegisterCarrier(s)
    \/ \E n \in 0..NumCarriers, started \in BOOLEAN : BeginDial(s, n, started)
    \/ NewSessionReturns(s) \/ NewSessionFails(s)

FenceProceeds(s) ==
    FenceWakesDriver(s) \/ CheckFence(s) \/ FenceInterrupted(s) \/ GraceCloses(s) \/ GraceClosed(s)
ReadProceeds(s) == CheckDelivery(s) \/ ReadWakesDriver(s) \/ ReadInterrupted(s)

SessionCalls(s) ==
    \/ NewSession(s) \/ Construct(s)
    \/ \E outcome \in Outcomes, refused \in BOOLEAN : FenceCall(s, outcome, refused)
    \/ FenceProceeds(s) \/ FenceTimesOut(s)
    \/ CloseCall(s) \/ CloseReturns(s)
    \/ ReadCall(s) \/ ReadProceeds(s)

PeerCalls ==
    \/ AcceptCall \/ CheckAccept \/ AcceptReturns
    \/ CancelListener \/ ListenerCloses
    \/ CancelParent \/ CancelPeer \/ PeerCloses \/ PeerClosed

Next == Dispatch \/ (\E s \in scenario.sessions : SessionCalls(s)) \/ PeerCalls

(***************************************************************************)
(* Fairness.  The mutex is handed on, a started call goes on when it can,  *)
(* and openCarrier has a timeout.  select takes a wake-up or the end of    *)
(* the context that is ready again and again.  Nothing is assumed of the   *)
(* timer and the controllers it advances: see TimerServes.                 *)
(***************************************************************************)
\* When the step that each kind of call makes next is possible.
Busy(s, place) ==
    /\ s \in scenario.sessions
    /\ place \notin {"idle", "done"} /\ (place = "asleep" => ContextDone(s))
AcceptBusy == calls.accept = "check" \/ (calls.accept = "asleep" /\ ListenerDone)
AcceptProceeds == CheckAccept \/ AcceptReturns

\* Weak fairness of the goroutines; strong fairness of the cases of select.
Fairness ==
    /\ []<>(driver # "compute") \/ []<><<ComputeDeadline>>_vars
    /\ <>[]~(wake /\ driver = "select") \/ []<><<TakeWake>>_vars
    /\ <>[]~(peer.cancelled /\ driver = "select") \/ []<><<Stop>>_vars
    /\ []<>(calls.closePeer # "cancelled") \/ []<><<PeerCloses>>_vars
    /\ WF_vars(PeerClosed)
    /\ []<>(calls.closeListener # "cancelled") \/ []<><<ListenerCloses>>_vars
    /\ []<>~AcceptBusy \/ []<><<AcceptProceeds>>_vars
    /\ \A s \in Sessions :
         /\ []<>~Busy(s, sessions[s].new) \/ []<><<Construct(s)>>_vars
         /\ []<>~Busy(s, sessions[s].fence) \/ []<><<FenceProceeds(s)>>_vars
         /\ []<>~Busy(s, sessions[s].read) \/ []<><<ReadProceeds(s)>>_vars
         /\ []<>~Busy(s, sessions[s].close) \/ []<><<CloseReturns(s)>>_vars

Spec == Init /\ [][Next]_vars
FairSpec == Spec /\ Fairness

----------------------------------------------------------------------------
(* Properties.                                                             *)

TypeOK ==
    /\ scenario \in Scenarios /\ cutOff \subseteq Sessions
    /\ sessions \in [Sessions -> Session]
    /\ listener \in [cancelled : BOOLEAN, closed : BOOLEAN]
    /\ peer \in [cancelled : BOOLEAN, closed : BOOLEAN]
    /\ calls \in [accept : Places, closeListener : Places, closePeer : Places]
    /\ overflow \in BOOLEAN
    /\ driver \in {"compute", "select", "stopped"} /\ armed \in BOOLEAN /\ wake \in BOOLEAN

\* A Session that is closed, by its user, its remote, a failed handshake, the
\* Listener or the Peer and at any point of its construction, is in no table, has no
\* attempt left in the engine, no place on the Accept queue and no open socket but
\* the one its constructor has opened and will find it must close; after Listener.Close
\* no inbound Session is open, and after Peer.Close nothing is left at all.
ClosedHoldsNothing ==
    /\ TypeOK
    /\ \A s \in Sessions : sessions[s].closed =>
         LET x == sessions[s]
         IN  /\ ~x.established /\ ~x.dialing /\ x.turn = 0
             /\ x.phase = "none" /\ x.routes = {}
             /\ x.delivery = 0 /\ x.paths = {}
             /\ x.open \subseteq (IF x.new = "opened" THEN {x.next} ELSE {})
    /\ listener.closed => \A s \in Inbound : ~sessions[s].made \/ sessions[s].closed
    /\ calls.closePeer = "done" =>
         /\ driver = "stopped"
         /\ \A s \in Sessions :
              LET x == sessions[s]
              IN  x.open = {} /\ x.phase = "none" /\ x.routes = {} /\ (x.made => x.closed)

\* An outbound Session that is neither closed nor established has a live attempt,
\* with the route its packets need, once NewSession has handed it over: every failed
\* attempt either led to the next carrier or closed the Session.  An established
\* inbound Session always finds room on the Accept queue: the place was reserved
\* with its HELLO, and closed Sessions do not occupy places.  And no route outlives
\* the attempt or the Session it was made for.
NothingStranded ==
    /\ \A s \in Outbound :
         LET x == sessions[s]
         IN  x.made /\ ~x.closed /\ ~x.controller /\ x.new \in {"waking", "done"}
             => x.phase = "pending" /\ x.carrier \in x.routes /\ x.dialing
    /\ \A s \in Sessions : \A c \in sessions[s].routes :
         sessions[s].phase # "none" /\ sessions[s].carrier = c
    /\ ~overflow

\* Nobody sleeps on what has already happened: a fence waiter whose fence is
\* complete, a reader with a Datagram queued and an acceptor with a Session queued
\* have been woken or have a cancelled context, and a dispatcher without a timer has no
\* deadline to meet unless a wake-up is there or a caller is about to send one.
NoLostWakeup ==
    /\ \A s \in Sessions :
         LET x == sessions[s]
         IN  /\ x.fence = "asleep" => x.completed < x.frontier \/ ContextDone(s)
             /\ x.read = "asleep" => x.delivery = 0 \/ ContextDone(s)
    /\ calls.accept = "asleep" => Queue = {} \/ ListenerDone
    /\ driver = "select" /\ ~armed /\ HasDeadline =>
         wake \/ \E s \in Sessions : "waking" \in {sessions[s].new, sessions[s].fence, sessions[s].read}

\* The timer serves s if, being armed again and again while s has work left, it again
\* and again gets to an Advance that completes something or finds the paths gone.
\* Neither Go's select nor a controller short of storage or paced guarantees it.
Serves(s) ==
    \E outcome \in [Sessions -> Outcomes] :
        outcome[s] \in {"completes", "terminal"} /\ TimerFires({}, <<>>, outcome)
TimerServes(s) == <>[]~(armed /\ Work(sessions[s])) \/ []<><<Serves(s)>>_vars

\* The Session has lost its sockets, the reports were dropped and nothing makes the
\* dispatcher look at it: WritePacket, which has no context, then waits for Close.
Forgotten(s) == s \in cutOff /\ ~sessions[s].closed /\ ~armed

\* Every call returns: NewSession and the Closes whatever happens, ReadPacket once its
\* Session is closed, Accept once the Listener is, and the fence calls if the timer
\* serves their Session, unless it stays forgotten.  The wake-ups see to it that the
\* timer is armed and that nobody sleeps through its own end.
CallsReturn ==
    /\ \A s \in Sessions :
         /\ sessions[s].new \notin {"idle", "done"} ~> sessions[s].new \in {"idle", "done"}
         /\ TimerServes(s) =>
              (sessions[s].fence \notin {"idle", "done"}
                 ~> (sessions[s].fence \in {"idle", "done"} \/ []Forgotten(s)))
         /\ sessions[s].close # "idle" ~> sessions[s].close = "done"
         /\ sessions[s].read # "idle" /\ sessions[s].closed ~> sessions[s].read = "idle"
    /\ calls.closeListener # "idle" ~> calls.closeListener = "done"
    /\ calls.closePeer # "idle" ~> calls.closePeer = "done"
    /\ calls.accept # "idle" /\ listener.closed ~> calls.accept = "idle"
=============================================================================
