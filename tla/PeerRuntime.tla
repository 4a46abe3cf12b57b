---------------------------- MODULE PeerRuntime ----------------------------
(***************************************************************************)
(* The runtime of one v1 Peer: the two Session tables, who closes what,    *)
(* and in which order (peer_runtime.go, peer.go, and the Session registry  *)
(* of internal/session/listener.go).                                       *)
(*                                                                         *)
(* An inbound Session is two objects: the controller, made by the registry *)
(* for a HELLO, and the public wrapper, made by the dispatcher afterwards. *)
(* Each lives in a table of its own, under a lock of its own.  A wrapper   *)
(* is only ever made for a new controller, so both carry one number here:  *)
(* wrapper s wraps controller s.  Outbound Sessions have a wrapper first   *)
(* and get their carriers and their controller one by one.                 *)
(*                                                                         *)
(* The goroutines are the dispatcher, the callers of WritePacket, Accept   *)
(* and Close, and one constructor per outbound Session.  Every Close is a  *)
(* sync.Once: its body runs once, whoever came first, and all others wait, *)
(* so the progress of a Close is state of the thing that is being closed.  *)
(***************************************************************************)
EXTENDS Integers, Sequences, FiniteSets

CONSTANTS
    NumIDs,          \* bound: wire Session IDs of inbound Sessions
    MaxInbound,      \* bound: controllers ever made for a HELLO
    MaxOutbound,     \* bound: outbound Sessions ever constructed
    Carriers,        \* carriers of an outbound Session
    AcceptCapacity,  \* capacity of the Accept queue
    Scenarios        \* maxSessions is Limits.MaxSessions, inbound and outbound how many
                     \* controllers HELLOs make and how often NewSession is called, ids
                     \* the number of wire IDs in use, parent whether the parent context
                     \* may be cancelled

ASSUME BoundsAssumption ==
    MaxInbound \in Nat \ {0} /\ MaxOutbound \in Nat /\ Carriers \in Nat \ {0}
ASSUME LimitsAssumption ==
    /\ AcceptCapacity \in Nat \ {0}
    /\ Scenarios \subseteq
           [maxSessions : Nat \ {0}, inbound : 0..MaxInbound, outbound : 0..MaxOutbound,
            ids : 1..NumIDs, parent : BOOLEAN]
ASSUME IDsAssumption == NumIDs \in Nat \ {0}

IDs      == 1..NumIDs
Inbound  == 1..MaxInbound
Outbound == (MaxInbound + 1)..(MaxInbound + MaxOutbound)
Sessions == Inbound \cup Outbound
None     == 0

VARIABLES
    scenario,    \* never changes
    parentDone,  \* the context given to NewPeerContext is cancelled
    \* the registry (session.Listener)
    registry,    \* wire ID -> its controller, or None
    regClosed,
    wireID,      \* the wire ID of every controller made so far (a sequence)
    \* the controllers (session.Session)
    controller,  \* "none", "open", "closed"
    ctlClose,    \* its Close: "idle", "marked" (state is Closed), "done"
    \* the wrappers (Peer's own Sessions)
    inbound,     \* Peer.inbound: wire ID -> wrapper, or None
    sessions,    \* Peer.sessions, inbound and outbound
    closed,      \* wrappers whose closed flag is set
    owner,       \* who may call removeSession: "held" until someone takes it
    wrapClose,   \* its Close: "idle", "waiting" (for initDone), "taken", "done"
    timedOut,    \* wrappers whose Close stopped waiting for initDone
    write,       \* a WritePacket call: "none", "begun", "sending"
    \* construction of outbound Sessions
    construct,
    held,        \* carriers the wrapper holds
    sockets,     \* carriers that are open
    \* the public Listener and the Peer
    accept,      \* the Accept queue
    offers,      \* history: how often a wrapper was put into it
    handed,      \* wrappers Accept has returned
    listenerDone,
    listener,    \* Listener.Close: where it is, what is left to close, what it waits for
    peer,        \* Peer.Close: likewise
    dispatcher   \* where the dispatcher is, and its controller and wrapper

registryVars == <<registry, regClosed, wireID>>
constructVars == <<construct, held, sockets>>
acceptVars == <<accept, offers, handed>>
closeVars == <<closed, owner, wrapClose, timedOut>>
controllerVars == <<controller, ctlClose>>
tableVars == <<inbound, sessions>>
ownerVars == <<listenerDone, listener, peer>>
vars == <<registryVars, controllerVars, tableVars, closeVars, write,
          constructVars, acceptVars, ownerVars, dispatcher>>

Idle == [at |-> "idle", ctl |-> None, wrap |-> None]
At(place, c, s) == [at |-> place, ctl |-> c, wrap |-> s]

Init ==
    /\ scenario \in Scenarios
    /\ parentDone = FALSE
    /\ registry = [id \in IDs |-> None]
    /\ regClosed = FALSE
    /\ wireID = <<>>
    /\ controller = [s \in Sessions |-> "none"]
    /\ ctlClose = [s \in Sessions |-> "idle"]
    /\ inbound = [id \in IDs |-> None]
    /\ sessions = {}
    /\ closed = {}
    /\ owner = [s \in Sessions |-> "held"]
    /\ wrapClose = [s \in Sessions |-> "idle"]
    /\ timedOut = {}
    /\ write = [s \in Sessions |-> "none"]
    /\ construct = [s \in Outbound |-> "none"]
    /\ held = [s \in Outbound |-> 0]
    /\ sockets = [s \in Outbound |-> {}]
    /\ accept = <<>>
    /\ offers = [s \in Inbound |-> 0]
    /\ handed = {}
    /\ listenerDone = FALSE
    /\ listener = [at |-> "open", left |-> {}, cur |-> None]
    /\ peer = [at |-> "open", left |-> {}, cur |-> None]
    /\ dispatcher = Idle

----------------------------------------------------------------------------
(* Shared steps                                                            *)

PeerClosed == peer.at # "open"
Cancelled  == parentDone \/ peer.at \notin {"open", "signalling"}

Registered == {registry[id] : id \in IDs} \ {None}

\* Listener.removeSession: only if the ID still names this controller.
WithoutController(c) ==
    [id \in IDs |-> IF registry[id] = c THEN None ELSE registry[id]]

\* The first half of Session.Close, at most once per controller.
StartControllerClose(c) ==
    /\ ctlClose[c] = "idle"
    /\ controller' = [controller EXCEPT ![c] = "closed"]
    /\ ctlClose' = [ctlClose EXCEPT ![c] = "marked"]

\* The first step of closeWithContext: run the Once, set the flag.
StartWrapperClose(s) ==
    /\ wrapClose[s] = "idle"
    /\ closed' = closed \cup {s}
    /\ wrapClose' = [wrapClose EXCEPT ![s] = "waiting"]

\* A wrapper the application holds.
InUse(s) == s \in handed \/ (s \in Outbound /\ construct[s] = "ready")

InitDone(s) ==
    s \in Outbound => construct[s] \in {"ready", "failed", "undoing", "gone"}

----------------------------------------------------------------------------
(* Session.Close of a controller: mark, wait for the operations in flight,  *)
(* send CLOSE, leave the registry.                                          *)

ControllerActive(c) ==
    \/ write[c] = "sending"
    \/ dispatcher.at \in {"acking", "answering", "sending"} /\ dispatcher.ctl = c
    \/ c \in Outbound /\ construct[c] = "starting"

\* Mutant: Close does not wait for the operations in flight.
MutantCloseDoesNotWait(c) == TRUE

Drained(c) == ~ControllerActive(c)

NotifyClosed(c) == WithoutController(c)

FinishControllerClose(c) ==
    /\ ctlClose[c] = "marked"
    /\ Drained(c)
    /\ ctlClose' = [ctlClose EXCEPT ![c] = "done"]
    /\ registry' = NotifyClosed(c)
    /\ UNCHANGED <<regClosed, wireID, controller, tableVars, closeVars, write,
                   constructVars, acceptVars, ownerVars, dispatcher>>

----------------------------------------------------------------------------
(* closeWithContext of a wrapper, after its first step                      *)

\* Wait for initDone or the close timeout, then take controller and owner.
TakeOwner(s) ==
    /\ wrapClose[s] = "waiting"
    /\ \/ InitDone(s) /\ UNCHANGED timedOut
       \/ ~InitDone(s) /\ timedOut' = timedOut \cup {s}
    /\ wrapClose' = [wrapClose EXCEPT ![s] = "taken"]
    /\ owner' = [owner EXCEPT ![s] = IF @ = "held" THEN "closer" ELSE @]
    /\ UNCHANGED <<registryVars, controllerVars, tableVars, closed, write,
                   constructVars, acceptVars, ownerVars, dispatcher>>

CloseController(s) ==
    /\ wrapClose[s] = "taken"
    /\ controller[s] # "none"
    /\ StartControllerClose(s)
    /\ UNCHANGED <<registryVars, tableVars, closeVars, write,
                   constructVars, acceptVars, ownerVars, dispatcher>>

\* Mutant: the wrapper is not taken out of Peer.inbound.
MutantLeavesInbound(s) == inbound

\* Peer.removeSession, on the table of inbound wrappers.
RemoveInbound(s) == [id \in IDs |-> IF inbound[id] = s THEN None ELSE inbound[id]]

RemoveSession(s) ==
    /\ sessions' = sessions \ {s}
    /\ inbound' = RemoveInbound(s)

\* Mutant: the carriers are left to the garbage collector.
MutantCarriersStayOpen(s) == sockets

CloseCarriers(s) ==
    IF s \in Outbound THEN [sockets EXCEPT ![s] = @ \ (1..held[s])] ELSE sockets

\* Mutant: the dispatcher ends its operation only after the close it asks for.
MutantDispatcherStillActive(s) ==
    /\ write[s] = "none"
    /\ ~(dispatcher.at \in {"begun", "sending", "closing"} /\ dispatcher.wrap = s)

\* The operations beginOperation has counted: a WritePacket, the dispatcher.
OperationsOver(s) ==
    /\ write[s] = "none"
    /\ ~(dispatcher.at \in {"begun", "sending"} /\ dispatcher.wrap = s)

FinishWrapperClose(s) ==
    /\ wrapClose[s] = "taken"
    /\ controller[s] # "none" => ctlClose[s] = "done"
    /\ OperationsOver(s)
    /\ sockets' = CloseCarriers(s)
    /\ IF owner[s] = "closer" THEN RemoveSession(s) ELSE UNCHANGED tableVars
    /\ wrapClose' = [wrapClose EXCEPT ![s] = "done"]
    /\ UNCHANGED <<registryVars, controllerVars, closed, owner, timedOut, write,
                   construct, held, acceptVars, ownerVars, dispatcher>>

----------------------------------------------------------------------------
(* The dispatcher: listener packets                                         *)

\* The Peer's flag and its context are tested before the registry is.
ReceivePacket ==
    /\ dispatcher = Idle /\ ~PeerClosed /\ ~Cancelled
    /\ dispatcher' = At("packet", None, None)
    /\ UNCHANGED <<registryVars, controllerVars, tableVars, closeVars, write,
                   constructVars, acceptVars, ownerVars>>

\* A packet that the registry refuses.
DropPacket ==
    /\ dispatcher.at = "packet"
    /\ dispatcher' = Idle
    /\ UNCHANGED <<registryVars, controllerVars, tableVars, closeVars, write,
                   constructVars, acceptVars, ownerVars>>

\* Wire IDs are random and no step tells one from another, so they come into use
\* in order.
UsableID(id) ==
    id <= scenario.ids /\ \A i \in 1..(id - 1) : \E c \in DOMAIN wireID : wireID[c] = i

\* HELLO with an unknown ID: the registry makes a controller.
Hello(id) ==
    /\ dispatcher.at = "packet"
    /\ UsableID(id)
    /\ ~regClosed /\ registry[id] = None
    /\ Cardinality(Registered) < scenario.maxSessions
    /\ Len(wireID) < scenario.inbound
    /\ LET c == Len(wireID) + 1 IN
       /\ wireID' = Append(wireID, id)
       /\ registry' = [registry EXCEPT ![id] = c]
       /\ controller' = [controller EXCEPT ![c] = "open"]
       /\ dispatcher' = At("created", c, None)
    /\ UNCHANGED <<regClosed, ctlClose, tableVars, closeVars, write,
                   constructVars, acceptVars, ownerVars>>

\* HELLO_ACK is sent outside the locks, unless the controller is closed by now.
SendAck ==
    /\ dispatcher.at = "created"
    /\ dispatcher' = [dispatcher EXCEPT
           !.at = IF controller[dispatcher.ctl] = "closed" THEN "adding" ELSE "acking"]
    /\ UNCHANGED <<registryVars, controllerVars, tableVars, closeVars, write,
                   constructVars, acceptVars, ownerVars>>

AckSent ==
    /\ dispatcher.at = "acking"
    /\ dispatcher' = [dispatcher EXCEPT !.at = "adding"]
    /\ UNCHANGED <<registryVars, controllerVars, tableVars, closeVars, write,
                   constructVars, acceptVars, ownerVars>>

Admissible == ~PeerClosed /\ Cardinality(sessions) < scenario.maxSessions /\ ~listenerDone

\* addInboundSession.  A refused controller is closed; if the ID still has a
\* wrapper, that one is returned and the new controller gets none.
AddInboundSession ==
    /\ dispatcher.at = "adding"
    /\ LET c == dispatcher.ctl
           existing == inbound[wireID[c]]
       IN \/ /\ ~Admissible
             /\ dispatcher' = At("aborting", c, None)
             /\ UNCHANGED tableVars
          \/ /\ Admissible /\ existing # None
             /\ dispatcher' = At("offering", c, existing)
             /\ UNCHANGED tableVars
          \/ /\ Admissible /\ existing = None
             /\ dispatcher' = At("offering", c, c)
             /\ sessions' = sessions \cup {c}
             /\ inbound' = [inbound EXCEPT ![wireID[c]] = c]
    /\ UNCHANGED <<registryVars, controllerVars, closeVars, write,
                   constructVars, acceptVars, ownerVars>>

AbortController ==
    /\ dispatcher.at = "aborting"
    /\ \/ /\ StartControllerClose(dispatcher.ctl)
          /\ UNCHANGED dispatcher
       \/ /\ ctlClose[dispatcher.ctl] = "done"
          /\ dispatcher' = Idle
          /\ UNCHANGED controllerVars
    /\ UNCHANGED <<registryVars, tableVars, closeVars, write,
                   constructVars, acceptVars, ownerVars>>

QueueTakes == ~listenerDone /\ Len(accept) < AcceptCapacity

\* offer: drop the new Session when the Listener is done or the queue is full.
Offer ==
    /\ dispatcher.at = "offering"
    /\ LET s == dispatcher.wrap IN
       IF QueueTakes
       THEN /\ accept' = Append(accept, s)
            /\ offers' = [offers EXCEPT ![s] = @ + 1]
            /\ dispatcher' = [dispatcher EXCEPT !.at = "checking"]
       ELSE /\ dispatcher' = [dispatcher EXCEPT !.at = "closing"]
            /\ UNCHANGED <<accept, offers>>
    /\ UNCHANGED <<registryVars, controllerVars, tableVars, closeVars, write,
                   constructVars, handed, ownerVars>>

\* The last test of handleListenerPacket.
CheckState ==
    /\ dispatcher.at = "checking"
    /\ dispatcher' = IF controller[dispatcher.ctl] = "closed"
                     THEN [dispatcher EXCEPT !.at = "closing"] ELSE Idle
    /\ UNCHANGED <<registryVars, controllerVars, tableVars, closeVars, write,
                   constructVars, acceptVars, ownerVars>>

\* A packet of a known Session: the registry finds the controller and lets go of
\* its lock.
FindController(id) ==
    /\ dispatcher.at = "packet"
    /\ registry[id] # None
    /\ dispatcher' = At("found", registry[id], None)
    /\ UNCHANGED <<registryVars, controllerVars, tableVars, closeVars, write,
                   constructVars, acceptVars, ownerVars>>

\* What the controller does with it.  HELLO and PING are answered outside the
\* locks, as an operation of the controller, unless it is closed by now.
KnownPacket ==
    /\ dispatcher.at = "found"
    /\ \/ /\ controller[dispatcher.ctl] = "open"
          /\ dispatcher' = [dispatcher EXCEPT !.at = "answering"]
       \/ dispatcher' = [dispatcher EXCEPT !.at = "lookup"]
    /\ UNCHANGED <<registryVars, controllerVars, tableVars, closeVars, write,
                   constructVars, acceptVars, ownerVars>>

Answered ==
    /\ dispatcher.at = "answering"
    /\ dispatcher' = [dispatcher EXCEPT !.at = "lookup"]
    /\ UNCHANGED <<registryVars, controllerVars, tableVars, closeVars, write,
                   constructVars, acceptVars, ownerVars>>

\* CLOSE from the remote Peer: the controller is marked closed under its own lock,
\* without the Once of Close.
RemoteClose ==
    /\ dispatcher.at = "found"
    /\ controller[dispatcher.ctl] = "open"
    /\ controller' = [controller EXCEPT ![dispatcher.ctl] = "closed"]
    /\ dispatcher' = [dispatcher EXCEPT !.at = "notifying"]
    /\ UNCHANGED <<registryVars, ctlClose, tableVars, closeVars, write,
                   constructVars, acceptVars, ownerVars>>

\* notifyClosed, with that lock released: the controller leaves the registry.
RemoteCloseNotifies ==
    /\ dispatcher.at = "notifying"
    /\ registry' = NotifyClosed(dispatcher.ctl)
    /\ dispatcher' = [dispatcher EXCEPT !.at = "lookup"]
    /\ UNCHANGED <<regClosed, wireID, controllerVars, tableVars, closeVars, write,
                   constructVars, acceptVars, ownerVars>>

\* The wrapper of a packet is the one its ID has by now, if any.
Lookup ==
    /\ dispatcher.at = "lookup"
    /\ LET s == inbound[wireID[dispatcher.ctl]] IN
       dispatcher' = IF s = None THEN Idle ELSE At("checking", dispatcher.ctl, s)
    /\ UNCHANGED <<registryVars, controllerVars, tableVars, closeVars, write,
                   constructVars, acceptVars, ownerVars>>

\* The dispatcher calls closeWithContext and waits for it.
DispatcherCloses ==
    /\ dispatcher.at = "closing"
    /\ \/ /\ StartWrapperClose(dispatcher.wrap)
          /\ UNCHANGED dispatcher
       \/ /\ wrapClose[dispatcher.wrap] = "done"
          /\ dispatcher' = Idle
          /\ UNCHANGED <<closed, wrapClose>>
    /\ UNCHANGED <<registryVars, controllerVars, tableVars, owner, timedOut, write,
                   constructVars, acceptVars, ownerVars>>

----------------------------------------------------------------------------
(* The dispatcher: carrier packets and deadlines of the Sessions, a dead    *)
(* Listener socket, and its end                                             *)

\* beginOperation, for a packet of a carrier or for Advance.  With the Peer's
\* context cancelled the controller does nothing.
DispatcherBegins(s) ==
    /\ dispatcher = Idle
    /\ controller[s] # "none" /\ s \in sessions /\ s \notin closed
    /\ dispatcher' = At(IF Cancelled THEN "checking" ELSE "begun", s, s)
    /\ UNCHANGED <<registryVars, controllerVars, tableVars, closeVars, write,
                   constructVars, acceptVars, ownerVars>>

\* What the controller does: nothing, sends (which it does not if it is closed by
\* now), a CLOSE packet, or a failed handshake, which leaves the controller to
\* closeWithContext.
DispatcherActs ==
    /\ dispatcher.at = "begun"
    /\ LET s == dispatcher.wrap IN
       \/ /\ dispatcher' = At("checking", s, s)
          /\ UNCHANGED controller
       \/ /\ controller[s] = "open"
          /\ dispatcher' = At("sending", s, s)
          /\ UNCHANGED controller
       \/ /\ s \in Outbound /\ controller[s] = "open"
          /\ controller' = [controller EXCEPT ![s] = "closed"]
          /\ dispatcher' = At("checking", s, s)
       \/ /\ s \in Outbound /\ construct[s] \in {"starting", "ready"}
          /\ controller[s] = "open"
          /\ dispatcher' = At("closing", s, s)
          /\ UNCHANGED controller
    /\ UNCHANGED <<registryVars, ctlClose, tableVars, closeVars, write,
                   constructVars, acceptVars, ownerVars>>

DispatcherSent ==
    /\ dispatcher.at = "sending"
    /\ dispatcher' = [dispatcher EXCEPT !.at = "checking"]
    /\ UNCHANGED <<registryVars, controllerVars, tableVars, closeVars, write,
                   constructVars, acceptVars, ownerVars>>

\* The Listener's socket fails for good; it can only do so while it is open.
ListenerFails ==
    /\ dispatcher = Idle
    /\ listener.at # "done"
    /\ dispatcher' = At("listener", None, None)
    /\ UNCHANGED <<registryVars, controllerVars, tableVars, closeVars, write,
                   constructVars, acceptVars, ownerVars>>

\* Listener.Close: the first step of its Once.
StartListenerClose ==
    /\ listener.at = "open"
    /\ listenerDone' = TRUE
    /\ listener' = [listener EXCEPT !.at = "begun"]

DispatcherClosesListener ==
    /\ dispatcher.at = "listener"
    /\ \/ StartListenerClose /\ UNCHANGED dispatcher
       \/ /\ listener.at = "done"
          /\ dispatcher' = Idle
          /\ UNCHANGED <<listenerDone, listener>>
    /\ UNCHANGED <<registryVars, controllerVars, tableVars, closeVars, write,
                   constructVars, acceptVars, peer>>

DispatcherExits ==
    /\ dispatcher = Idle /\ Cancelled
    /\ dispatcher' = At("stopped", None, None)
    /\ UNCHANGED <<registryVars, controllerVars, tableVars, closeVars, write,
                   constructVars, acceptVars, ownerVars>>

----------------------------------------------------------------------------
(* newInitiatorSession and failConstruction                                 *)

NewSession(s) ==
    /\ construct[s] = "none"
    /\ \A t \in Outbound : t < s => construct[t] # "none"
    /\ s - MaxInbound <= scenario.outbound
    /\ ~PeerClosed
    /\ Cardinality(sessions) < scenario.maxSessions
    /\ sessions' = sessions \cup {s}
    /\ construct' = [construct EXCEPT ![s] = "opening"]
    /\ UNCHANGED <<registryVars, controllerVars, inbound, closeVars, write,
                   held, sockets, acceptVars, ownerVars, dispatcher>>

OpenCarrier(s) ==
    /\ construct[s] = "opening"
    /\ \/ /\ ~Cancelled
          /\ construct' = [construct EXCEPT ![s] = "opened"]
          /\ sockets' = [sockets EXCEPT ![s] = @ \cup {held[s] + 1}]
       \/ /\ construct' = [construct EXCEPT ![s] = "failing"]
          /\ UNCHANGED sockets
    /\ UNCHANGED <<registryVars, controllerVars, tableVars, closeVars, write,
                   held, acceptVars, ownerVars, dispatcher>>

\* addCarrier: a carrier that comes after the close is closed at once.
AddCarrier(s) ==
    /\ construct[s] = "opened"
    /\ IF s \in closed
       THEN /\ sockets' = [sockets EXCEPT ![s] = @ \ {held[s] + 1}]
            /\ construct' = [construct EXCEPT ![s] = "failing"]
            /\ UNCHANGED held
       ELSE /\ held' = [held EXCEPT ![s] = @ + 1]
            /\ construct' = [construct EXCEPT
                   ![s] = IF held[s] + 1 = Carriers THEN "wired" ELSE "opening"]
            /\ UNCHANGED sockets
    /\ UNCHANGED <<registryVars, controllerVars, tableVars, closeVars, write,
                   acceptVars, ownerVars, dispatcher>>

\* NewInitiator and setController: a controller that comes after the close is
\* closed and never becomes the wrapper's.
SetController(s) ==
    /\ construct[s] = "wired"
    /\ \/ /\ s \notin closed
          /\ controller' = [controller EXCEPT ![s] = "open"]
          /\ construct' = [construct EXCEPT ![s] = "built"]
       \/ /\ construct' = [construct EXCEPT ![s] = "failing"]
          /\ UNCHANGED controller
    /\ UNCHANGED <<registryVars, ctlClose, tableVars, closeVars, write,
                   held, sockets, acceptVars, ownerVars, dispatcher>>

\* Start sends the first HELLOs as an operation of the controller.
StartController(s) ==
    /\ construct[s] = "built"
    /\ construct' = [construct EXCEPT
           ![s] = IF Cancelled \/ controller[s] = "closed" THEN "failing" ELSE "starting"]
    /\ UNCHANGED <<registryVars, controllerVars, tableVars, closeVars, write,
                   held, sockets, acceptVars, ownerVars, dispatcher>>

Constructed(s) ==
    /\ construct[s] = "starting"
    /\ construct' = [construct EXCEPT ![s] = "ready"]
    /\ UNCHANGED <<registryVars, controllerVars, tableVars, closeVars, write,
                   held, sockets, acceptVars, ownerVars, dispatcher>>

\* failConstruction, after initDone: set the flag, without the Close's Once.
FailConstruction(s) ==
    /\ construct[s] = "failing"
    /\ construct' = [construct EXCEPT ![s] = "failed"]
    /\ closed' = closed \cup {s}
    /\ UNCHANGED <<registryVars, controllerVars, tableVars, owner, wrapClose, timedOut,
                   write, held, sockets, acceptVars, ownerVars, dispatcher>>

FailTakesOwner(s) ==
    /\ construct[s] = "failed"
    /\ construct' = [construct EXCEPT ![s] = "undoing"]
    /\ owner' = [owner EXCEPT ![s] = IF @ = "held" THEN "constructor" ELSE @]
    /\ UNCHANGED <<registryVars, controllerVars, tableVars, closed, wrapClose, timedOut,
                   write, held, sockets, acceptVars, ownerVars, dispatcher>>

FailClosesController(s) ==
    /\ construct[s] = "undoing"
    /\ controller[s] # "none"
    /\ StartControllerClose(s)
    /\ UNCHANGED <<registryVars, tableVars, closeVars, write,
                   constructVars, acceptVars, ownerVars, dispatcher>>

FailFinishes(s) ==
    /\ construct[s] = "undoing"
    /\ controller[s] # "none" => ctlClose[s] = "done"
    /\ construct' = [construct EXCEPT ![s] = "gone"]
    /\ sockets' = CloseCarriers(s)
    /\ IF owner[s] = "constructor" THEN RemoveSession(s) ELSE UNCHANGED tableVars
    /\ UNCHANGED <<registryVars, controllerVars, closeVars, write,
                   held, acceptVars, ownerVars, dispatcher>>

----------------------------------------------------------------------------
(* The application                                                          *)

Accept ==
    /\ ~listenerDone
    /\ accept # <<>>
    /\ handed' = handed \cup {Head(accept)}
    /\ accept' = Tail(accept)
    /\ UNCHANGED <<registryVars, controllerVars, tableVars, closeVars, write,
                   constructVars, offers, ownerVars, dispatcher>>

UserClose(s) ==
    /\ InUse(s)
    /\ StartWrapperClose(s)
    /\ UNCHANGED <<registryVars, controllerVars, tableVars, owner, timedOut, write,
                   constructVars, acceptVars, ownerVars, dispatcher>>

WritePacket(s) ==
    /\ InUse(s)
    /\ write[s] = "none" /\ s \notin closed
    /\ write' = [write EXCEPT ![s] = "begun"]
    /\ UNCHANGED <<registryVars, controllerVars, tableVars, closeVars,
                   constructVars, acceptVars, ownerVars, dispatcher>>

\* The controller has its own test of the state.
SendBlock(s) ==
    /\ write[s] = "begun"
    /\ write' = [write EXCEPT ![s] = IF controller[s] = "closed" THEN "none" ELSE "sending"]
    /\ UNCHANGED <<registryVars, controllerVars, tableVars, closeVars,
                   constructVars, acceptVars, ownerVars, dispatcher>>

WriteReturns(s) ==
    /\ write[s] = "sending"
    /\ write' = [write EXCEPT ![s] = "none"]
    /\ UNCHANGED <<registryVars, controllerVars, tableVars, closeVars,
                   constructVars, acceptVars, ownerVars, dispatcher>>

UserClosesListener ==
    /\ StartListenerClose
    /\ UNCHANGED <<registryVars, controllerVars, tableVars, closeVars, write,
                   constructVars, acceptVars, peer, dispatcher>>

----------------------------------------------------------------------------
(* Listener.Close, after signalClosed (closeListener)                       *)

ListenerSnapshot ==
    /\ listener.at = "begun"
    /\ listener' = [at |-> "wrappers", cur |-> None,
                    left |-> {inbound[id] : id \in IDs} \ {None}]
    /\ UNCHANGED <<registryVars, controllerVars, tableVars, closeVars, write,
                   constructVars, acceptVars, listenerDone, peer, dispatcher>>

\* Close the wrappers of the snapshot one after the other, in any order.
ListenerClosesWrapper ==
    /\ listener.at = "wrappers"
    /\ \/ /\ listener.cur = None
          /\ \E s \in listener.left :
                 listener' = [listener EXCEPT !.cur = s, !.left = @ \ {s}]
          /\ UNCHANGED closeVars
       \/ /\ listener.cur # None
          /\ StartWrapperClose(listener.cur)
          /\ UNCHANGED <<listener, owner, timedOut>>
       \/ /\ listener.cur # None /\ wrapClose[listener.cur] = "done"
          /\ listener' = [listener EXCEPT !.cur = None]
          /\ UNCHANGED closeVars
    /\ UNCHANGED <<registryVars, controllerVars, tableVars, write,
                   constructVars, acceptVars, listenerDone, peer, dispatcher>>

\* Mutant: the registry is closed without a look at what it still holds.
MutantNothingLeft == {}

RegistrySnapshot == Registered

RegistryClose ==
    /\ listener.at = "wrappers" /\ listener.left = {} /\ listener.cur = None
    /\ regClosed' = TRUE
    /\ listener' = [at |-> "controllers", cur |-> None, left |-> RegistrySnapshot]
    /\ registry' = [id \in IDs |-> None]
    /\ UNCHANGED <<wireID, controllerVars, tableVars, closeVars, write,
                   constructVars, acceptVars, listenerDone, peer, dispatcher>>

RegistryClosesController ==
    /\ listener.at = "controllers"
    /\ \/ /\ listener.cur = None
          /\ \E c \in listener.left :
                 listener' = [listener EXCEPT !.cur = c, !.left = @ \ {c}]
          /\ UNCHANGED controllerVars
       \/ /\ listener.cur # None
          /\ StartControllerClose(listener.cur)
          /\ UNCHANGED listener
       \/ /\ listener.cur # None /\ ctlClose[listener.cur] = "done"
          /\ listener' = [listener EXCEPT !.cur = None]
          /\ UNCHANGED controllerVars
    /\ UNCHANGED <<registryVars, tableVars, closeVars, write,
                   constructVars, acceptVars, listenerDone, peer, dispatcher>>

\* The socket is closed last.
ListenerClosed ==
    /\ listener.at = "controllers" /\ listener.left = {} /\ listener.cur = None
    /\ listener' = [listener EXCEPT !.at = "done"]
    /\ UNCHANGED <<registryVars, controllerVars, tableVars, closeVars, write,
                   constructVars, acceptVars, listenerDone, peer, dispatcher>>

----------------------------------------------------------------------------
(* Peer.Close                                                               *)

PeerClose ==
    /\ peer.at = "open"
    /\ peer' = [at |-> "signalling", cur |-> None, left |-> sessions]
    /\ UNCHANGED <<registryVars, controllerVars, tableVars, closeVars, write,
                   constructVars, acceptVars, listenerDone, listener, dispatcher>>

PeerSignals ==
    /\ peer.at = "signalling"
    /\ peer' = [peer EXCEPT !.at = "sessions"]
    /\ listenerDone' = TRUE
    /\ UNCHANGED <<registryVars, controllerVars, tableVars, closeVars, write,
                   constructVars, acceptVars, listener, dispatcher>>

PeerClosesSession ==
    /\ peer.at = "sessions"
    /\ \/ /\ peer.cur = None
          /\ \E s \in peer.left : peer' = [peer EXCEPT !.cur = s, !.left = @ \ {s}]
          /\ UNCHANGED closeVars
       \/ /\ peer.cur # None
          /\ StartWrapperClose(peer.cur)
          /\ UNCHANGED <<peer, owner, timedOut>>
       \/ /\ peer.cur # None /\ wrapClose[peer.cur] = "done"
          /\ peer' = [peer EXCEPT !.cur = None]
          /\ UNCHANGED closeVars
    /\ UNCHANGED <<registryVars, controllerVars, tableVars, write,
                   constructVars, acceptVars, listenerDone, listener, dispatcher>>

PeerClosesListener ==
    /\ peer.at = "sessions" /\ peer.left = {} /\ peer.cur = None
    /\ \/ StartListenerClose /\ UNCHANGED peer
       \/ /\ listener.at = "done"
          /\ peer' = [peer EXCEPT !.at = "worker"]
          /\ UNCHANGED <<listenerDone, listener>>
    /\ UNCHANGED <<registryVars, controllerVars, tableVars, closeVars, write,
                   constructVars, acceptVars, dispatcher>>

\* The last wait is for the dispatcher (workerDone).
PeerCloseReturns ==
    /\ peer.at = "worker"
    /\ dispatcher.at = "stopped"
    /\ peer' = [peer EXCEPT !.at = "done"]
    /\ UNCHANGED <<registryVars, controllerVars, tableVars, closeVars, write,
                   constructVars, acceptVars, listenerDone, listener, dispatcher>>

----------------------------------------------------------------------------
\* Calls and packets that may never come.
Environment ==
    \/ \E id \in IDs : Hello(id) \/ FindController(id)
    \/ \E s \in Outbound : NewSession(s)
    \/ \E s \in Sessions : UserClose(s) \/ WritePacket(s) \/ DispatcherBegins(s)
    \/ ReceivePacket \/ Accept \/ UserClosesListener \/ ListenerFails \/ PeerClose

\* The Close of a controller and of its wrapper.
CloseStep(s) ==
    \/ FinishControllerClose(s) \/ TakeOwner(s) \/ CloseController(s)
    \/ FinishWrapperClose(s)

WriteStep(s) == SendBlock(s) \/ WriteReturns(s)

ConstructStep(s) ==
    \/ OpenCarrier(s) \/ AddCarrier(s) \/ SetController(s) \/ StartController(s)
    \/ Constructed(s) \/ FailConstruction(s) \/ FailTakesOwner(s)
    \/ FailClosesController(s) \/ FailFinishes(s)

DispatcherStep ==
    \/ DropPacket \/ DispatcherActs \/ DispatcherSent
    \/ SendAck \/ AckSent \/ AddInboundSession \/ AbortController \/ Offer
    \/ KnownPacket \/ RemoteClose \/ RemoteCloseNotifies
    \/ CheckState \/ Answered \/ Lookup \/ DispatcherCloses \/ DispatcherClosesListener
    \/ DispatcherExits

ListenerStep ==
    \/ ListenerSnapshot \/ ListenerClosesWrapper \/ RegistryClose
    \/ RegistryClosesController \/ ListenerClosed

PeerStep == PeerSignals \/ PeerClosesSession \/ PeerClosesListener \/ PeerCloseReturns

\* After Peer.Close has returned the system may rest.
Terminated == peer.at = "done" /\ UNCHANGED vars

\* The owner of the parent context cancels it, with or without a Close.
CancelParent ==
    /\ scenario.parent /\ ~Cancelled
    /\ parentDone' = TRUE
    /\ UNCHANGED vars

Step ==
    \/ Environment
    \/ \E s \in Sessions : CloseStep(s) \/ WriteStep(s)
    \/ \E s \in Outbound : ConstructStep(s)
    \/ DispatcherStep \/ ListenerStep \/ PeerStep
    \/ Terminated

Next ==
    /\ (Step /\ UNCHANGED parentDone) \/ CancelParent
    /\ UNCHANGED scenario

Spec == Init /\ [][Next]_<<vars, scenario, parentDone>>

\* A goroutine that can run does run; sends, opens and the close timeout end.
Fairness ==
    /\ \A s \in Sessions : WF_vars(CloseStep(s)) /\ WF_vars(WriteStep(s))
    /\ \A s \in Outbound : WF_vars(ConstructStep(s))
    /\ WF_vars(DispatcherStep) /\ WF_vars(ListenerStep) /\ WF_vars(PeerStep)

FairSpec == Spec /\ Fairness

----------------------------------------------------------------------------
(* Properties                                                               *)

\* Type invariant of the tables, the Close states and the program counters.
TypeOK ==
    /\ registry \in [IDs -> Inbound \cup {None}]
    /\ regClosed \in BOOLEAN
    /\ wireID \in Seq(IDs) /\ Len(wireID) <= MaxInbound
    /\ controller \in [Sessions -> {"none", "open", "closed"}]
    /\ ctlClose \in [Sessions -> {"idle", "marked", "done"}]
    /\ inbound \in [IDs -> Inbound \cup {None}]
    /\ sessions \subseteq Sessions
    /\ closed \subseteq Sessions
    /\ owner \in [Sessions -> {"held", "closer", "constructor"}]
    /\ wrapClose \in [Sessions -> {"idle", "waiting", "taken", "done"}]
    /\ timedOut \subseteq Outbound
    /\ write \in [Sessions -> {"none", "begun", "sending"}]
    /\ construct \in [Outbound -> {"none", "opening", "opened", "wired", "built",
                       "starting", "ready", "failing", "failed", "undoing", "gone"}]
    /\ held \in [Outbound -> 0..Carriers]
    /\ sockets \in [Outbound -> SUBSET (1..Carriers)]
    /\ accept \in Seq(Inbound) /\ Len(accept) <= AcceptCapacity
    /\ offers \in [Inbound -> Nat]
    /\ handed \subseteq Inbound
    /\ listenerDone \in BOOLEAN
    /\ listener.left \subseteq Inbound /\ listener.cur \in Inbound \cup {None}
    /\ peer.left \subseteq Sessions /\ peer.cur \in Sessions \cup {None}
    /\ dispatcher.ctl \in Sessions \cup {None}
    /\ dispatcher.wrap \in Sessions \cup {None}

\* Peer.sessions and Peer.inbound hold the same inbound wrappers, each under the
\* wire ID its controller was made for.  Limits.MaxSessions bounds the registry and
\* the Peer's own table, which inbound and outbound Sessions share: a controller is
\* made under the lock of one and its wrapper, later, under the lock of the other.
\* A closed controller is still registered only while somebody is on the way to
\* take it out: the Close that marked it, or the dispatcher with the CLOSE packet.
TablesAgree ==
    /\ TypeOK
    /\ \A id \in IDs : inbound[id] # None =>
           inbound[id] \in sessions /\ wireID[inbound[id]] = id
    /\ \A s \in sessions \cap Inbound : inbound[wireID[s]] = s
    /\ Cardinality(sessions) <= scenario.maxSessions
    /\ Cardinality(Registered) <= scenario.maxSessions
    /\ \A c \in Registered : controller[c] = "closed" =>
           ctlClose[c] = "marked" \/ (dispatcher.at = "notifying" /\ dispatcher.ctl = c)

\* No operation outlives the Close that has to wait for it: a WritePacket, a
\* HELLO_ACK or the first HELLOs never run on a controller, or through a
\* wrapper, whose Close has returned.
DrainedWhenClosed ==
    /\ \A s \in Sessions : ctlClose[s] = "done" => ~ControllerActive(s)
    /\ \A s \in Sessions : wrapClose[s] = "done" =>
           write[s] = "none" /\ ~(dispatcher.at \in {"begun", "sending"} /\ dispatcher.wrap = s)

\* What Listener.Close promises: once it has returned there is no inbound Session
\* left, neither in a table nor open, whatever packet the dispatcher had in hand
\* when it began and has still.
NothingOutlivesListener ==
    listener.at = "done" =>
        /\ Registered = {}
        /\ sessions \cap Inbound = {}
        /\ \A c \in Inbound : controller[c] # "open"

\* What Peer.Close promises: once it has returned, the dispatcher has stopped, no
\* controller is open and no WritePacket runs, and no carrier's socket is open
\* unless construction of the Session outlasted the close timeout.  A Session is
\* still in the table only while its failing constructor, which owns the removal
\* then, is running.
PeerCloseIsComplete ==
    peer.at = "done" =>
        /\ dispatcher.at = "stopped"
        /\ \A s \in sessions :
               s \in Outbound /\ construct[s] = "undoing" /\ owner[s] = "constructor"
        /\ \A s \in Sessions : controller[s] # "open" /\ write[s] = "none"
        /\ \A s \in Outbound \ timedOut : sockets[s] = {}

\* Peer.Close returns: the chain of Closes it waits for, through the Listener, the
\* Sessions, the constructors and the dispatcher, has no cycle.
PeerCloseReturnsEventually == peer.at # "open" ~> peer.at = "done"

\* docs/SESSION.md: a Session the registry created is put into the Accept queue
\* once.  Not so when its ID still has the wrapper of an earlier Session: that
\* wrapper is queued again, and the new controller stays without one.
OfferedOnce ==
    \A s \in Inbound :
        /\ offers[s] <= 1
        /\ dispatcher = Idle /\ s \in Registered /\ controller[s] = "open" => offers[s] = 1

============================================================================
