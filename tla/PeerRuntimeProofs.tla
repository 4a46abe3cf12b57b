------------------------- MODULE PeerRuntimeProofs -------------------------
(***************************************************************************)
(* Proofs about PeerRuntime, for any number of wire IDs, Sessions and      *)
(* carriers and any limits: the two Session tables agree, no operation     *)
(* outlives the Close that waits for it, and what Listener.Close and       *)
(* Peer.Close promise when they return.                                    *)
(*                                                                         *)
(* One inductive invariant, RuntimeInv, carries all of it.  Its parts say  *)
(* who answers for an object at any time: an open controller is in the     *)
(* registry or in the hands of the registry's Close, a wrapper is in       *)
(* Peer.sessions until its Close or its failed constructor is done with    *)
(* it, and a controller that has no wrapper yet is known to nobody but the *)
(* dispatcher.  Each part is shown to survive the steps that touch it; a   *)
(* frame lemma names those steps.                                          *)
(***************************************************************************)
EXTENDS PeerRuntime, FiniteSetTheorems, TLAPS

DispatcherPlaces ==
    {"idle", "packet", "found", "notifying", "created", "acking", "adding", "aborting", "offering",
     "checking", "answering", "lookup", "closing", "begun", "sending", "listener", "stopped"}

ListenerType ==
    [at : {"open", "begun", "wrappers", "controllers", "done"},
     left : SUBSET Inbound, cur : Inbound \cup {None}]

PeerType ==
    [at : {"open", "signalling", "sessions", "worker", "done"},
     left : SUBSET Sessions, cur : Sessions \cup {None}]

DispatcherType ==
    [at : DispatcherPlaces, ctl : Sessions \cup {None}, wrap : Sessions \cup {None}]

Made == DOMAIN wireID      \* the controllers made for a HELLO so far

\* What the dispatcher has in hand where it is.
DispatcherInv ==
    /\ dispatcher.at \in {"found", "notifying", "created", "acking", "adding", "aborting",
                          "offering", "answering", "lookup"} => dispatcher.ctl \in Made
    /\ dispatcher.at = "offering" => dispatcher.wrap \in Inbound
    /\ dispatcher.at \in {"checking", "closing", "begun", "sending"} =>
           dispatcher.wrap \in Sessions /\ dispatcher.ctl \in Sessions
    /\ dispatcher.at \in {"begun", "sending"} => dispatcher.ctl = dispatcher.wrap

\* A carrier is opened for a place that is free, and the sockets of a Session are
\* those of the carriers it holds, and one more before addCarrier.
CarriersInv ==
    \A s \in Outbound :
        /\ construct[s] \in {"opening", "opened"} => held[s] < Carriers
        /\ construct[s] = "none" => held[s] = 0
        /\ IF construct[s] = "opened" THEN sockets[s] \subseteq 1..(held[s] + 1)
           ELSE sockets[s] \subseteq 1..held[s]

\* The types, with the two parts that they need.
Types ==
    /\ TypeOK
    /\ scenario \in Scenarios
    /\ listener \in ListenerType /\ peer \in PeerType /\ dispatcher \in DispatcherType
    /\ DispatcherInv /\ CarriersInv

----------------------------------------------------------------------------
(* The other parts of the inductive invariant                              *)

\* The registry names a controller by the ID it was made for.  A controller that is
\* open is registered, or in the hands of the registry's Close.
RegistryInv ==
    /\ \A id \in IDs : registry[id] # None =>
           registry[id] \in Made /\ wireID[registry[id]] = id
    /\ \A c \in Inbound : controller[c] = "none" <=> c \notin Made
    /\ \A s \in Sessions : ctlClose[s] # "idle" => controller[s] = "closed"
    /\ regClosed <=> listener.at \in {"controllers", "done"}
    /\ regClosed => /\ \A id \in IDs : registry[id] = None
                    /\ listener.left \cup {listener.cur} \subseteq Made \cup {None}
    /\ \A c \in Inbound : controller[c] = "open" =>
           IF regClosed THEN c \in listener.left \cup {listener.cur} ELSE registry[wireID[c]] = c

\* A controller that is being closed leaves the registry with the Close that marked
\* it, or with the dispatcher that marked it for a CLOSE packet.
Leaving(c) == ctlClose[c] = "marked" \/ (dispatcher.at = "notifying" /\ dispatcher.ctl = c)

LeavingInv ==
    /\ \A id \in IDs : registry[id] # None /\ controller[registry[id]] = "closed" =>
           Leaving(registry[id])
    /\ dispatcher.at = "notifying" => controller[dispatcher.ctl] = "closed"

\* The two tables of the Peer.
TablesInv ==
    /\ \A id \in IDs : inbound[id] # None =>
           /\ inbound[id] \in sessions /\ inbound[id] \in Made
           /\ wireID[inbound[id]] = id
    /\ \A s \in sessions \cap Inbound : s \in Made /\ inbound[wireID[s]] = s

LimitsInv ==
    /\ Cardinality(sessions) <= scenario.maxSessions
    /\ Cardinality(Registered) <= scenario.maxSessions

\* A Session that has no wrapper: none was made, or the dispatcher is about to.
Fresh(s) ==
    \/ s \in Inbound /\ s \notin Made
    \/ dispatcher.at \in {"created", "acking", "adding"} /\ dispatcher.ctl = s
    \/ s \in Outbound /\ construct[s] = "none"

Queued(s) == \E i \in DOMAIN accept : accept[i] = s

\* What has no wrapper is in nobody's hands.
FreshInv ==
    \A s \in Sessions : Fresh(s) =>
        /\ s \notin sessions /\ wrapClose[s] = "idle"
        /\ s \notin closed /\ s \notin handed /\ ~Queued(s)
        /\ write[s] = "none"
        /\ dispatcher.wrap # s
        /\ listener.at = "wrappers" => s \notin listener.left /\ s # listener.cur
        /\ s \notin peer.left /\ s # peer.cur

Handled(s) == s \in sessions \/ wrapClose[s] = "done" \/ (s \in Outbound /\ construct[s] = "gone")

\* A wrapper is in Peer.sessions until its Close is done, or its constructor has
\* given it up.
WrapperInv ==
    /\ \A s \in Inbound : s \in handed \/ Queued(s) => Handled(s)
    /\ dispatcher.at = "offering" => Handled(dispatcher.wrap)
    /\ \A s \in Outbound : construct[s] # "none" => Handled(s)
    /\ \A s \in Sessions : write[s] # "none" => InUse(s)

\* Who takes a wrapper out of the tables: the Close, or the constructor that failed.
OwnerInv ==
    /\ \A s \in Sessions : wrapClose[s] # "idle" => s \in closed
    /\ \A s \in Sessions : wrapClose[s] \in {"taken", "done"} => owner[s] # "held"
    /\ \A s \in Sessions : wrapClose[s] = "done" /\ owner[s] = "closer" => s \notin sessions
    /\ \A s \in Sessions : owner[s] = "constructor" =>
           /\ s \in Outbound /\ construct[s] \in {"undoing", "gone"}
           /\ construct[s] = "gone" => s \notin sessions
    /\ \A s \in Outbound : construct[s] \in {"undoing", "gone"} => owner[s] # "held"

\* A Close that is done, of a wrapper or by a constructor, leaves no controller open
\* and, if it did not give up waiting, no socket.
ClosedInv ==
    /\ \A s \in Sessions : wrapClose[s] = "done" => controller[s] # "open"
    /\ \A s \in Outbound :
          /\ construct[s] \in {"none", "opening", "opened", "wired"} => controller[s] = "none"
          /\ construct[s] = "gone" => controller[s] # "open" /\ sockets[s] = {}
          /\ wrapClose[s] \in {"taken", "done"} /\ s \notin timedOut => InitDone(s)
          /\ wrapClose[s] = "done" /\ s \notin timedOut => sockets[s] = {}

\* Listener.Close has in hand every inbound wrapper there is, until there is none.
ListenerInv ==
    /\ listener.at # "open" => listenerDone
    /\ listener.at = "wrappers" => sessions \cap Inbound \subseteq listener.left \cup {listener.cur}
    /\ listener.at \in {"controllers", "done"} => sessions \cap Inbound = {}
    /\ listener.at = "done" => listener.left = {} /\ listener.cur = None

\* Peer.Close has in hand every wrapper that is not closed yet.
PeerInv ==
    /\ PeerClosed => \A s \in sessions : s \in peer.left \cup {peer.cur} \/ wrapClose[s] = "done"
    /\ peer.at \in {"worker", "done"} => listener.at = "done" /\ peer.left = {} /\ peer.cur = None
    /\ peer.at = "done" => dispatcher.at = "stopped"

RuntimeInv ==
    /\ Types
    /\ RegistryInv /\ LeavingInv /\ TablesInv /\ LimitsInv
    /\ FreshInv /\ WrapperInv /\ OwnerInv /\ ClosedInv
    /\ DrainedWhenClosed
    /\ ListenerInv /\ PeerInv

----------------------------------------------------------------------------
(* Sets of Sessions                                                        *)

LEMMA SessionSets ==
    /\ None \notin Sessions /\ Inbound \cap Outbound = {}
    /\ Inbound \subseteq Sessions /\ Outbound \subseteq Sessions
    /\ Sessions = Inbound \cup Outbound
    /\ IsFiniteSet(Sessions) /\ IsFiniteSet(Inbound) /\ Sessions \subseteq Nat
<1>1. IsFiniteSet(1..MaxInbound) /\ IsFiniteSet((MaxInbound + 1)..(MaxInbound + MaxOutbound))
  BY BoundsAssumption, FS_Interval
<1>2. IsFiniteSet(Sessions)
  BY <1>1, FS_Union DEF Sessions, Inbound, Outbound
<1>3. QED
  BY <1>1, <1>2, BoundsAssumption DEF Sessions, Inbound, Outbound, None

\* A HELLO makes a controller only while there is one left to make.
LEMMA HelloRoom ==
    ASSUME Types, NEW id \in IDs, Hello(id)
    PROVE  Len(wireID) < MaxInbound
<1>1. scenario.inbound \in 0..MaxInbound
  BY LimitsAssumption DEF Types
<1>2. Len(wireID) \in Nat /\ Len(wireID) < scenario.inbound
  BY DEF Types, TypeOK, Hello
<1>3. QED
  BY <1>1, <1>2, BoundsAssumption

LEMMA MadeFacts ==
    ASSUME TypeOK
    PROVE  /\ Made = 1..Len(wireID) /\ Made \subseteq Inbound /\ Len(wireID) \in Nat
           /\ \A c \in Made : wireID[c] \in IDs
<1>1. wireID \in Seq(IDs) /\ Len(wireID) \in Nat /\ Len(wireID) <= MaxInbound
  BY DEF TypeOK
<1>2. QED
  BY <1>1, BoundsAssumption DEF Made, Inbound

----------------------------------------------------------------------------
(* Which steps touch what                                                  *)

\* The steps that touch the registry or a controller.
LEMMA RegistryFrame ==
    ASSUME Next
    PROVE  \/ \E id \in IDs : Hello(id)
           \/ RemoteClose \/ RemoteCloseNotifies
           \/ \E s \in Sessions : FinishControllerClose(s) \/ CloseController(s)
           \/ \E s \in Outbound : SetController(s) \/ FailClosesController(s)
           \/ DispatcherActs \/ AbortController \/ RegistryClose
           \/ RegistryClosesController
           \/ UNCHANGED <<registryVars, controllerVars>>
BY ZenonT(40) DEF Next, Step, CancelParent, Environment, CloseStep, WriteStep, ConstructStep, DispatcherStep,
       ListenerStep, PeerStep, Terminated, vars, FindController, KnownPacket,
       NewSession, UserClose,
       WritePacket, DispatcherBegins, ReceivePacket, Accept, UserClosesListener,
       ListenerFails, PeerClose, TakeOwner, FinishWrapperClose, SendBlock, WriteReturns,
       OpenCarrier, AddCarrier, StartController, Constructed, FailConstruction,
       FailTakesOwner, FailFinishes, DropPacket, DispatcherSent, SendAck, AckSent,
       AddInboundSession, Offer, CheckState, Answered, Lookup, DispatcherCloses,
       DispatcherClosesListener, DispatcherExits, ListenerSnapshot,
       ListenerClosesWrapper, ListenerClosed, PeerSignals, PeerClosesSession,
       PeerClosesListener, PeerCloseReturns

\* The steps that touch the tables of the Peer.
LEMMA TablesFrame ==
    ASSUME Next
    PROVE  \/ \E s \in Sessions : FinishWrapperClose(s)
           \/ \E s \in Outbound : NewSession(s) \/ FailFinishes(s)
           \/ AddInboundSession
           \/ UNCHANGED tableVars
BY ZenonT(40) DEF Next, Step, CancelParent, Environment, CloseStep, WriteStep, ConstructStep, DispatcherStep,
       ListenerStep, PeerStep, Terminated, vars, Hello, FindController, KnownPacket,
       RemoteClose, RemoteCloseNotifies,
       UserClose, WritePacket, DispatcherBegins, ReceivePacket, Accept,
       UserClosesListener, ListenerFails, PeerClose, FinishControllerClose, TakeOwner,
       CloseController, SendBlock, WriteReturns, OpenCarrier, AddCarrier, SetController,
       StartController, Constructed, FailConstruction, FailTakesOwner,
       FailClosesController, DropPacket, DispatcherActs, DispatcherSent, SendAck,
       AckSent, AbortController, Offer, CheckState, Answered, Lookup, DispatcherCloses,
       DispatcherClosesListener, DispatcherExits, ListenerSnapshot,
       ListenerClosesWrapper, RegistryClose, RegistryClosesController, ListenerClosed,
       PeerSignals, PeerClosesSession, PeerClosesListener, PeerCloseReturns

\* The steps that touch a wrapper's Close.
LEMMA CloseFrame ==
    ASSUME Next
    PROVE  \/ \E s \in Sessions : UserClose(s) \/ TakeOwner(s) \/ FinishWrapperClose(s)
           \/ \E s \in Outbound : FailConstruction(s) \/ FailTakesOwner(s)
           \/ DispatcherCloses \/ ListenerClosesWrapper \/ PeerClosesSession
           \/ UNCHANGED closeVars
BY ZenonT(40) DEF Next, Step, CancelParent, Environment, CloseStep, WriteStep, ConstructStep, DispatcherStep,
       ListenerStep, PeerStep, Terminated, vars, Hello, FindController, KnownPacket,
       RemoteClose, RemoteCloseNotifies,
       NewSession, WritePacket, DispatcherBegins, ReceivePacket, Accept,
       UserClosesListener, ListenerFails, PeerClose, FinishControllerClose,
       CloseController, SendBlock, WriteReturns, OpenCarrier, AddCarrier, SetController,
       StartController, Constructed, FailClosesController, FailFinishes, DropPacket,
       DispatcherActs, DispatcherSent, SendAck, AckSent, AddInboundSession,
       AbortController, Offer, CheckState, Answered, Lookup, DispatcherClosesListener,
       DispatcherExits, ListenerSnapshot, RegistryClose, RegistryClosesController,
       ListenerClosed, PeerSignals, PeerClosesListener, PeerCloseReturns

\* The steps that touch a construction or a socket.
LEMMA ConstructFrame ==
    ASSUME Next
    PROVE  \/ \E s \in Sessions : FinishWrapperClose(s)
           \/ \E s \in Outbound : NewSession(s) \/ OpenCarrier(s) \/ AddCarrier(s)
                                  \/ SetController(s) \/ StartController(s) \/ Constructed(s)
                                  \/ FailConstruction(s) \/ FailTakesOwner(s)
                                  \/ FailFinishes(s)
           \/ UNCHANGED constructVars
BY ZenonT(40) DEF Next, Step, CancelParent, Environment, CloseStep, WriteStep, ConstructStep, DispatcherStep,
       ListenerStep, PeerStep, Terminated, vars, Hello, FindController, KnownPacket,
       RemoteClose, RemoteCloseNotifies,
       UserClose, WritePacket, DispatcherBegins, ReceivePacket, Accept,
       UserClosesListener, ListenerFails, PeerClose, FinishControllerClose, TakeOwner,
       CloseController, SendBlock, WriteReturns, FailClosesController, DropPacket,
       DispatcherActs, DispatcherSent, SendAck, AckSent, AddInboundSession,
       AbortController, Offer, CheckState, Answered, Lookup, DispatcherCloses,
       DispatcherClosesListener, DispatcherExits, ListenerSnapshot,
       ListenerClosesWrapper, RegistryClose, RegistryClosesController, ListenerClosed,
       PeerSignals, PeerClosesSession, PeerClosesListener, PeerCloseReturns

\* The steps that touch the dispatcher.
LEMMA DispatcherFrame ==
    ASSUME Next
    PROVE  \/ \E id \in IDs : Hello(id) \/ FindController(id)
           \/ KnownPacket \/ RemoteClose \/ RemoteCloseNotifies
           \/ \E s \in Sessions : DispatcherBegins(s)
           \/ ReceivePacket \/ ListenerFails \/ DropPacket \/ DispatcherActs
           \/ DispatcherSent \/ SendAck \/ AckSent \/ AddInboundSession
           \/ AbortController \/ Offer \/ CheckState \/ Answered \/ Lookup
           \/ DispatcherCloses \/ DispatcherClosesListener \/ DispatcherExits
           \/ UNCHANGED dispatcher
BY ZenonT(40) DEF Next, Step, CancelParent, Environment, CloseStep, WriteStep, ConstructStep, DispatcherStep,
       ListenerStep, PeerStep, Terminated, vars, NewSession, UserClose, WritePacket,
       Accept, UserClosesListener, PeerClose, FinishControllerClose, TakeOwner,
       CloseController, FinishWrapperClose, SendBlock, WriteReturns, OpenCarrier,
       AddCarrier, SetController, StartController, Constructed, FailConstruction,
       FailTakesOwner, FailClosesController, FailFinishes, ListenerSnapshot,
       ListenerClosesWrapper, RegistryClose, RegistryClosesController, ListenerClosed,
       PeerSignals, PeerClosesSession, PeerClosesListener, PeerCloseReturns

\* The steps of the Closes of the Listener and of the Peer.
LEMMA OwnersFrame ==
    ASSUME Next
    PROVE  \/ UserClosesListener \/ PeerClose \/ DispatcherClosesListener
           \/ ListenerSnapshot \/ ListenerClosesWrapper \/ RegistryClose
           \/ RegistryClosesController \/ ListenerClosed \/ PeerSignals
           \/ PeerClosesSession \/ PeerClosesListener \/ PeerCloseReturns
           \/ UNCHANGED ownerVars
BY ZenonT(40) DEF Next, Step, CancelParent, Environment, CloseStep, WriteStep, ConstructStep, DispatcherStep,
       ListenerStep, PeerStep, Terminated, vars, ownerVars, Hello, FindController, KnownPacket,
       RemoteClose, RemoteCloseNotifies, NewSession, UserClose, WritePacket, DispatcherBegins, ReceivePacket,
       Accept, ListenerFails, FinishControllerClose, TakeOwner, CloseController,
       FinishWrapperClose, SendBlock, WriteReturns, OpenCarrier, AddCarrier,
       SetController, StartController, Constructed, FailConstruction, FailTakesOwner,
       FailClosesController, FailFinishes, DropPacket, DispatcherActs, DispatcherSent,
       SendAck, AckSent, AddInboundSession, AbortController, Offer, CheckState,
       Answered, Lookup, DispatcherCloses, DispatcherExits

\* The steps that touch the Accept queue or a WritePacket.
LEMMA UseFrame ==
    ASSUME Next
    PROVE  \/ \E s \in Sessions : WritePacket(s) \/ SendBlock(s) \/ WriteReturns(s)
           \/ Accept \/ Offer
           \/ UNCHANGED <<acceptVars, write>>
BY ZenonT(40) DEF Next, Step, CancelParent, Environment, CloseStep, WriteStep, ConstructStep, DispatcherStep,
       ListenerStep, PeerStep, Terminated, vars, Hello, FindController, KnownPacket,
       RemoteClose, RemoteCloseNotifies,
       NewSession, UserClose, DispatcherBegins, ReceivePacket, UserClosesListener,
       ListenerFails, PeerClose, FinishControllerClose, TakeOwner, CloseController,
       FinishWrapperClose, OpenCarrier, AddCarrier, SetController, StartController,
       Constructed, FailConstruction, FailTakesOwner, FailClosesController,
       FailFinishes, DropPacket, DispatcherActs, DispatcherSent, SendAck, AckSent,
       AddInboundSession, AbortController, CheckState, Answered, Lookup,
       DispatcherCloses, DispatcherClosesListener, DispatcherExits, ListenerSnapshot,
       ListenerClosesWrapper, RegistryClose, RegistryClosesController, ListenerClosed,
       PeerSignals, PeerClosesSession, PeerClosesListener, PeerCloseReturns

----------------------------------------------------------------------------
(* Types                                                                   *)

LEMMA RegistryTypes ==
    ASSUME RuntimeInv, Next
    PROVE  /\ registry' \in [IDs -> Inbound \cup {None}] /\ regClosed' \in BOOLEAN
           /\ wireID' \in Seq(IDs) /\ Len(wireID') <= MaxInbound
           /\ controller' \in [Sessions -> {"none", "open", "closed"}]
           /\ ctlClose' \in [Sessions -> {"idle", "marked", "done"}]
<1> USE SessionSets
<1>0. TypeOK
  BY DEF RuntimeInv, Types
<1>1. ASSUME NEW id \in IDs, Hello(id)
      PROVE  /\ registry' \in [IDs -> Inbound \cup {None}] /\ regClosed' \in BOOLEAN
             /\ wireID' \in Seq(IDs) /\ Len(wireID') <= MaxInbound
             /\ controller' \in [Sessions -> {"none", "open", "closed"}]
             /\ ctlClose' \in [Sessions -> {"idle", "marked", "done"}]
  <2>0. Len(wireID) < MaxInbound
    BY <1>1, HelloRoom DEF RuntimeInv
  <2>1. wireID \in Seq(IDs) /\ Len(wireID) \in Nat /\ Len(wireID) < MaxInbound
        /\ wireID' = Append(wireID, id)
    BY <1>0, <1>1, <2>0 DEF TypeOK, Hello
  <2>2. Len(wireID) + 1 \in Inbound
    BY <2>1, BoundsAssumption DEF Inbound
  <2>3. wireID' \in Seq(IDs) /\ Len(wireID') = Len(wireID) + 1
    BY <2>1
  <2>4. QED
    BY <1>0, <1>1, <2>1, <2>2, <2>3, BoundsAssumption DEF TypeOK, Hello
<1>2. ASSUME NEW c \in Sessions, StartControllerClose(c)
      PROVE  /\ controller' \in [Sessions -> {"none", "open", "closed"}]
             /\ ctlClose' \in [Sessions -> {"idle", "marked", "done"}]
  BY <1>0, <1>2 DEF TypeOK, StartControllerClose
<1>3. CASE RemoteClose \/ RemoteCloseNotifies
  <2>1. dispatcher.ctl \in Sessions
    BY <1>0, <1>3, MadeFacts DEF RemoteClose, RemoteCloseNotifies, RuntimeInv, Types, DispatcherInv
  <2>2. CASE RemoteClose
    BY <1>0, <2>1, <2>2 DEF TypeOK, RemoteClose, registryVars
  <2>3. CASE RemoteCloseNotifies
    BY <1>0, <2>3 DEF TypeOK, RemoteCloseNotifies, NotifyClosed, WithoutController, controllerVars
  <2>4. QED
    BY <1>3, <2>2, <2>3
<1>4. CASE \E s \in Sessions : FinishControllerClose(s)
  BY <1>0, <1>4 DEF TypeOK, FinishControllerClose, NotifyClosed, WithoutController, registryVars
<1>5. CASE \/ \E s \in Sessions : CloseController(s)
           \/ \E s \in Outbound : FailClosesController(s)
  BY <1>0, <1>2, <1>5 DEF TypeOK, CloseController, FailClosesController, registryVars
<1>6. CASE \E s \in Outbound : SetController(s)
  BY <1>0, <1>6 DEF TypeOK, SetController, registryVars
<1>7. CASE AbortController
  <2>1. dispatcher.ctl \in Sessions
    BY <1>0, <1>7, MadeFacts DEF AbortController, RuntimeInv, Types, DispatcherInv
  <2>2. QED
    BY <1>0, <1>2, <1>7, <2>1 DEF TypeOK, AbortController, registryVars, controllerVars
<1>8. CASE DispatcherActs
  <2>1. dispatcher.wrap \in Sessions
    BY <1>8 DEF DispatcherActs, RuntimeInv, Types, DispatcherInv
  <2>2. UNCHANGED controller \/ controller' = [controller EXCEPT ![dispatcher.wrap] = "closed"]
    BY <1>8 DEF DispatcherActs
  <2>3. controller' \in [Sessions -> {"none", "open", "closed"}]
    BY <1>0, <2>1, <2>2 DEF TypeOK
  <2>4. QED
    BY <1>0, <1>8, <2>3 DEF TypeOK, DispatcherActs, registryVars
<1>9. CASE RegistryClose
  BY <1>0, <1>9 DEF TypeOK, RegistryClose, controllerVars
<1>10. CASE RegistryClosesController
  <2>1. listener.cur # None => listener.cur \in Sessions
    BY <1>0 DEF TypeOK
  <2>2. QED
    BY <1>0, <1>2, <1>10, <2>1 DEF TypeOK, RegistryClosesController, registryVars, controllerVars
<1>11. CASE UNCHANGED <<registryVars, controllerVars>>
  BY <1>0, <1>11 DEF TypeOK, registryVars, controllerVars
<1>12. QED
  BY <1>1, <1>3, <1>4, <1>5, <1>6, <1>7, <1>8, <1>9, <1>10, <1>11, RegistryFrame

LEMMA TablesTypes ==
    ASSUME RuntimeInv, Next
    PROVE  inbound' \in [IDs -> Inbound \cup {None}] /\ sessions' \subseteq Sessions
<1> USE SessionSets
<1>0. TypeOK
  BY DEF RuntimeInv, Types
<1>1. ASSUME NEW s \in Sessions, RemoveSession(s)
      PROVE  inbound' \in [IDs -> Inbound \cup {None}] /\ sessions' \subseteq Sessions
  BY <1>0, <1>1 DEF TypeOK, RemoveSession, RemoveInbound
<1>2. CASE \/ \E s \in Sessions : FinishWrapperClose(s)
           \/ \E s \in Outbound : FailFinishes(s)
  <2>1. tableVars' = tableVars \/ \E s \in Sessions : RemoveSession(s)
    BY <1>2 DEF FinishWrapperClose, FailFinishes
  <2>2. QED
    BY <1>0, <1>1, <2>1 DEF TypeOK, tableVars
<1>3. CASE \E s \in Outbound : NewSession(s)
  <2>1. inbound' = inbound /\ \E s \in Outbound : sessions' = sessions \cup {s}
    BY <1>3 DEF NewSession
  <2>2. inbound \in [IDs -> Inbound \cup {None}] /\ sessions \subseteq Sessions
    BY <1>0 DEF TypeOK
  <2>3. QED
    BY <2>1, <2>2
<1>4. CASE AddInboundSession
  <2>1. dispatcher.ctl \in Inbound
    BY <1>0, <1>4, MadeFacts DEF AddInboundSession, RuntimeInv, Types, DispatcherInv
  <2>2. QED
    BY <1>0, <1>4, <2>1 DEF TypeOK, AddInboundSession, tableVars
<1>5. CASE UNCHANGED tableVars
  BY <1>0, <1>5 DEF TypeOK, tableVars
<1>6. QED
  BY <1>2, <1>3, <1>4, <1>5, TablesFrame

LEMMA CloseTypes ==
    ASSUME RuntimeInv, Next
    PROVE  /\ closed' \subseteq Sessions
           /\ owner' \in [Sessions -> {"held", "closer", "constructor"}]
           /\ wrapClose' \in [Sessions -> {"idle", "waiting", "taken", "done"}]
           /\ timedOut' \subseteq Outbound
<1> USE SessionSets
<1>0. TypeOK
  BY DEF RuntimeInv, Types
<1>1. ASSUME NEW s \in Sessions, StartWrapperClose(s)
      PROVE  /\ closed' \subseteq Sessions
             /\ wrapClose' \in [Sessions -> {"idle", "waiting", "taken", "done"}]
  BY <1>0, <1>1 DEF TypeOK, StartWrapperClose
<1>2. CASE \E s \in Sessions : UserClose(s)
  BY <1>0, <1>1, <1>2 DEF TypeOK, UserClose
<1>3. ASSUME NEW s \in Sessions, TakeOwner(s)
      PROVE  /\ closed' \subseteq Sessions
             /\ owner' \in [Sessions -> {"held", "closer", "constructor"}]
             /\ wrapClose' \in [Sessions -> {"idle", "waiting", "taken", "done"}]
             /\ timedOut' \subseteq Outbound
  BY <1>0, <1>3 DEF TypeOK, TakeOwner, InitDone
<1>4. CASE \E s \in Sessions : FinishWrapperClose(s)
  BY <1>0, <1>4 DEF TypeOK, FinishWrapperClose
<1>5. ASSUME NEW s \in Outbound, FailConstruction(s) \/ FailTakesOwner(s)
      PROVE  /\ closed' \subseteq Sessions
             /\ owner' \in [Sessions -> {"held", "closer", "constructor"}]
             /\ wrapClose' \in [Sessions -> {"idle", "waiting", "taken", "done"}]
             /\ timedOut' \subseteq Outbound
  <2>0. closed' = closed \/ closed' = closed \cup {s}
    BY <1>5 DEF FailConstruction, FailTakesOwner
  <2>1. closed' \subseteq Sessions
    BY <1>0, <2>0 DEF TypeOK
  <2>2. UNCHANGED owner
        \/ owner' = [owner EXCEPT ![s] = IF owner[s] = "held" THEN "constructor" ELSE owner[s]]
    BY <1>5 DEF FailConstruction, FailTakesOwner
  <2>3. owner' \in [Sessions -> {"held", "closer", "constructor"}]
    BY <1>0, <2>2 DEF TypeOK
  <2>4. QED
    BY <1>0, <1>5, <2>1, <2>3, ZenonT(40) DEF TypeOK, FailConstruction, FailTakesOwner
<1>6. CASE DispatcherCloses
  <2>1. dispatcher.wrap \in Sessions
    BY <1>6 DEF DispatcherCloses, RuntimeInv, Types, DispatcherInv
  <2>2. QED
    BY <1>0, <1>1, <1>6, <2>1 DEF TypeOK, DispatcherCloses
<1>7. CASE ListenerClosesWrapper
  <2>1. listener.cur # None => listener.cur \in Sessions
    BY <1>0 DEF TypeOK
  <2>2. QED
    BY <1>0, <1>1, <1>7, <2>1 DEF TypeOK, ListenerClosesWrapper, closeVars
<1>8. CASE PeerClosesSession
  <2>1. peer.cur # None => peer.cur \in Sessions
    BY <1>0 DEF TypeOK
  <2>2. QED
    BY <1>0, <1>1, <1>8, <2>1 DEF TypeOK, PeerClosesSession, closeVars
<1>9. CASE UNCHANGED closeVars
  BY <1>0, <1>9 DEF TypeOK, closeVars
<1>10. QED
  BY <1>2, <1>3, <1>4, <1>5, <1>6, <1>7, <1>8, <1>9, CloseFrame

ConstructPlaces ==
    {"none", "opening", "opened", "wired", "built",
     "starting", "ready", "failing", "failed", "undoing", "gone"}

LEMMA ConstructTypes ==
    ASSUME RuntimeInv, Next
    PROVE  /\ construct' \in [Outbound -> ConstructPlaces]
           /\ held' \in [Outbound -> 0..Carriers]
           /\ sockets' \in [Outbound -> SUBSET (1..Carriers)]
           /\ CarriersInv'
<1> USE SessionSets, BoundsAssumption
<1> DEFINE Goal == /\ construct' \in [Outbound -> ConstructPlaces]
                   /\ held' \in [Outbound -> 0..Carriers]
                   /\ sockets' \in [Outbound -> SUBSET (1..Carriers)]
                   /\ CarriersInv'
<1>0. /\ construct \in [Outbound -> ConstructPlaces]
      /\ held \in [Outbound -> 0..Carriers]
      /\ sockets \in [Outbound -> SUBSET (1..Carriers)]
      /\ CarriersInv
  BY DEF RuntimeInv, Types, TypeOK, ConstructPlaces
<1>a. ASSUME NEW s \in Outbound
      PROVE  /\ held[s] \in Nat /\ held[s] <= Carriers /\ construct[s] \in ConstructPlaces
             /\ sockets[s] \subseteq 1..Carriers
  BY <1>0
<1>1. CASE \E s \in Sessions : FinishWrapperClose(s)
  <2>1. PICK s \in Sessions : FinishWrapperClose(s)
    BY <1>1
  <2>2. UNCHANGED <<construct, held>>
    BY <2>1 DEF FinishWrapperClose
  <2>3. sockets' \in [Outbound -> SUBSET (1..Carriers)]
        /\ \A t \in Outbound : sockets'[t] \subseteq sockets[t]
    BY <1>0, <2>1 DEF FinishWrapperClose, CloseCarriers
  <2>4. QED
    BY <1>0, <2>2, <2>3 DEF CarriersInv
<1>2. ASSUME NEW s \in Outbound, NewSession(s)
      PROVE  Goal
  BY <1>0, <1>a, <1>2 DEF NewSession, CarriersInv, ConstructPlaces
<1>3. ASSUME NEW s \in Outbound, OpenCarrier(s)
      PROVE  Goal
  <2>1. construct[s] = "opening" /\ UNCHANGED held /\ held[s] < Carriers
    BY <1>0, <1>3 DEF OpenCarrier, CarriersInv
  <2>2. CASE construct' = [construct EXCEPT ![s] = "opened"]
             /\ sockets' = [sockets EXCEPT ![s] = @ \cup {held[s] + 1}]
    <3>1. construct' \in [Outbound -> ConstructPlaces]
          /\ sockets' \in [Outbound -> SUBSET (1..Carriers)]
      BY <1>0, <1>a, <2>1, <2>2 DEF ConstructPlaces
    <3>2. CarriersInv'
      BY <1>0, <1>a, <2>1, <2>2 DEF CarriersInv
    <3>3. QED
      BY <1>0, <2>1, <3>1, <3>2
  <2>3. CASE construct' = [construct EXCEPT ![s] = "failing"] /\ UNCHANGED sockets
    BY <1>0, <1>a, <2>1, <2>3 DEF CarriersInv, ConstructPlaces
  <2>4. QED
    BY <1>3, <2>2, <2>3 DEF OpenCarrier
<1>4. ASSUME NEW s \in Outbound, AddCarrier(s)
      PROVE  Goal
  <2>1. construct[s] = "opened" /\ held[s] < Carriers /\ sockets[s] \subseteq 1..(held[s] + 1)
    BY <1>0, <1>4 DEF AddCarrier, CarriersInv
  <2>2. CASE s \in closed
    <3>1. /\ sockets' = [sockets EXCEPT ![s] = @ \ {held[s] + 1}]
          /\ construct' = [construct EXCEPT ![s] = "failing"] /\ UNCHANGED held
      BY <1>4, <2>2 DEF AddCarrier
    <3>2. construct' \in [Outbound -> ConstructPlaces]
          /\ sockets' \in [Outbound -> SUBSET (1..Carriers)]
      BY <1>0, <1>a, <3>1 DEF ConstructPlaces
    <3>3. sockets[s] \ {held[s] + 1} \subseteq 1..held[s]
      BY <1>a, <2>1
    <3>4. CarriersInv'
      BY <1>0, <1>a, <3>1, <3>3 DEF CarriersInv
    <3>5. QED
      BY <1>0, <3>1, <3>2, <3>4
  <2>3. CASE s \notin closed
    <3>1. /\ held' = [held EXCEPT ![s] = held[s] + 1] /\ UNCHANGED sockets
          /\ construct' = [construct EXCEPT
                 ![s] = IF held[s] + 1 = Carriers THEN "wired" ELSE "opening"]
      BY <1>4, <2>3 DEF AddCarrier
    <3>2. held' \in [Outbound -> 0..Carriers] /\ construct' \in [Outbound -> ConstructPlaces]
      BY <1>0, <1>a, <2>1, <3>1 DEF ConstructPlaces
    <3>3. CarriersInv'
      BY <1>0, <1>a, <2>1, <3>1 DEF CarriersInv
    <3>4. QED
      BY <1>0, <3>1, <3>2, <3>3
  <2>4. QED
    BY <2>2, <2>3
<1>5. ASSUME NEW s \in Outbound, NEW p \in ConstructPlaces \ {"none", "opening", "opened"},
             construct[s] # "opened", construct' = [construct EXCEPT ![s] = p],
             UNCHANGED <<held, sockets>>
      PROVE  Goal
  BY <1>0, <1>a, <1>5 DEF CarriersInv
<1>6. CASE \E s \in Outbound : \/ SetController(s) \/ StartController(s) \/ Constructed(s)
                              \/ FailConstruction(s) \/ FailTakesOwner(s)
  BY <1>5, <1>6 DEF SetController, StartController, Constructed, FailConstruction,
                    FailTakesOwner, ConstructPlaces
<1>7. ASSUME NEW s \in Outbound, FailFinishes(s)
      PROVE  Goal
  <2>1. construct[s] = "undoing" /\ construct' = [construct EXCEPT ![s] = "gone"] /\ UNCHANGED held
    BY <1>7 DEF FailFinishes
  <2>2. sockets' \in [Outbound -> SUBSET (1..Carriers)]
        /\ \A t \in Outbound : sockets'[t] \subseteq sockets[t]
    BY <1>0, <1>7 DEF FailFinishes, CloseCarriers
  <2>3. QED
    BY <1>0, <2>1, <2>2 DEF CarriersInv, ConstructPlaces
<1>8. CASE UNCHANGED constructVars
  BY <1>0, <1>8 DEF CarriersInv, constructVars
<1>9. QED
  BY <1>1, <1>2, <1>3, <1>4, <1>6, <1>7, <1>8, ConstructFrame

\* Controllers are only ever added, and keep their ID.
LEMMA MadeGrows ==
    ASSUME RuntimeInv, Next
    PROVE  /\ Made \subseteq Made' /\ \A c \in Made : wireID'[c] = wireID[c]
           /\ Made' \subseteq Inbound
           /\ UNCHANGED wireID \/ \E id \in IDs : Hello(id)
<1>0. TypeOK
  BY DEF RuntimeInv, Types
<1>1. ASSUME NEW id \in IDs, Hello(id)
      PROVE  Made \subseteq Made' /\ \A c \in Made : wireID'[c] = wireID[c]
  <2>1. wireID \in Seq(IDs) /\ wireID' = Append(wireID, id)
    BY <1>0, <1>1 DEF TypeOK, Hello
  <2>2. QED
    BY <2>1 DEF Made
<1>2. UNCHANGED wireID \/ \E id \in IDs : Hello(id)
  BY RegistryFrame DEF RemoteClose, RemoteCloseNotifies, FinishControllerClose,
     CloseController, SetController, FailClosesController, DispatcherActs, AbortController, RegistryClose,
     RegistryClosesController, registryVars
<1>3. wireID' \in Seq(IDs) /\ Len(wireID') <= MaxInbound
  BY RegistryTypes
<1>4. Made' \subseteq Inbound
  BY <1>3, BoundsAssumption DEF Made, Inbound
<1>5. QED
  BY <1>1, <1>2, <1>4 DEF Made

LEMMA DispatcherTypes ==
    ASSUME RuntimeInv, Next
    PROVE  dispatcher' \in DispatcherType /\ DispatcherInv'
<1> USE SessionSets
<1>0. TypeOK /\ dispatcher \in DispatcherType /\ DispatcherInv
  BY DEF RuntimeInv, Types
<1>a. Made \subseteq Made' /\ Made \subseteq Inbound /\ \A c \in Made : wireID[c] \in IDs
  BY <1>0, MadeGrows, MadeFacts
<1>b. ASSUME NEW at \in DispatcherPlaces, NEW c \in Sessions \cup {None},
             NEW s \in Sessions \cup {None},
             dispatcher' = At(at, c, s),
             at \in {"found", "notifying", "created", "acking", "adding", "aborting",
                     "offering", "answering", "lookup"} => c \in Made',
             at = "offering" => s \in Inbound,
             at \in {"checking", "closing", "begun", "sending"} => s \in Sessions /\ c \in Sessions,
             at \in {"begun", "sending"} => c = s
      PROVE  dispatcher' \in DispatcherType /\ DispatcherInv'
  <2>1. dispatcher' = [at |-> at, ctl |-> c, wrap |-> s]
    BY <1>b DEF At
  <2>2. dispatcher' \in DispatcherType
    BY <2>1 DEF DispatcherType
  <2>3. dispatcher'.at = at /\ dispatcher'.ctl = c /\ dispatcher'.wrap = s
    BY <2>1
  <2>4. DispatcherInv'
    BY <1>b, <2>3 DEF DispatcherInv
  <2>5. QED
    BY <2>2, <2>4
<1>c. /\ dispatcher = At(dispatcher.at, dispatcher.ctl, dispatcher.wrap)
      /\ dispatcher.ctl \in Sessions \cup {None} /\ dispatcher.wrap \in Sessions \cup {None}
      /\ \A at \in DispatcherPlaces :
             [dispatcher EXCEPT !.at = at] = At(at, dispatcher.ctl, dispatcher.wrap)
  BY <1>0 DEF DispatcherType, At
<1>d. Idle = At("idle", None, None)
  BY DEF Idle, At
<1>e. dispatcher' = Idle => dispatcher' \in DispatcherType /\ DispatcherInv'
  BY <1>b, <1>d DEF DispatcherPlaces
<1>1. ASSUME NEW id \in IDs, Hello(id)
      PROVE  dispatcher' \in DispatcherType /\ DispatcherInv'
  <2>1. wireID \in Seq(IDs) /\ wireID' = Append(wireID, id) /\ Len(wireID) < MaxInbound
        /\ dispatcher' = At("created", Len(wireID) + 1, None)
    BY <1>0, <1>1, HelloRoom DEF RuntimeInv, TypeOK, Hello
  <2>2. Len(wireID) + 1 \in Made' /\ Len(wireID) + 1 \in Inbound
    BY <2>1, BoundsAssumption DEF Made, Inbound
  <2>3. QED
    BY <1>b, <2>1, <2>2 DEF DispatcherPlaces
<1>2. ASSUME NEW id \in IDs, FindController(id)
      PROVE  dispatcher' \in DispatcherType /\ DispatcherInv'
  <2>1. registry[id] \in Made
    BY <1>2 DEF FindController, RuntimeInv, RegistryInv
  <2>2. dispatcher' = At("found", registry[id], None)
    BY <1>2 DEF FindController
  <2>3. QED
    BY <1>a, <1>b, <2>1, <2>2 DEF DispatcherPlaces
<1>f. ASSUME KnownPacket \/ RemoteClose \/ RemoteCloseNotifies
      PROVE  dispatcher' \in DispatcherType /\ DispatcherInv'
  <2>1. dispatcher.ctl \in Made
    BY <1>0, <1>f DEF KnownPacket, RemoteClose, RemoteCloseNotifies, DispatcherInv
  <2>2. \E at \in {"answering", "lookup", "notifying"} : dispatcher' = [dispatcher EXCEPT !.at = at]
    BY <1>f DEF KnownPacket, RemoteClose, RemoteCloseNotifies
  <2>3. QED
    BY <1>a, <1>b, <1>c, <2>1, <2>2 DEF DispatcherPlaces
<1>3. ASSUME NEW s \in Sessions, DispatcherBegins(s)
      PROVE  dispatcher' \in DispatcherType /\ DispatcherInv'
  <2>1. dispatcher' = At("checking", s, s) \/ dispatcher' = At("begun", s, s)
    BY <1>3 DEF DispatcherBegins
  <2>2. QED
    BY <1>b, <2>1 DEF DispatcherPlaces
<1>4. CASE ReceivePacket \/ ListenerFails \/ DispatcherExits
  <2>1. \E at \in {"packet", "listener", "stopped"} : dispatcher' = At(at, None, None)
    BY <1>4 DEF ReceivePacket, ListenerFails, DispatcherExits
  <2>2. QED
    BY <1>b, <2>1, ZenonT(40) DEF DispatcherPlaces
<1>5. CASE DropPacket
  BY <1>e, <1>5 DEF DropPacket
<1>6. CASE DispatcherActs
  <2>1. dispatcher.wrap \in Sessions
    BY <1>0, <1>6 DEF DispatcherActs, DispatcherInv
  <2>2. \E at \in {"checking", "sending", "closing"} :
           dispatcher' = At(at, dispatcher.wrap, dispatcher.wrap)
    BY <1>6 DEF DispatcherActs
  <2>3. QED
    BY <1>b, <2>1, <2>2, ZenonT(40) DEF DispatcherPlaces
<1>7. CASE DispatcherSent
  <2>1. dispatcher' = At("checking", dispatcher.ctl, dispatcher.wrap)
        /\ dispatcher.wrap \in Sessions /\ dispatcher.ctl \in Sessions
    BY <1>0, <1>c, <1>7 DEF DispatcherSent, DispatcherInv, DispatcherPlaces
  <2>2. QED
    BY <1>b, <2>1, ZenonT(40) DEF DispatcherPlaces
<1>8. CASE SendAck \/ AckSent \/ Answered
  <2>1. \E at \in {"adding", "acking", "lookup"} :
           dispatcher' = At(at, dispatcher.ctl, dispatcher.wrap)
    BY <1>c, <1>8 DEF SendAck, AckSent, Answered, DispatcherPlaces
  <2>2. dispatcher.ctl \in Made
    BY <1>0, <1>8 DEF SendAck, AckSent, Answered, DispatcherInv
  <2>3. QED
    BY <1>a, <1>b, <1>c, <2>1, <2>2 DEF DispatcherPlaces
<1>9. CASE AddInboundSession
  <2>1. dispatcher.ctl \in Made
    BY <1>0, <1>9 DEF AddInboundSession, DispatcherInv
  <2>2. \/ dispatcher' = At("aborting", dispatcher.ctl, None)
        \/ dispatcher' = At("offering", dispatcher.ctl, dispatcher.ctl)
        \/ /\ dispatcher' = At("offering", dispatcher.ctl, inbound[wireID[dispatcher.ctl]])
           /\ inbound[wireID[dispatcher.ctl]] # None
    BY <1>9 DEF AddInboundSession
  <2>3. inbound[wireID[dispatcher.ctl]] \in Inbound \cup {None}
    BY <1>0, <1>a, <2>1 DEF TypeOK
  <2>4. QED
    BY <1>a, <1>b, <2>1, <2>2, <2>3 DEF DispatcherPlaces
<1>10. CASE UNCHANGED dispatcher
  BY <1>0, <1>a, <1>10 DEF DispatcherInv
<1>11. CASE AbortController
  BY <1>e, <1>10, <1>11 DEF AbortController
<1>12. CASE Offer
  <2>1. \E at \in {"checking", "closing"} : dispatcher' = At(at, dispatcher.ctl, dispatcher.wrap)
    BY <1>c, <1>12 DEF Offer, DispatcherPlaces
  <2>2. dispatcher.ctl \in Made /\ dispatcher.wrap \in Inbound
    BY <1>0, <1>12 DEF Offer, DispatcherInv
  <2>3. QED
    BY <1>a, <1>b, <2>1, <2>2 DEF DispatcherPlaces
<1>13. CASE CheckState
  <2>1. dispatcher' = At("closing", dispatcher.ctl, dispatcher.wrap) \/ dispatcher' = Idle
    BY <1>c, <1>13 DEF CheckState, DispatcherPlaces
  <2>2. dispatcher.ctl \in Sessions /\ dispatcher.wrap \in Sessions
    BY <1>0, <1>13 DEF CheckState, DispatcherInv
  <2>3. QED
    BY <1>b, <1>e, <2>1, <2>2 DEF DispatcherPlaces
<1>14. CASE Lookup
  <2>1. dispatcher.ctl \in Made
    BY <1>0, <1>14 DEF Lookup, DispatcherInv
  <2>2. inbound[wireID[dispatcher.ctl]] \in Inbound \cup {None}
    BY <1>0, <1>a, <2>1 DEF TypeOK
  <2>3. \/ dispatcher' = Idle
        \/ /\ dispatcher' = At("checking", dispatcher.ctl, inbound[wireID[dispatcher.ctl]])
           /\ inbound[wireID[dispatcher.ctl]] # None
    BY <1>14 DEF Lookup
  <2>4. QED
    BY <1>a, <1>b, <1>e, <2>1, <2>2, <2>3 DEF DispatcherPlaces
<1>15. CASE DispatcherCloses
  BY <1>e, <1>10, <1>15 DEF DispatcherCloses
<1>16. CASE DispatcherClosesListener
  BY <1>e, <1>10, <1>16 DEF DispatcherClosesListener
<1>17. QED
  BY <1>1, <1>2, <1>3, <1>4, <1>5, <1>6, <1>7, <1>8, <1>9, <1>10, <1>11, <1>12, <1>13, <1>14,
     <1>15, <1>16, <1>f, DispatcherFrame

LEMMA OwnersTypes ==
    ASSUME RuntimeInv, Next
    PROVE  listener' \in ListenerType /\ peer' \in PeerType /\ listenerDone' \in BOOLEAN
<1> USE SessionSets
<1>0. TypeOK /\ listener \in ListenerType /\ peer \in PeerType /\ listenerDone \in BOOLEAN
  BY DEF RuntimeInv, Types, TypeOK
<1>1. StartListenerClose => listener' \in ListenerType /\ listenerDone' \in BOOLEAN
  BY <1>0 DEF StartListenerClose, ListenerType
<1>2. CASE UserClosesListener \/ DispatcherClosesListener
  BY <1>0, <1>1, <1>2 DEF UserClosesListener, DispatcherClosesListener
<1>3. CASE ListenerSnapshot
  BY <1>0, <1>3 DEF ListenerSnapshot, ListenerType, TypeOK
<1>4. CASE ListenerClosesWrapper
  BY <1>0, <1>4 DEF ListenerClosesWrapper, ListenerType
<1>5. CASE RegistryClose
  BY <1>0, <1>5 DEF RegistryClose, RegistrySnapshot, Registered, ListenerType, TypeOK
<1>6. CASE RegistryClosesController
  BY <1>0, <1>6 DEF RegistryClosesController, ListenerType
<1>7. CASE ListenerClosed
  BY <1>0, <1>7 DEF ListenerClosed, ListenerType
<1>8. CASE PeerClose
  BY <1>0, <1>8 DEF PeerClose, PeerType, TypeOK
<1>9. CASE PeerSignals
  BY <1>0, <1>9 DEF PeerSignals, PeerType
<1>10. CASE PeerClosesSession
  BY <1>0, <1>10, ZenonT(40) DEF PeerClosesSession, PeerType
<1>11. CASE PeerClosesListener
  BY <1>0, <1>1, <1>11 DEF PeerClosesListener, PeerType
<1>12. CASE PeerCloseReturns
  BY <1>0, <1>12 DEF PeerCloseReturns, PeerType
<1>13. CASE UNCHANGED ownerVars
  BY <1>0, <1>13 DEF ownerVars
<1>14. QED
  BY <1>2, <1>3, <1>4, <1>5, <1>6, <1>7, <1>8, <1>9, <1>10, <1>11, <1>12, <1>13, OwnersFrame

LEMMA UseTypes ==
    ASSUME RuntimeInv, Next
    PROVE  /\ write' \in [Sessions -> {"none", "begun", "sending"}]
           /\ accept' \in Seq(Inbound) /\ Len(accept') <= AcceptCapacity
           /\ offers' \in [Inbound -> Nat] /\ handed' \subseteq Inbound
<1>0. TypeOK
  BY DEF RuntimeInv, Types
<1>1. CASE \E s \in Sessions : WritePacket(s) \/ SendBlock(s) \/ WriteReturns(s)
  <2>1. /\ UNCHANGED acceptVars
        /\ \E s \in Sessions, to \in {"none", "begun", "sending"} :
              write' = [write EXCEPT ![s] = to]
    BY <1>1 DEF WritePacket, SendBlock, WriteReturns
  <2>2. write \in [Sessions -> {"none", "begun", "sending"}]
    BY <1>0 DEF TypeOK
  <2>3. write' \in [Sessions -> {"none", "begun", "sending"}]
    BY <2>1, <2>2
  <2>4. QED
    BY <1>0, <2>1, <2>3 DEF TypeOK, acceptVars
<1>2. CASE Accept
  <2>1. accept \in Seq(Inbound) /\ accept # <<>> /\ accept' = Tail(accept)
    BY <1>0, <1>2 DEF TypeOK, Accept
  <2>2. /\ accept' \in Seq(Inbound) /\ Head(accept) \in Inbound
        /\ Len(accept) \in Nat /\ Len(accept') = Len(accept) - 1
    BY <2>1
  <2>3. Len(accept') <= AcceptCapacity
    BY <1>0, <2>2, LimitsAssumption DEF TypeOK
  <2>4. QED
    BY <1>0, <1>2, <2>2, <2>3 DEF TypeOK, Accept
<1>3. CASE Offer
  <2>1. dispatcher.wrap \in Inbound
    BY <1>3 DEF Offer, RuntimeInv, Types, DispatcherInv
  <2>2. CASE QueueTakes
    <3>1. /\ accept \in Seq(Inbound) /\ accept' = Append(accept, dispatcher.wrap)
          /\ Len(accept) < AcceptCapacity
          /\ offers' = [offers EXCEPT ![dispatcher.wrap] = offers[dispatcher.wrap] + 1]
      BY <1>0, <1>3, <2>2 DEF TypeOK, Offer, QueueTakes
    <3>2. /\ accept' \in Seq(Inbound) /\ Len(accept) \in Nat
          /\ Len(accept') = Len(accept) + 1
      BY <2>1, <3>1
    <3>3. Len(accept') <= AcceptCapacity
      BY <3>1, <3>2, LimitsAssumption
    <3>4. offers \in [Inbound -> Nat] /\ offers[dispatcher.wrap] + 1 \in Nat
      BY <1>0, <2>1 DEF TypeOK
    <3>5. offers' \in [Inbound -> Nat]
      BY <3>1, <3>4
    <3>6. QED
      BY <1>0, <1>3, <3>2, <3>3, <3>5 DEF TypeOK, Offer
  <2>3. CASE ~QueueTakes
    BY <1>0, <1>3, <2>3 DEF TypeOK, Offer
  <2>4. QED
    BY <2>2, <2>3
<1>4. CASE UNCHANGED <<acceptVars, write>>
  BY <1>0, <1>4 DEF TypeOK, acceptVars
<1>5. QED
  BY <1>1, <1>2, <1>3, <1>4, UseFrame

LEMMA TypesKept ==
    ASSUME RuntimeInv, Next
    PROVE  Types'
<1>1. scenario' \in Scenarios
  BY DEF Next, RuntimeInv, Types
<1>2. listener' \in ListenerType /\ peer' \in PeerType /\ dispatcher' \in DispatcherType
  BY OwnersTypes, DispatcherTypes
<1>3. /\ listener'.left \subseteq Inbound /\ listener'.cur \in Inbound \cup {None}
      /\ peer'.left \subseteq Sessions /\ peer'.cur \in Sessions \cup {None}
      /\ dispatcher'.ctl \in Sessions \cup {None} /\ dispatcher'.wrap \in Sessions \cup {None}
  BY <1>2 DEF ListenerType, PeerType, DispatcherType
<1>4. TypeOK'
  BY <1>3, RegistryTypes, TablesTypes, CloseTypes, ConstructTypes, OwnersTypes, UseTypes
     DEF TypeOK, ConstructPlaces
<1>5. QED
  BY <1>1, <1>2, <1>4, ConstructTypes, DispatcherTypes DEF Types

----------------------------------------------------------------------------
(* The registry                                                            *)

LEMMA RegistryKept ==
    ASSUME RuntimeInv, Next
    PROVE  RegistryInv'
<1> USE SessionSets
<1>0. TypeOK /\ RegistryInv /\ listener \in ListenerType
  BY DEF RuntimeInv, Types
<1>a. Made \subseteq Inbound /\ \A c \in Made : wireID[c] \in IDs
  BY <1>0, MadeFacts
<1>b. ASSUME NEW c \in Sessions, controller[c] # "none", StartControllerClose(c),
             UNCHANGED <<registryVars, listener>>
      PROVE  RegistryInv'
  <2>1. /\ controller' = [controller EXCEPT ![c] = "closed"]
        /\ ctlClose' = [ctlClose EXCEPT ![c] = "marked"]
        /\ UNCHANGED <<registry, regClosed, wireID, listener>>
    BY <1>b DEF StartControllerClose, registryVars
  <2>2. /\ \A s \in Sessions : controller'[s] = IF s = c THEN "closed" ELSE controller[s]
        /\ \A s \in Sessions : ctlClose'[s] = IF s = c THEN "marked" ELSE ctlClose[s]
    BY <1>0, <2>1 DEF TypeOK
  <2>3. \A id \in IDs : registry[id] \in Inbound \cup {None}
    BY <1>0 DEF TypeOK
  <2>4. QED
    BY <1>0, <1>a, <1>b, <2>1, <2>2, <2>3 DEF RegistryInv, Made
<1>c. ASSUME UNCHANGED <<registryVars, controllerVars>>,
             regClosed => UNCHANGED listener.left /\ UNCHANGED listener.cur,
             listener.at \in {"controllers", "done"} <=> listener'.at \in {"controllers", "done"}
      PROVE  RegistryInv'
  BY <1>0, <1>c DEF RegistryInv, Made, registryVars, controllerVars
<1>1. ASSUME NEW id \in IDs, Hello(id)
      PROVE  RegistryInv'
  <2> DEFINE c == Len(wireID) + 1
  <2>1. /\ wireID \in Seq(IDs) /\ wireID' = Append(wireID, id) /\ Len(wireID) < MaxInbound
        /\ registry' = [registry EXCEPT ![id] = c]
        /\ controller' = [controller EXCEPT ![c] = "open"]
        /\ ~regClosed /\ registry[id] = None
        /\ UNCHANGED <<regClosed, ctlClose, listener>>
    BY <1>0, <1>1, HelloRoom DEF RuntimeInv, TypeOK, Hello, ownerVars
  <2>2. /\ Made' = Made \cup {c} /\ wireID'[c] = id /\ c \in Inbound /\ c \notin Made
        /\ \A d \in Made : wireID'[d] = wireID[d]
    BY <2>1, BoundsAssumption DEF Made, Inbound
  <2>3. controller[c] = "none" /\ ctlClose[c] = "idle"
    BY <1>0, <2>2 DEF RegistryInv
  <2>4. /\ \A i \in IDs : registry'[i] = IF i = id THEN c ELSE registry[i]
        /\ \A s \in Sessions : controller'[s] = IF s = c THEN "open" ELSE controller[s]
    BY <1>0, <2>1, <2>2 DEF TypeOK
  <2> HIDE DEF c
  <2>a. registry[id] = None /\ ~regClosed /\ UNCHANGED <<regClosed, ctlClose, listener>>
    BY <2>1
  <2>b. \A i \in IDs : registry'[i] # None => registry'[i] \in Made' /\ wireID'[registry'[i]] = i
    BY <1>0, <2>2, <2>4 DEF RegistryInv
  <2>c. \A d \in Inbound : controller'[d] = "none" <=> d \notin Made'
    BY <1>0, <2>2, <2>4 DEF RegistryInv
  <2>5. \A s \in Sessions : ctlClose'[s] # "idle" => controller'[s] = "closed"
    BY <1>0, <2>a, <2>3, <2>4 DEF RegistryInv
  <2>6. ~regClosed' /\ listener'.at \notin {"controllers", "done"}
    BY <1>0, <2>1 DEF RegistryInv
  <2>8. \A d \in Inbound : controller'[d] = "open" => registry'[wireID'[d]] = d
    <3>1. \A d \in Inbound : controller[d] = "open" => d \in Made /\ registry[wireID[d]] = d /\ d # None
      BY <1>0, <2>1 DEF RegistryInv
    <3>2. ASSUME NEW d \in Inbound, d # c, controller'[d] = "open"
          PROVE  registry'[wireID'[d]] = d
      <4>1. controller[d] = "open"
        BY <2>4, <3>2
      <4>2. d \in Made /\ registry[wireID[d]] = d /\ d # None
        BY <3>1, <4>1
      <4>3. wireID[d] \in IDs /\ wireID[d] # id /\ wireID'[d] = wireID[d]
        BY <1>a, <2>a, <2>2, <4>2
      <4>4. QED
        BY <2>4, <4>2, <4>3
    <3>3. QED
      BY <2>2, <2>4, <3>2
  <2>9. QED
    BY <2>b, <2>c, <2>5, <2>6, <2>8 DEF RegistryInv
<1>2. ASSUME NEW c \in Sessions, registry' = NotifyClosed(c), UNCHANGED <<regClosed, wireID, listener>>,
             NEW st \in {"marked", "done", "idle"},
             controller' = [controller EXCEPT ![c] = "closed"],
             ctlClose' = [ctlClose EXCEPT ![c] = st],
             controller[c] # "none"
      PROVE  RegistryInv'
  <2>1. \A i \in IDs : registry'[i] = IF registry[i] = c THEN None ELSE registry[i]
    BY <1>2 DEF NotifyClosed, WithoutController
  <2>2. /\ \A s \in Sessions : controller'[s] = IF s = c THEN "closed" ELSE controller[s]
        /\ \A s \in Sessions : ctlClose'[s] = IF s = c THEN st ELSE ctlClose[s]
    BY <1>0, <1>2 DEF TypeOK
  <2>3. \A id \in IDs : registry[id] # None => registry[id] \in Sessions
    BY <1>0 DEF TypeOK
  <2>4. \A d \in Inbound : controller'[d] = "open" =>
           IF regClosed THEN d \in listener.left \cup {listener.cur} ELSE registry'[wireID[d]] = d
    BY <1>0, <1>a, <2>1, <2>2 DEF RegistryInv
  <2>5. QED
    BY <1>0, <1>2, <2>1, <2>2, <2>3, <2>4 DEF RegistryInv, Made
<1>3. CASE RemoteClose
  <2>1. dispatcher.ctl \in Inbound /\ controller[dispatcher.ctl] = "open"
    BY <1>a, <1>3 DEF RemoteClose, RuntimeInv, Types, DispatcherInv
  <2>2. /\ \A s \in Sessions :
              controller'[s] = IF s = dispatcher.ctl THEN "closed" ELSE controller[s]
        /\ UNCHANGED <<registry, regClosed, wireID, ctlClose, listener>>
    BY <1>0, <1>3, <2>1 DEF RemoteClose, TypeOK, registryVars, ownerVars
  <2>3. QED
    BY <1>0, <2>1, <2>2 DEF RegistryInv, Made
<1>d. CASE RemoteCloseNotifies
  <2>1. dispatcher.ctl \in Sessions /\ controller[dispatcher.ctl] = "closed"
    BY <1>a, <1>d DEF RemoteCloseNotifies, RuntimeInv, Types, DispatcherInv, LeavingInv
  <2>2. /\ controller' = [controller EXCEPT ![dispatcher.ctl] = "closed"]
        /\ ctlClose' = [ctlClose EXCEPT ![dispatcher.ctl] = ctlClose[dispatcher.ctl]]
        /\ ctlClose[dispatcher.ctl] \in {"marked", "done", "idle"}
    BY <1>0, <1>d, <2>1 DEF RemoteCloseNotifies, TypeOK, controllerVars
  <2>3. QED
    BY <1>2, <1>d, <2>1, <2>2 DEF RemoteCloseNotifies, ownerVars
<1>4. ASSUME NEW s \in Sessions, FinishControllerClose(s)
      PROVE  RegistryInv'
  <2>1. controller[s] = "closed"
    BY <1>0, <1>4 DEF FinishControllerClose, RegistryInv
  <2>2. controller' = [controller EXCEPT ![s] = "closed"]
    BY <1>0, <1>4, <2>1 DEF FinishControllerClose, TypeOK
  <2>3. QED
    BY <1>2, <1>4, <2>1, <2>2 DEF FinishControllerClose, ownerVars
<1>5. CASE \/ \E s \in Sessions : CloseController(s)
           \/ \E s \in Outbound : FailClosesController(s)
  BY <1>b, <1>5 DEF CloseController, FailClosesController, ownerVars
<1>6. ASSUME NEW s \in Outbound, SetController(s)
      PROVE  RegistryInv'
  <2>1. controller[s] = "none" /\ ctlClose[s] = "idle"
    BY <1>0, <1>6 DEF SetController, RuntimeInv, ClosedInv, RegistryInv
  <2>2. UNCHANGED <<registry, regClosed, wireID, ctlClose, listener>>
    BY <1>6 DEF SetController, registryVars, ownerVars
  <2>3. \A c \in Sessions : c # s => controller'[c] = controller[c]
    BY <1>0, <1>6 DEF SetController, TypeOK
  <2>4. \A c \in Sessions : ctlClose[c] # "idle" => c # s
    BY <2>1
  <2>5. \A c \in Inbound : controller'[c] = controller[c]
    BY <2>3
  <2>6. \A id \in IDs : registry[id] # None => registry[id] \in Inbound
    BY <1>0 DEF TypeOK
  <2>7. \A c \in Sessions : ctlClose'[c] # "idle" => controller'[c] = "closed"
    BY <1>0, <2>2, <2>3, <2>4 DEF RegistryInv
  <2>8. QED
    BY <1>0, <2>2, <2>5, <2>6, <2>7, ZenonT(40) DEF RegistryInv, Made
<1>7. CASE AbortController
  <2>1. dispatcher.ctl \in Inbound /\ controller[dispatcher.ctl] # "none"
    BY <1>0, <1>a, <1>7 DEF AbortController, RuntimeInv, Types, DispatcherInv, RegistryInv
  <2>2. QED
    BY <1>b, <1>c, <1>7, <2>1 DEF AbortController, ownerVars, controllerVars
<1>8. CASE DispatcherActs
  <2>1. UNCHANGED <<registry, regClosed, wireID, ctlClose, listener>>
    BY <1>8 DEF DispatcherActs, registryVars, ownerVars
  <2>2. \/ UNCHANGED controller
        \/ /\ dispatcher.wrap \in Outbound
           /\ controller' = [controller EXCEPT ![dispatcher.wrap] = "closed"]
    BY <1>8 DEF DispatcherActs
  <2>3. /\ \A c \in Inbound : controller'[c] = controller[c]
        /\ \A c \in Sessions : controller[c] = "closed" => controller'[c] = "closed"
    BY <1>0, <2>2 DEF TypeOK
  <2>4. \A id \in IDs : registry[id] # None => registry[id] \in Inbound
    BY <1>0 DEF TypeOK
  <2>5. QED
    BY <1>0, <2>1, <2>3, <2>4 DEF RegistryInv, Made
<1>9. CASE RegistryClose
  <2>1. /\ regClosed' = TRUE
        /\ listener' = [at |-> "controllers", cur |-> None, left |-> Registered]
        /\ registry' = [id \in IDs |-> None]
        /\ UNCHANGED <<wireID, controller, ctlClose>>
    BY <1>9 DEF RegistryClose, RegistrySnapshot, controllerVars
  <2>2. listener'.at = "controllers" /\ listener'.left = Registered /\ listener'.cur = None
    BY <2>1
  <2>3. ~regClosed
    BY <1>0, <1>9 DEF RegistryClose, RegistryInv
  <2>4. Registered \subseteq Made
    BY <1>0 DEF RegistryInv, Registered
  <2>5. \A c \in Inbound : controller[c] = "open" => c \in Registered
    <3>1. \A c \in Inbound : controller[c] = "open" => c \in Made /\ registry[wireID[c]] = c /\ c # None
      BY <1>0, <2>3 DEF RegistryInv
    <3>2. QED
      BY <1>a, <3>1 DEF Registered
  <2>6. QED
    BY <1>0, <2>1, <2>2, <2>4, <2>5 DEF RegistryInv, Made
<1>10. CASE RegistryClosesController
  <2>1. listener.at = "controllers" /\ regClosed /\ UNCHANGED <<registry, regClosed, wireID>>
    BY <1>0, <1>10 DEF RegistryClosesController, registryVars, RegistryInv
  <2>2. CASE /\ listener.cur # None
             /\ StartControllerClose(listener.cur)
             /\ UNCHANGED listener
    <3>1. listener.cur \in Made /\ controller[listener.cur] # "none"
      BY <1>0, <1>a, <2>1, <2>2 DEF RegistryInv
    <3>2. QED
      BY <1>a, <1>b, <2>1, <2>2, <3>1 DEF registryVars
  <2>3. CASE /\ listener.cur = None
             /\ \E c \in listener.left :
                    listener' = [listener EXCEPT !.cur = c, !.left = @ \ {c}]
             /\ UNCHANGED controllerVars
    <3>1. /\ listener'.at = "controllers" /\ UNCHANGED <<controller, ctlClose>>
          /\ listener'.left \cup {listener'.cur} \subseteq listener.left
          /\ listener.left \subseteq listener'.left \cup {listener'.cur}
      BY <1>0, <2>1, <2>3 DEF ListenerType, controllerVars
    <3>2. QED
      BY <1>0, <2>1, <2>3, <3>1 DEF RegistryInv, Made
  <2>4. CASE /\ listener.cur # None /\ ctlClose[listener.cur] = "done"
             /\ listener' = [listener EXCEPT !.cur = None]
             /\ UNCHANGED controllerVars
    <3>1. /\ listener'.at = "controllers" /\ UNCHANGED <<controller, ctlClose>>
          /\ listener'.left = listener.left /\ listener'.cur = None
      BY <1>0, <2>1, <2>4 DEF ListenerType, controllerVars
    <3>2. listener.cur \in Sessions /\ controller[listener.cur] = "closed"
      BY <1>0, <2>4 DEF ListenerType, RegistryInv
    <3>3. QED
      BY <1>0, <2>1, <3>1, <3>2 DEF RegistryInv, Made
  <2>5. QED
    BY <1>10, <2>2, <2>3, <2>4 DEF RegistryClosesController
<1>11. CASE UNCHANGED <<registryVars, controllerVars>>
  <2>1. StartListenerClose => RegistryInv'
    BY <1>0, <1>c, <1>11 DEF StartListenerClose, ListenerType
  <2>2. UNCHANGED listener => RegistryInv'
    BY <1>c, <1>11
  <2>3. CASE ListenerSnapshot
    <3>1. listener.at = "begun" /\ listener'.at = "wrappers" /\ ~regClosed
      BY <1>0, <2>3 DEF ListenerSnapshot, RegistryInv
    <3>2. QED
      BY <1>c, <1>11, <3>1
  <2>4. CASE ListenerClosesWrapper
    <3>1. listener.at = "wrappers" /\ listener'.at = "wrappers" /\ ~regClosed
      BY <1>0, <2>4, ZenonT(40) DEF ListenerClosesWrapper, ListenerType, RegistryInv
    <3>2. QED
      BY <1>c, <1>11, <3>1
  <2>5. CASE ListenerClosed
    <3>1. /\ listener.at = "controllers" /\ listener'.at = "done"
          /\ UNCHANGED listener.left /\ UNCHANGED listener.cur
      BY <1>0, <2>5 DEF ListenerClosed, ListenerType
    <3>2. QED
      BY <1>c, <1>11, <3>1
  <2>6. QED
    BY <1>9, <1>10, <2>1, <2>2, <2>3, <2>4, <2>5, OwnersFrame
       DEF UserClosesListener, PeerClose, DispatcherClosesListener, PeerSignals,
           PeerClosesSession, PeerClosesListener, PeerCloseReturns, ownerVars
<1>12. QED
  BY <1>1, <1>3, <1>d, <1>4, <1>5, <1>6, <1>7, <1>8, <1>9, <1>10, <1>11, RegistryFrame

\* Between marking a controller closed for a CLOSE packet and taking it out of the
\* registry the dispatcher does nothing else.
LEMMA NotifyingStays ==
    ASSUME Next, dispatcher.at = "notifying"
    PROVE  RemoteCloseNotifies \/ UNCHANGED dispatcher
<1>1. ~\E id \in IDs : Hello(id) \/ FindController(id)
  BY DEF Hello, FindController
<1>2. dispatcher # Idle
  BY DEF Idle
<1>3. ~(\E s \in Sessions : DispatcherBegins(s)) /\ ~ReceivePacket /\ ~ListenerFails /\ ~DispatcherExits
  BY <1>2 DEF DispatcherBegins, ReceivePacket, ListenerFails, DispatcherExits
<1>4. /\ ~DropPacket /\ ~DispatcherActs /\ ~DispatcherSent /\ ~SendAck /\ ~AckSent
      /\ ~AddInboundSession /\ ~AbortController /\ ~Offer /\ ~CheckState /\ ~Answered /\ ~Lookup
      /\ ~DispatcherCloses /\ ~DispatcherClosesListener /\ ~KnownPacket /\ ~RemoteClose
  BY DEF DropPacket, DispatcherActs, DispatcherSent, SendAck, AckSent, AddInboundSession,
     AbortController, Offer, CheckState, Answered, Lookup, DispatcherCloses,
     DispatcherClosesListener, KnownPacket, RemoteClose
<1>5. QED
  BY <1>1, <1>3, <1>4, DispatcherFrame

\* Only a CLOSE packet sends the dispatcher to notifyClosed.
LEMMA NotifyingBegins ==
    ASSUME RuntimeInv, Next, dispatcher'.at = "notifying"
    PROVE  RemoteClose \/ UNCHANGED dispatcher
<1>0. dispatcher \in DispatcherType
  BY DEF RuntimeInv, Types
<1>1. CASE \/ \E id \in IDs : Hello(id) \/ FindController(id)
           \/ \E s \in Sessions : DispatcherBegins(s)
           \/ ReceivePacket \/ ListenerFails \/ DropPacket \/ DispatcherActs
           \/ DispatcherExits \/ AddInboundSession \/ Lookup
  <2>1. \/ dispatcher' = Idle
        \/ \E at \in {"created", "found", "lookup", "checking", "begun", "packet", "listener",
                       "sending", "closing", "stopped", "aborting", "offering"} :
              \E c, s : dispatcher' = At(at, c, s)
    BY <1>1 DEF Hello, FindController, DispatcherBegins, ReceivePacket, ListenerFails,
       DropPacket, DispatcherActs, DispatcherExits, AddInboundSession, Lookup
  <2>2. QED
    BY <2>1 DEF At, Idle
<1>2. CASE \/ KnownPacket \/ RemoteCloseNotifies \/ SendAck \/ AckSent \/ DispatcherSent
           \/ Answered \/ Offer \/ CheckState
  <2>1. dispatcher' = Idle
        \/ \E at \in {"answering", "lookup", "acking", "adding", "checking", "closing"} :
              dispatcher' = [dispatcher EXCEPT !.at = at]
    BY <1>2 DEF KnownPacket, RemoteCloseNotifies, SendAck, AckSent, DispatcherSent, Answered,
       Offer, CheckState
  <2>2. QED
    BY <1>0, <2>1 DEF DispatcherType, Idle
<1>3. CASE AbortController \/ DispatcherCloses \/ DispatcherClosesListener
  <2>1. UNCHANGED dispatcher \/ dispatcher' = Idle
    BY <1>3 DEF AbortController, DispatcherCloses, DispatcherClosesListener
  <2>2. QED
    BY <2>1 DEF Idle
<1>4. QED
  BY <1>1, <1>2, <1>3, DispatcherFrame

LEMMA LeavingKept ==
    ASSUME RuntimeInv, Next
    PROVE  LeavingInv'
<1> USE SessionSets
<1>0. TypeOK /\ RegistryInv /\ LeavingInv
  BY DEF RuntimeInv, Types
<1>a. /\ Made \subseteq Inbound /\ \A c \in Made : wireID[c] \in IDs
      /\ \A id \in IDs : registry[id] # None => registry[id] \in Made /\ registry[id] \in Sessions
      /\ dispatcher.at = "notifying" => dispatcher.ctl \in Made
  BY <1>0, MadeFacts DEF RegistryInv, RuntimeInv, Types, DispatcherInv
<1>1. CASE RemoteClose
  <2>1. /\ dispatcher.ctl \in Sessions
        /\ dispatcher'.at = "notifying" /\ dispatcher'.ctl = dispatcher.ctl
    BY <1>a, <1>1 DEF RemoteClose, RuntimeInv, Types, DispatcherInv, DispatcherType
  <2>2. /\ dispatcher.at # "notifying" /\ UNCHANGED <<registry, ctlClose>>
        /\ \A s \in Sessions : controller'[s] = IF s = dispatcher.ctl THEN "closed" ELSE controller[s]
    BY <1>0, <1>1, <2>1 DEF RemoteClose, TypeOK, registryVars
  <2>3. QED
    BY <1>0, <1>a, <2>1, <2>2 DEF LeavingInv, Leaving
<1>2. CASE RemoteCloseNotifies
  <2>1. /\ dispatcher'.at # "notifying" /\ UNCHANGED <<controller, ctlClose>>
        /\ \A id \in IDs : registry'[id] = IF registry[id] = dispatcher.ctl THEN None ELSE registry[id]
    BY <1>2 DEF RemoteCloseNotifies, RuntimeInv, Types, DispatcherType, NotifyClosed,
       WithoutController, controllerVars
  <2>2. QED
    BY <1>0, <1>a, <2>1 DEF LeavingInv, Leaving
<1> DEFINE Kept == /\ \A c \in Sessions : dispatcher.at = "notifying" /\ dispatcher.ctl = c =>
                          dispatcher'.at = "notifying" /\ dispatcher'.ctl = c
                   /\ dispatcher'.at = "notifying" => UNCHANGED dispatcher
<1>b. ASSUME ~RemoteClose, ~RemoteCloseNotifies
      PROVE  Kept
  BY <1>b, NotifyingStays, NotifyingBegins
<1>c. ASSUME Kept, UNCHANGED registry,
             \A c \in Inbound : controller'[c] = controller[c] \/ ctlClose'[c] = "marked",
             \A c \in Inbound : controller[c] = "closed" => controller'[c] = "closed",
             \A c \in Inbound : ctlClose[c] = "marked" => ctlClose'[c] = "marked"
      PROVE  LeavingInv'
  BY <1>0, <1>a, <1>c DEF LeavingInv, Leaving
<1>3. ASSUME Kept, NEW id \in IDs, Hello(id)
      PROVE  LeavingInv'
  <2> DEFINE c == Len(wireID) + 1
  <2>1. /\ wireID \in Seq(IDs) /\ Len(wireID) < MaxInbound
        /\ registry' = [registry EXCEPT ![id] = c]
        /\ controller' = [controller EXCEPT ![c] = "open"] /\ UNCHANGED ctlClose
    BY <1>0, <1>3, HelloRoom DEF RuntimeInv, TypeOK, Hello
  <2>2. c \in Inbound /\ c \notin Made
    BY <2>1, BoundsAssumption DEF Made, Inbound
  <2>3. /\ \A i \in IDs : registry'[i] = IF i = id THEN c ELSE registry[i]
        /\ \A s \in Sessions : controller'[s] = IF s = c THEN "open" ELSE controller[s]
    BY <1>0, <2>1, <2>2 DEF TypeOK
  <2>4. c # None /\ c \in Sessions
    BY <2>2
  <2> HIDE DEF c
  <2>5. ASSUME NEW i \in IDs, registry'[i] # None, controller'[registry'[i]] = "closed"
        PROVE  Leaving(registry[i])'
    <3>1. i # id /\ registry'[i] = registry[i] /\ registry[i] # c
      BY <1>a, <2>2, <2>3, <2>4, <2>5
    <3>2. registry[i] \in Sessions /\ controller[registry[i]] = "closed" /\ UNCHANGED ctlClose
      BY <1>a, <2>1, <2>3, <2>5, <3>1
    <3>3. Leaving(registry[i])
      BY <1>0, <2>5, <3>1, <3>2 DEF LeavingInv
    <3>4. QED
      BY <1>3, <3>1, <3>2, <3>3 DEF Leaving
  <2>6. dispatcher'.at # "notifying"
    BY <1>3 DEF Hello, At
  <2>7. QED
    BY <2>5, <2>6 DEF LeavingInv
<1>4. ASSUME Kept, NEW s \in Sessions, FinishControllerClose(s)
      PROVE  LeavingInv'
  <2>1. /\ \A id \in IDs : registry'[id] = IF registry[id] = s THEN None ELSE registry[id]
        /\ \A c \in Sessions : c # s => ctlClose'[c] = ctlClose[c]
        /\ UNCHANGED controller
    BY <1>0, <1>4 DEF FinishControllerClose, NotifyClosed, WithoutController, TypeOK
  <2>2. ASSUME NEW i \in IDs, registry'[i] # None, controller'[registry'[i]] = "closed"
        PROVE  Leaving(registry[i])'
    <3>1. /\ registry'[i] = registry[i] /\ registry[i] # s /\ registry[i] \in Sessions
          /\ controller[registry[i]] = "closed"
      BY <1>a, <2>1, <2>2
    <3>2. Leaving(registry[i])
      BY <1>0, <2>2, <3>1 DEF LeavingInv
    <3>3. QED
      BY <1>4, <2>1, <3>1, <3>2 DEF Leaving
  <2>3. dispatcher'.at = "notifying" => controller'[dispatcher'.ctl] = "closed"
    BY <1>0, <1>4, <2>1 DEF LeavingInv
  <2>4. QED
    BY <2>2, <2>3 DEF LeavingInv
<1>5. ASSUME Kept, NEW c \in Sessions, StartControllerClose(c), UNCHANGED registry
      PROVE  LeavingInv'
  <2>1. /\ \A s \in Sessions : controller'[s] = IF s = c THEN "closed" ELSE controller[s]
        /\ \A s \in Sessions : ctlClose'[s] = IF s = c THEN "marked" ELSE ctlClose[s]
    BY <1>0, <1>5 DEF StartControllerClose, TypeOK
  <2>2. QED
    BY <1>c, <1>5, <2>1
<1>6. ASSUME Kept, NEW s \in Outbound, SetController(s)
      PROVE  LeavingInv'
  <2>1. /\ UNCHANGED <<registry, ctlClose>>
        /\ \A c \in Inbound : controller'[c] = controller[c]
    BY <1>0, <1>6 DEF SetController, TypeOK, registryVars
  <2>2. QED
    BY <1>c, <1>6, <2>1
<1>7. ASSUME Kept, DispatcherActs
      PROVE  LeavingInv'
  <2>1. \/ UNCHANGED controller
        \/ /\ dispatcher.wrap \in Outbound
           /\ controller' = [controller EXCEPT ![dispatcher.wrap] = "closed"]
    BY <1>7 DEF DispatcherActs
  <2>2. \A c \in Inbound : controller'[c] = controller[c]
    BY <1>0, <2>1 DEF TypeOK
  <2>3. QED
    BY <1>c, <1>7, <2>2 DEF DispatcherActs, registryVars
<1>8. ASSUME Kept, AbortController
      PROVE  LeavingInv'
  <2>1. dispatcher.ctl \in Sessions
    BY <1>a, <1>8 DEF AbortController, RuntimeInv, Types, DispatcherInv
  <2>2. QED
    BY <1>c, <1>5, <1>8, <2>1 DEF AbortController, registryVars, controllerVars
<1>9. ASSUME Kept, RegistryClose
      PROVE  LeavingInv'
  <2>1. \A id \in IDs : registry'[id] = None
    BY <1>9 DEF RegistryClose
  <2>2. UNCHANGED controller
    BY <1>9 DEF RegistryClose, controllerVars
  <2>3. QED
    BY <1>0, <1>9, <2>1, <2>2 DEF LeavingInv
<1>10. ASSUME Kept, RegistryClosesController
       PROVE  LeavingInv'
  <2>1. listener.cur # None => listener.cur \in Sessions
    BY DEF RuntimeInv, Types, ListenerType
  <2>2. QED
    BY <1>c, <1>5, <1>10, <2>1 DEF RegistryClosesController, registryVars, controllerVars
<1>11. ASSUME Kept, UNCHANGED <<registryVars, controllerVars>>
       PROVE  LeavingInv'
  BY <1>c, <1>11 DEF registryVars, controllerVars
<1>12. ASSUME Kept, \/ \E s \in Sessions : CloseController(s)
                    \/ \E s \in Outbound : FailClosesController(s)
       PROVE  LeavingInv'
  BY <1>5, <1>12 DEF CloseController, FailClosesController, registryVars
<1> HIDE DEF Kept
<1>13. QED
  BY <1>1, <1>2, <1>b, <1>3, <1>4, <1>6, <1>7, <1>8, <1>9, <1>10, <1>11, <1>12, RegistryFrame

----------------------------------------------------------------------------
(* The tables of the Peer and the limits                                   *)

LEMMA TablesKept ==
    ASSUME RuntimeInv, Next
    PROVE  TablesInv'
<1> USE SessionSets
<1>0. TypeOK /\ TablesInv
  BY DEF RuntimeInv, Types
<1>a. /\ Made \subseteq Made' /\ Made \subseteq Inbound
      /\ \A c \in Made : wireID[c] \in IDs /\ wireID'[c] = wireID[c]
  BY <1>0, MadeFacts, MadeGrows
<1>1. ASSUME NEW s \in Sessions, RemoveSession(s)
      PROVE  TablesInv'
  <2>1. /\ sessions' = sessions \ {s}
        /\ \A id \in IDs : inbound'[id] = IF inbound[id] = s THEN None ELSE inbound[id]
    BY <1>1 DEF RemoveSession, RemoveInbound
  <2>2. \A id \in IDs : inbound'[id] # None => inbound'[id] = inbound[id] /\ inbound[id] # s
    BY <2>1
  <2>3. \A id \in IDs : inbound'[id] # None =>
           inbound'[id] \in sessions' /\ inbound'[id] \in Made' /\ wireID'[inbound'[id]] = id
    BY <1>0, <1>a, <2>1, <2>2 DEF TablesInv
  <2>4. \A t \in sessions' \cap Inbound : t \in Made' /\ inbound'[wireID'[t]] = t
    BY <1>0, <1>a, <2>1 DEF TablesInv
  <2>5. QED
    BY <2>3, <2>4 DEF TablesInv
<1>2. CASE UNCHANGED tableVars
  BY <1>0, <1>a, <1>2 DEF TablesInv, tableVars
<1>3. CASE \/ \E s \in Sessions : FinishWrapperClose(s)
           \/ \E s \in Outbound : FailFinishes(s)
  BY <1>1, <1>2, <1>3 DEF FinishWrapperClose, FailFinishes
<1>4. CASE \E s \in Outbound : NewSession(s)
  <2>1. UNCHANGED inbound /\ sessions \subseteq sessions' /\ sessions' \cap Inbound \subseteq sessions
    BY <1>4 DEF NewSession
  <2>2. QED
    BY <1>0, <1>a, <2>1 DEF TablesInv
<1>5. CASE AddInboundSession
  <2>1. CASE /\ inbound[wireID[dispatcher.ctl]] = None
             /\ sessions' = sessions \cup {dispatcher.ctl}
             /\ inbound' = [inbound EXCEPT ![wireID[dispatcher.ctl]] = dispatcher.ctl]
    <3>1. dispatcher.ctl \in Made
      BY <1>5 DEF AddInboundSession, RuntimeInv, Types, DispatcherInv
    <3>2. \A id \in IDs : inbound'[id] =
             IF id = wireID[dispatcher.ctl] THEN dispatcher.ctl ELSE inbound[id]
      BY <1>0, <1>a, <2>1, <3>1 DEF TypeOK
    <3>3. ASSUME NEW id \in IDs, inbound'[id] # None
          PROVE  /\ inbound'[id] \in sessions' /\ inbound'[id] \in Made'
                 /\ wireID'[inbound'[id]] = id
      <4>0. sessions \subseteq sessions' /\ dispatcher.ctl \in sessions'
        BY <2>1
      <4>1. CASE id = wireID[dispatcher.ctl]
        <5>1. inbound'[id] = dispatcher.ctl
          BY <3>2, <4>1
        <5>2. QED
          BY <1>a, <3>1, <4>0, <4>1, <5>1
      <4>2. CASE id # wireID[dispatcher.ctl]
        <5>1. inbound'[id] = inbound[id]
          BY <3>2, <4>2
        <5>2. inbound[id] \in sessions /\ inbound[id] \in Made /\ wireID[inbound[id]] = id
          BY <1>0, <3>3, <5>1 DEF TablesInv
        <5>3. QED
          BY <1>a, <4>0, <5>1, <5>2
      <4>3. QED
        BY <4>1, <4>2
    <3>4. ASSUME NEW s \in sessions' \cap Inbound, s # dispatcher.ctl
          PROVE  s \in Made' /\ inbound'[wireID'[s]] = s
      <4>1. s \in Made /\ inbound[wireID[s]] = s /\ s # None
        BY <1>0, <2>1, <3>4 DEF TablesInv
      <4>2. wireID[s] # wireID[dispatcher.ctl]
        BY <2>1, <4>1
      <4>3. QED
        BY <1>a, <3>2, <4>1, <4>2
    <3>5. dispatcher.ctl \in Made' /\ inbound'[wireID'[dispatcher.ctl]] = dispatcher.ctl
      BY <1>a, <3>1, <3>2
    <3>6. QED
      BY <3>3, <3>4, <3>5 DEF TablesInv
  <2>2. QED
    BY <1>2, <1>5, <2>1 DEF AddInboundSession
<1>6. QED
  BY <1>2, <1>3, <1>4, <1>5, TablesFrame

LEMMA LimitsKept ==
    ASSUME RuntimeInv, Next
    PROVE  LimitsInv'
<1> USE SessionSets
<1>0. TypeOK /\ LimitsInv /\ scenario \in Scenarios /\ UNCHANGED scenario
  BY DEF RuntimeInv, Types, Next
<1>a. scenario.maxSessions \in Nat
  BY <1>0, LimitsAssumption
<1>b. /\ sessions \subseteq Sessions /\ IsFiniteSet(sessions) /\ Cardinality(sessions) \in Nat
      /\ Registered \subseteq Sessions /\ IsFiniteSet(Registered) /\ Cardinality(Registered) \in Nat
  <2>1. sessions \subseteq Sessions /\ Registered \subseteq Sessions
    BY <1>0 DEF TypeOK, Registered
  <2>2. QED
    BY <2>1, FS_Subset, FS_CardinalityType
<1>1. Cardinality(sessions') <= scenario.maxSessions
  <2>1. ASSUME NEW s, sessions' = sessions \cup {s}, Cardinality(sessions) < scenario.maxSessions
        PROVE  Cardinality(sessions') <= scenario.maxSessions
    <3>1. Cardinality(sessions') = IF s \in sessions THEN Cardinality(sessions)
                                    ELSE Cardinality(sessions) + 1
      BY <1>b, <2>1, FS_AddElement
    <3>2. QED
      BY <1>a, <1>b, <2>1, <3>1
  <2>2. ASSUME sessions' \subseteq sessions
        PROVE  Cardinality(sessions') <= scenario.maxSessions
    <3>1. Cardinality(sessions') <= Cardinality(sessions) /\ Cardinality(sessions') \in Nat
      BY <1>b, <2>2, FS_Subset, FS_CardinalityType
    <3>2. QED
      BY <1>0, <1>a, <1>b, <3>1 DEF LimitsInv
  <2>3. \/ sessions' \subseteq sessions
        \/ \E s : sessions' = sessions \cup {s} /\ Cardinality(sessions) < scenario.maxSessions
    BY TablesFrame DEF FinishWrapperClose, NewSession, FailFinishes, AddInboundSession,
       Admissible, RemoveSession, tableVars
  <2>4. QED
    BY <2>1, <2>2, <2>3
<1>2. Cardinality(Registered') <= scenario.maxSessions
  <2>1. ASSUME NEW c, Registered' \subseteq Registered \cup {c},
               Cardinality(Registered) < scenario.maxSessions
        PROVE  Cardinality(Registered') <= scenario.maxSessions
    <3>0. /\ Cardinality(Registered \cup {c}) = IF c \in Registered THEN Cardinality(Registered)
                                                ELSE Cardinality(Registered) + 1
          /\ IsFiniteSet(Registered \cup {c})
      BY <1>b, FS_AddElement
    <3>1. /\ Cardinality(Registered \cup {c}) <= Cardinality(Registered) + 1
          /\ IsFiniteSet(Registered \cup {c}) /\ Cardinality(Registered \cup {c}) \in Nat
      BY <1>b, <3>0
    <3>2. /\ Cardinality(Registered') <= Cardinality(Registered \cup {c})
          /\ Cardinality(Registered') \in Nat
      BY <2>1, <3>1, FS_Subset, FS_CardinalityType
    <3>3. QED
      BY <1>a, <1>b, <2>1, <3>1, <3>2
  <2>2. ASSUME Registered' \subseteq Registered
        PROVE  Cardinality(Registered') <= scenario.maxSessions
    <3>1. Cardinality(Registered') <= Cardinality(Registered) /\ Cardinality(Registered') \in Nat
      BY <1>b, <2>2, FS_Subset, FS_CardinalityType
    <3>2. QED
      BY <1>0, <1>a, <1>b, <3>1 DEF LimitsInv
  <2>3. ASSUME NEW id \in IDs, Hello(id)
        PROVE  Cardinality(Registered') <= scenario.maxSessions
    <3>1. registry' = [registry EXCEPT ![id] = Len(wireID) + 1]
          /\ Cardinality(Registered) < scenario.maxSessions
      BY <2>3 DEF Hello
    <3>2. Registered' \subseteq Registered \cup {Len(wireID) + 1}
      BY <1>0, <3>1 DEF Registered, TypeOK
    <3>3. QED
      BY <2>1, <3>1, <3>2
  <2>4. CASE \/ \E c : registry' = NotifyClosed(c)
             \/ registry' = [id \in IDs |-> None]
             \/ UNCHANGED registry
    <3>1. Registered' \subseteq Registered
      BY <2>4 DEF Registered, NotifyClosed, WithoutController
    <3>2. QED
      BY <2>2, <3>1
  <2>5. \/ \E id \in IDs : Hello(id)
        \/ \E c : registry' = NotifyClosed(c)
        \/ registry' = [id \in IDs |-> None]
        \/ UNCHANGED registry
    BY RegistryFrame DEF RemoteClose, RemoteCloseNotifies, FinishControllerClose,
       CloseController, SetController, FailClosesController, DispatcherActs, AbortController, RegistryClose,
       RegistryClosesController, registryVars
  <2>6. QED
    BY <2>3, <2>4, <2>5
<1>3. QED
  BY <1>0, <1>1, <1>2 DEF LimitsInv

----------------------------------------------------------------------------
(* Sessions without a wrapper                                              *)

\* The dispatcher gets to addInboundSession with the controller it made.
LEMMA DispatcherAdds ==
    ASSUME RuntimeInv, Next, dispatcher'.at \in {"created", "acking", "adding"}
    PROVE  \/ \E id \in IDs : Hello(id) /\ dispatcher'.ctl = Len(wireID) + 1
           \/ dispatcher.at \in {"created", "acking", "adding"} /\ dispatcher'.ctl = dispatcher.ctl
<1>0. dispatcher \in DispatcherType
  BY DEF RuntimeInv, Types
<1>1. ASSUME NEW id \in IDs, Hello(id)
      PROVE  dispatcher'.ctl = Len(wireID) + 1
  <2>1. dispatcher' = At("created", Len(wireID) + 1, None)
    BY <1>1 DEF Hello
  <2>2. QED
    BY <2>1 DEF At
<1>2. CASE SendAck \/ AckSent \/ UNCHANGED dispatcher
  BY <1>0, <1>2 DEF SendAck, AckSent, DispatcherType
<1>3. CASE \/ \E id \in IDs : FindController(id)
           \/ \E s \in Sessions : DispatcherBegins(s)
           \/ ReceivePacket \/ ListenerFails \/ DropPacket \/ DispatcherActs
           \/ DispatcherExits \/ AddInboundSession \/ Lookup
  <2>1. \/ dispatcher' = Idle
        \/ \E at \in {"found", "lookup", "checking", "begun", "packet", "listener", "sending",
                       "closing", "stopped", "aborting", "offering"} :
              \E c, s : dispatcher' = At(at, c, s)
    BY <1>3 DEF FindController, DispatcherBegins, ReceivePacket, ListenerFails, DropPacket,
       DispatcherActs, DispatcherExits, AddInboundSession, Lookup
  <2>2. QED
    BY <2>1 DEF At, Idle
<1>9. CASE KnownPacket \/ RemoteClose \/ RemoteCloseNotifies
  <2>1. dispatcher'.at \in {"answering", "notifying", "lookup"}
    BY <1>0, <1>9 DEF KnownPacket, RemoteClose, RemoteCloseNotifies, DispatcherType
  <2>2. QED
    BY <2>1
<1>4. CASE Offer
  <2>1. dispatcher'.at \in {"checking", "closing"}
    BY <1>0, <1>4 DEF Offer, DispatcherType
  <2>2. QED
    BY <2>1
<1>5. CASE DispatcherSent \/ Answered
  BY <1>0, <1>5 DEF DispatcherSent, Answered, DispatcherType
<1>6. CASE CheckState
  <2>1. dispatcher'.at \in {"idle", "closing"}
    BY <1>0, <1>6 DEF CheckState, DispatcherType, Idle
  <2>2. QED
    BY <2>1
<1>7. CASE AbortController \/ DispatcherCloses \/ DispatcherClosesListener
  BY <1>2, <1>7 DEF AbortController, DispatcherCloses, DispatcherClosesListener, Idle
<1>8. QED
  BY <1>1, <1>2, <1>3, <1>4, <1>5, <1>6, <1>7, <1>9, DispatcherFrame

\* No construction begins again.
LEMMA ConstructSteps ==
    ASSUME Next
    PROVE  \/ UNCHANGED construct
           \/ \E s \in Outbound : \E p \in ConstructPlaces \ {"none"} :
                  construct' = [construct EXCEPT ![s] = p]
<1>1. CASE \E s \in Sessions : FinishWrapperClose(s)
  BY <1>1 DEF FinishWrapperClose
<1>2. CASE \E s \in Outbound : NewSession(s) \/ OpenCarrier(s) \/ AddCarrier(s) \/ FailFinishes(s)
  BY <1>2 DEF NewSession, OpenCarrier, AddCarrier, FailFinishes, ConstructPlaces
<1>3. CASE \E s \in Outbound : \/ SetController(s) \/ StartController(s) \/ Constructed(s)
                              \/ FailConstruction(s) \/ FailTakesOwner(s)
  BY <1>3 DEF SetController, StartController, Constructed, FailConstruction, FailTakesOwner,
     ConstructPlaces
<1>4. CASE UNCHANGED constructVars
  BY <1>4 DEF constructVars
<1>5. QED
  BY <1>1, <1>2, <1>3, <1>4, ConstructFrame

\* A wrapper is made once.
LEMMA FreshShrinks ==
    ASSUME RuntimeInv, Next, NEW s \in Sessions, Fresh(s)'
    PROVE  /\ Fresh(s)
           /\ s \in Outbound => construct[s] = "none" /\ construct'[s] = "none"
           /\ s \in Inbound => s \notin Made' \/ (dispatcher'.at \in {"created", "acking", "adding"}
                                                  /\ dispatcher'.ctl = s)
<1> USE SessionSets
<1>0. TypeOK /\ DispatcherInv'
  BY DispatcherTypes DEF RuntimeInv, Types
<1>a. Made \subseteq Made' /\ Made' \subseteq Inbound
  BY MadeGrows
<1>1. CASE s \in Outbound
  <2>1. construct'[s] = "none"
    BY <1>0, <1>a, <1>1 DEF Fresh, DispatcherInv
  <2>2. construct[s] = "none"
    BY <1>0, <1>1, <2>1, ConstructSteps DEF TypeOK, ConstructPlaces
  <2>3. QED
    BY <1>1, <2>1, <2>2 DEF Fresh
<1>2. CASE s \in Inbound
  <2>1. s \notin Made' \/ (dispatcher'.at \in {"created", "acking", "adding"} /\ dispatcher'.ctl = s)
    BY <1>2 DEF Fresh
  <2>2. CASE s \notin Made'
    BY <1>2, <1>a, <2>2 DEF Fresh
  <2>3. CASE dispatcher'.at \in {"created", "acking", "adding"} /\ dispatcher'.ctl = s
    <3>1. Len(wireID) + 1 \notin Made
      BY <1>0 DEF TypeOK, Made
    <3>2. QED
      BY <1>2, <2>3, <3>1, DispatcherAdds DEF Fresh
  <2>4. QED
    BY <1>2, <2>1, <2>2, <2>3
<1>3. QED
  BY <1>1, <1>2

LEMMA FreshKept ==
    ASSUME RuntimeInv, Next
    PROVE  FreshInv'
<1> USE SessionSets
<1> SUFFICES ASSUME NEW s \in Sessions, Fresh(s)'
             PROVE  (/\ s \notin sessions /\ wrapClose[s] = "idle"
                     /\ s \notin closed /\ s \notin handed /\ ~Queued(s)
                     /\ write[s] = "none"
                     /\ dispatcher.wrap # s
                     /\ listener.at = "wrappers" => s \notin listener.left /\ s # listener.cur
                     /\ s \notin peer.left /\ s # peer.cur)'
  BY DEF FreshInv
<1>0. TypeOK /\ TablesInv /\ Fresh(s)
  BY FreshShrinks DEF RuntimeInv, Types
<1>1. /\ s \notin sessions /\ wrapClose[s] = "idle"
      /\ s \notin closed /\ s \notin handed /\ ~Queued(s)
      /\ write[s] = "none"
      /\ dispatcher.wrap # s
      /\ listener.at = "wrappers" => s \notin listener.left /\ s # listener.cur
      /\ s \notin peer.left /\ s # peer.cur
  BY <1>0 DEF RuntimeInv, FreshInv
<1>2. /\ s \in Outbound => construct[s] = "none" /\ construct'[s] = "none"
      /\ s \in Inbound => s \notin Made' \/ (dispatcher'.at \in {"created", "acking", "adding"}
                                             /\ dispatcher'.ctl = s)
  BY FreshShrinks
<1>3. ~InUse(s)
  BY <1>1, <1>2 DEF InUse
<1>4. \A id \in IDs : inbound[id] # s
  BY <1>0, <1>1 DEF TablesInv
<1>5. s \notin sessions'
  <2>1. CASE \E t \in Outbound : NewSession(t)
    <3>1. PICK t \in Outbound : NewSession(t)
      BY <2>1
    <3>2. sessions' = sessions \cup {t} /\ construct'[t] = "opening"
      BY <1>0, <3>1 DEF NewSession, TypeOK
    <3>3. QED
      BY <1>1, <1>2, <3>2
  <2>2. CASE AddInboundSession
    <3>1. sessions' = sessions \/ (/\ sessions' = sessions \cup {dispatcher.ctl}
                                   /\ dispatcher' = At("offering", dispatcher.ctl, dispatcher.ctl))
      BY <2>2 DEF AddInboundSession, tableVars
    <3>2. dispatcher.ctl \in Made' /\ dispatcher.ctl \in Inbound
      BY <2>2, MadeGrows DEF AddInboundSession, RuntimeInv, Types, DispatcherInv
    <3>3. dispatcher' = At("offering", dispatcher.ctl, dispatcher.ctl) => dispatcher'.at = "offering"
      BY DEF At
    <3>4. QED
      BY <1>1, <1>2, <3>1, <3>2, <3>3
  <2>3. CASE \/ \E t \in Sessions : FinishWrapperClose(t)
             \/ \E t \in Outbound : FailFinishes(t)
             \/ UNCHANGED tableVars
    BY <1>1, <2>3 DEF FinishWrapperClose, FailFinishes, RemoveSession, tableVars
  <2>4. QED
    BY <2>1, <2>2, <2>3, TablesFrame
<1>6. wrapClose'[s] = "idle" /\ s \notin closed'
  <2>0. ASSUME NEW t \in Sessions, t # s, StartWrapperClose(t)
        PROVE  wrapClose'[s] = "idle" /\ s \notin closed'
    BY <1>0, <1>1, <2>0 DEF StartWrapperClose, TypeOK
  <2>1. CASE \E t \in Sessions : UserClose(t)
    BY <1>3, <2>0, <2>1 DEF UserClose
  <2>2. CASE \E t \in Sessions : TakeOwner(t) \/ FinishWrapperClose(t)
    <3>1. PICK t \in Sessions : TakeOwner(t) \/ FinishWrapperClose(t)
      BY <2>2
    <3>2. t # s /\ UNCHANGED closed
      BY <1>1, <3>1 DEF TakeOwner, FinishWrapperClose
    <3>3. wrapClose' = [wrapClose EXCEPT ![t] = "taken"] \/ wrapClose' = [wrapClose EXCEPT ![t] = "done"]
      BY <3>1 DEF TakeOwner, FinishWrapperClose
    <3>4. QED
      BY <1>0, <1>1, <3>2, <3>3 DEF TypeOK
  <2>3. CASE \E t \in Outbound : FailConstruction(t) \/ FailTakesOwner(t)
    BY <1>1, <1>2, <2>3 DEF FailConstruction, FailTakesOwner
  <2>4. CASE DispatcherCloses
    <3>1. dispatcher.wrap \in Sessions
      BY <2>4 DEF DispatcherCloses, RuntimeInv, Types, DispatcherInv
    <3>2. QED
      BY <1>1, <2>0, <2>4, <3>1 DEF DispatcherCloses
  <2>5. CASE ListenerClosesWrapper
    <3>1. listener.cur # None => listener.cur \in Sessions
      BY <1>0 DEF TypeOK
    <3>2. QED
      BY <1>1, <2>0, <2>5, <3>1 DEF ListenerClosesWrapper, closeVars
  <2>6. CASE PeerClosesSession
    <3>1. peer.cur # None => peer.cur \in Sessions
      BY <1>0 DEF TypeOK
    <3>2. QED
      BY <1>1, <2>0, <2>6, <3>1 DEF PeerClosesSession, closeVars
  <2>7. CASE UNCHANGED closeVars
    BY <1>1, <2>7 DEF closeVars
  <2>8. QED
    BY <2>1, <2>2, <2>3, <2>4, <2>5, <2>6, <2>7, CloseFrame
<1>7. s \notin handed' /\ ~Queued(s)' /\ write'[s] = "none"
  <2>1. CASE \E t \in Sessions : WritePacket(t) \/ SendBlock(t) \/ WriteReturns(t)
    <3>1. PICK t \in Sessions : WritePacket(t) \/ SendBlock(t) \/ WriteReturns(t)
      BY <2>1
    <3>2. t # s /\ UNCHANGED <<accept, handed>>
      BY <1>1, <1>3, <3>1 DEF WritePacket, SendBlock, WriteReturns, acceptVars
    <3>3. \E w : write' = [write EXCEPT ![t] = w]
      BY <3>1 DEF WritePacket, SendBlock, WriteReturns
    <3>4. write'[s] = "none"
      BY <1>0, <1>1, <3>2, <3>3 DEF TypeOK
    <3>5. QED
      BY <1>1, <3>2, <3>4 DEF Queued
  <2>2. CASE Accept
    <3>1. /\ accept \in Seq(Inbound) /\ accept # <<>> /\ accept' = Tail(accept)
          /\ handed' = handed \cup {Head(accept)} /\ UNCHANGED write
      BY <1>0, <2>2 DEF TypeOK, Accept
    <3>2. Head(accept) = accept[1] /\ 1 \in DOMAIN accept
      BY <3>1
    <3>3. \A i \in DOMAIN accept' : i + 1 \in DOMAIN accept /\ accept'[i] = accept[i + 1]
      BY <3>1
    <3>4. QED
      BY <1>1, <3>1, <3>2, <3>3 DEF Queued
  <2>3. CASE Offer
    <3>1. UNCHANGED accept \/ accept' = Append(accept, dispatcher.wrap)
      BY <2>3 DEF Offer
    <3>2. accept \in Seq(Inbound) /\ dispatcher.wrap \in Inbound
      BY <1>0, <2>3 DEF TypeOK, Offer, RuntimeInv, Types, DispatcherInv
    <3>3. \A i \in DOMAIN accept' : accept'[i] = dispatcher.wrap
                                    \/ (i \in DOMAIN accept /\ accept'[i] = accept[i])
      BY <3>1, <3>2
    <3>4. QED
      BY <1>1, <2>3, <3>3 DEF Queued, Offer
  <2>4. CASE UNCHANGED <<acceptVars, write>>
    BY <1>1, <2>4 DEF acceptVars, Queued
  <2>5. QED
    BY <2>1, <2>2, <2>3, <2>4, UseFrame
<1>8. dispatcher'.wrap # s
  <2>0. dispatcher \in DispatcherType /\ s # None
    BY DEF RuntimeInv, Types
  <2>1. CASE \/ \E id \in IDs : Hello(id) \/ FindController(id)
             \/ ReceivePacket \/ ListenerFails \/ DropPacket \/ DispatcherExits
    <3>1. dispatcher' = Idle \/ \E at, c : dispatcher' = At(at, c, None)
      BY <2>1 DEF Hello, FindController, ReceivePacket, ListenerFails, DropPacket,
         DispatcherExits
    <3>2. QED
      BY <2>0, <3>1 DEF At, Idle
  <2>2. CASE \E t \in Sessions : DispatcherBegins(t)
    <3>1. PICK t \in Sessions : DispatcherBegins(t)
      BY <2>2
    <3>2. t \in sessions /\ \E at : dispatcher' = At(at, t, t)
      BY <3>1 DEF DispatcherBegins
    <3>3. QED
      BY <1>1, <3>2 DEF At
  <2>3. CASE DispatcherActs
    <3>1. \E at : dispatcher' = At(at, dispatcher.wrap, dispatcher.wrap)
      BY <2>3 DEF DispatcherActs
    <3>2. QED
      BY <1>1, <3>1 DEF At
  <2>4. CASE \/ SendAck \/ AckSent \/ DispatcherSent \/ Answered \/ Offer \/ CheckState
             \/ KnownPacket \/ RemoteClose \/ RemoteCloseNotifies \/ UNCHANGED dispatcher
    <3>1. dispatcher' = Idle \/ \E at : dispatcher' = [dispatcher EXCEPT !.at = at] \/ UNCHANGED dispatcher
      BY <2>4 DEF SendAck, AckSent, DispatcherSent, Answered, Offer, CheckState, KnownPacket,
         RemoteClose, RemoteCloseNotifies
    <3>2. QED
      BY <1>1, <2>0, <3>1 DEF DispatcherType, Idle
  <2>5. CASE AbortController \/ DispatcherCloses \/ DispatcherClosesListener
    BY <1>1, <2>0, <2>5 DEF AbortController, DispatcherCloses, DispatcherClosesListener, Idle
  <2>6. CASE AddInboundSession
    <3>1. dispatcher.ctl \in Made /\ dispatcher.ctl \in Made' /\ dispatcher.ctl \in Inbound
      BY <2>6, MadeGrows DEF AddInboundSession, RuntimeInv, Types, DispatcherInv
    <3>2. wireID[dispatcher.ctl] \in IDs
      BY <1>0, <3>1, MadeFacts
    <3>3. \/ dispatcher' = At("aborting", dispatcher.ctl, None)
          \/ dispatcher' = At("offering", dispatcher.ctl, dispatcher.ctl)
          \/ dispatcher' = At("offering", dispatcher.ctl, inbound[wireID[dispatcher.ctl]])
      BY <2>6 DEF AddInboundSession
    <3>4. dispatcher'.at \in {"aborting", "offering"}
      BY <3>3 DEF At
    <3>5. dispatcher.ctl # s
      BY <1>2, <3>1, <3>4
    <3>6. QED
      BY <1>4, <2>0, <3>2, <3>3, <3>5 DEF At
  <2>7. CASE Lookup
    <3>1. dispatcher.ctl \in Made
      BY <2>7 DEF Lookup, RuntimeInv, Types, DispatcherInv
    <3>2. wireID[dispatcher.ctl] \in IDs
      BY <1>0, <3>1, MadeFacts
    <3>3. dispatcher' = Idle \/ dispatcher' = At("checking", dispatcher.ctl, inbound[wireID[dispatcher.ctl]])
      BY <2>7 DEF Lookup
    <3>4. QED
      BY <1>4, <2>0, <3>2, <3>3 DEF At, Idle
  <2>8. QED
    BY <2>1, <2>2, <2>3, <2>4, <2>5, <2>6, <2>7, DispatcherFrame
<1>9. listener'.at = "wrappers" => s \notin listener'.left /\ s # listener'.cur
  <2>0. listener \in ListenerType /\ s # None
    BY DEF RuntimeInv, Types
  <2>1. UNCHANGED listener => (listener'.at = "wrappers" => s \notin listener'.left /\ s # listener'.cur)
    BY <1>1
  <2>2. StartListenerClose => listener'.at # "wrappers"
    BY <2>0 DEF StartListenerClose, ListenerType
  <2>3. CASE ListenerSnapshot
    BY <1>4, <2>0, <2>3 DEF ListenerSnapshot
  <2>4. CASE ListenerClosesWrapper
    BY <1>1, <2>0, <2>1, <2>4, ZenonT(40) DEF ListenerClosesWrapper, ListenerType
  <2>5. CASE RegistryClose \/ ListenerClosed
    BY <2>0, <2>5 DEF RegistryClose, ListenerClosed, ListenerType
  <2>6. CASE RegistryClosesController
    <3>1. listener'.at = "controllers"
      BY <2>0, <2>6 DEF RegistryClosesController, ListenerType
    <3>2. QED
      BY <3>1
  <2>7. QED
    BY <2>1, <2>2, <2>3, <2>4, <2>5, <2>6, OwnersFrame
       DEF UserClosesListener, PeerClose, DispatcherClosesListener, PeerSignals,
           PeerClosesSession, PeerClosesListener, PeerCloseReturns, ownerVars
<1>10. s \notin peer'.left /\ s # peer'.cur
  <2>0. peer \in PeerType /\ s # None
    BY DEF RuntimeInv, Types
  <2>1. UNCHANGED peer => s \notin peer'.left /\ s # peer'.cur
    BY <1>1
  <2>2. CASE PeerClose
    BY <1>1, <2>0, <2>2 DEF PeerClose
  <2>3. CASE PeerSignals \/ PeerCloseReturns
    BY <1>1, <2>0, <2>3 DEF PeerSignals, PeerCloseReturns, PeerType
  <2>4. CASE PeerClosesSession
    <3>1. \/ \E t \in peer.left : peer' = [peer EXCEPT !.cur = t, !.left = peer.left \ {t}]
          \/ UNCHANGED peer
          \/ peer' = [peer EXCEPT !.cur = None]
      BY <2>4 DEF PeerClosesSession
    <3>2. peer'.left \subseteq peer.left /\ peer'.cur \in peer.left \cup {peer.cur, None}
      BY <2>0, <3>1 DEF PeerType
    <3>3. QED
      BY <1>1, <2>0, <3>2
  <2>5. CASE PeerClosesListener
    BY <1>1, <2>0, <2>1, <2>5 DEF PeerClosesListener, PeerType
  <2>6. QED
    BY <2>1, <2>2, <2>3, <2>4, <2>5, OwnersFrame
       DEF UserClosesListener, DispatcherClosesListener, ListenerSnapshot, ListenerClosesWrapper,
           RegistryClose, RegistryClosesController, ListenerClosed, ownerVars
<1>11. QED
  BY <1>5, <1>6, <1>7, <1>8, <1>9, <1>10

----------------------------------------------------------------------------
(* What a step may do to one Session                                       *)

LEMMA SessionsEdges ==
    ASSUME RuntimeInv, Next, NEW s \in Sessions
    PROVE  /\ s \in sessions' /\ s \notin sessions =>
                 /\ Fresh(s) /\ ~PeerClosed
                 /\ s \in Inbound => ~listenerDone
           /\ s \in sessions /\ s \notin sessions' =>
                 FinishWrapperClose(s) \/ (s \in Outbound /\ FailFinishes(s))
<1>1. CASE \E t \in Outbound : NewSession(t)
  <2>1. PICK t \in Outbound : NewSession(t)
    BY <1>1
  <2>2. /\ sessions' = sessions \cup {t} /\ ~PeerClosed /\ Fresh(t)
    BY <2>1 DEF NewSession, Fresh
  <2>3. t \notin Inbound
    BY SessionSets
  <2>4. QED
    BY <2>2, <2>3
<1>2. CASE AddInboundSession
  <2>1. \/ UNCHANGED sessions
        \/ Admissible /\ sessions' = sessions \cup {dispatcher.ctl} /\ Fresh(dispatcher.ctl)
    BY <1>2 DEF AddInboundSession, tableVars, Fresh
  <2>2. QED
    BY <2>1 DEF Admissible
<1>3. CASE \/ \E t \in Sessions : FinishWrapperClose(t)
           \/ \E t \in Outbound : FailFinishes(t)
           \/ UNCHANGED tableVars
  BY <1>3 DEF FinishWrapperClose, FailFinishes, RemoveSession, tableVars
<1>4. QED
  BY <1>1, <1>2, <1>3, TablesFrame

LEMMA ConstructEdges ==
    ASSUME RuntimeInv, Next, NEW s \in Outbound
    PROVE  \/ construct'[s] = construct[s]
           \/ construct[s] = "none" /\ construct'[s] = "opening" /\ NewSession(s)
           \/ construct[s] = "opening" /\ construct'[s] \in {"opened", "failing"}
           \/ construct[s] = "opened" /\ construct'[s] \in {"opening", "wired", "failing"}
           \/ construct[s] = "wired" /\ construct'[s] \in {"built", "failing"}
           \/ construct[s] = "built" /\ construct'[s] \in {"starting", "failing"} /\ StartController(s)
           \/ construct[s] = "starting" /\ construct'[s] = "ready"
           \/ construct[s] = "failing" /\ construct'[s] = "failed"
           \/ construct[s] = "failed" /\ construct'[s] = "undoing" /\ FailTakesOwner(s)
           \/ construct[s] = "undoing" /\ construct'[s] = "gone" /\ FailFinishes(s)
<1>0. construct \in [Outbound -> ConstructPlaces]
  BY DEF RuntimeInv, Types, TypeOK, ConstructPlaces
<1>a. ASSUME NEW t \in Outbound, NEW p, construct' = [construct EXCEPT ![t] = p]
      PROVE  construct'[s] = construct[s] \/ (t = s /\ construct'[s] = p)
  BY <1>0, <1>a
<1>1. CASE \E t \in Sessions : FinishWrapperClose(t)
  BY <1>1 DEF FinishWrapperClose
<1>2. CASE \E t \in Outbound : NewSession(t)
  BY <1>a, <1>2 DEF NewSession
<1>3. CASE \E t \in Outbound : OpenCarrier(t)
  BY <1>a, <1>3 DEF OpenCarrier
<1>4. CASE \E t \in Outbound : AddCarrier(t)
  BY <1>a, <1>4 DEF AddCarrier
<1>5. CASE \E t \in Outbound : SetController(t)
  BY <1>a, <1>5 DEF SetController
<1>6. CASE \E t \in Outbound : StartController(t)
  BY <1>a, <1>6 DEF StartController
<1>7. CASE \E t \in Outbound : Constructed(t) \/ FailConstruction(t)
  BY <1>a, <1>7 DEF Constructed, FailConstruction
<1>8. CASE \E t \in Outbound : FailTakesOwner(t)
  BY <1>a, <1>8 DEF FailTakesOwner
<1>9. CASE \E t \in Outbound : FailFinishes(t)
  BY <1>a, <1>9 DEF FailFinishes
<1>10. CASE UNCHANGED constructVars
  BY <1>10 DEF constructVars
<1>11. QED
  BY <1>1, <1>2, <1>3, <1>4, <1>5, <1>6, <1>7, <1>8, <1>9, <1>10, ConstructFrame

LEMMA CloseEdges ==
    ASSUME RuntimeInv, Next, NEW s \in Sessions
    PROVE  /\ \/ wrapClose'[s] = wrapClose[s]
              \/ wrapClose[s] = "idle" /\ wrapClose'[s] = "waiting" /\ s \in closed'
              \/ wrapClose[s] = "waiting" /\ wrapClose'[s] = "taken" /\ TakeOwner(s)
              \/ wrapClose[s] = "taken" /\ wrapClose'[s] = "done" /\ FinishWrapperClose(s)
           /\ closed \subseteq closed' /\ timedOut \subseteq timedOut'
<1>0. TypeOK
  BY DEF RuntimeInv, Types
<1>1. ASSUME NEW t \in Sessions, StartWrapperClose(t), UNCHANGED timedOut
      PROVE  /\ \/ wrapClose'[s] = wrapClose[s]
                \/ wrapClose[s] = "idle" /\ wrapClose'[s] = "waiting" /\ s \in closed'
             /\ closed \subseteq closed' /\ timedOut \subseteq timedOut'
  BY <1>0, <1>1 DEF TypeOK, StartWrapperClose
<1>2. CASE \E t \in Sessions : UserClose(t)
  BY <1>1, <1>2 DEF UserClose
<1>3. ASSUME NEW t \in Sessions, TakeOwner(t) \/ FinishWrapperClose(t)
      PROVE  /\ \/ wrapClose'[s] = wrapClose[s]
                \/ wrapClose[s] = "waiting" /\ wrapClose'[s] = "taken" /\ TakeOwner(s)
                \/ wrapClose[s] = "taken" /\ wrapClose'[s] = "done" /\ FinishWrapperClose(s)
             /\ closed \subseteq closed' /\ timedOut \subseteq timedOut'
  <2>1. closed \subseteq closed' /\ timedOut \subseteq timedOut'
    BY <1>3 DEF TakeOwner, FinishWrapperClose
  <2>2. CASE TakeOwner(t)
    <3>1. wrapClose[t] = "waiting" /\ wrapClose' = [wrapClose EXCEPT ![t] = "taken"]
      BY <2>2 DEF TakeOwner
    <3>2. QED
      BY <1>0, <2>1, <2>2, <3>1 DEF TypeOK
  <2>3. CASE FinishWrapperClose(t)
    <3>1. wrapClose[t] = "taken" /\ wrapClose' = [wrapClose EXCEPT ![t] = "done"]
      BY <2>3 DEF FinishWrapperClose
    <3>2. QED
      BY <1>0, <2>1, <2>3, <3>1 DEF TypeOK
  <2>4. QED
    BY <1>3, <2>2, <2>3
<1>4. CASE \E t \in Outbound : FailConstruction(t) \/ FailTakesOwner(t)
  BY <1>4 DEF FailConstruction, FailTakesOwner
<1>5. CASE DispatcherCloses
  <2>1. dispatcher.wrap \in Sessions
    BY <1>5 DEF DispatcherCloses, RuntimeInv, Types, DispatcherInv
  <2>2. QED
    BY <1>1, <1>5, <2>1 DEF DispatcherCloses
<1>6. CASE ListenerClosesWrapper
  <2>1. listener.cur # None => listener.cur \in Sessions
    BY <1>0, SessionSets DEF TypeOK
  <2>2. QED
    BY <1>1, <1>6, <2>1 DEF ListenerClosesWrapper, closeVars
<1>7. CASE PeerClosesSession
  <2>1. peer.cur # None => peer.cur \in Sessions
    BY <1>0 DEF TypeOK
  <2>2. QED
    BY <1>1, <1>7, <2>1 DEF PeerClosesSession, closeVars
<1>8. CASE UNCHANGED closeVars
  BY <1>8 DEF closeVars
<1>9. QED
  BY <1>2, <1>3, <1>4, <1>5, <1>6, <1>7, <1>8, CloseFrame

LEMMA OwnerEdges ==
    ASSUME RuntimeInv, Next, NEW s \in Sessions
    PROVE  /\ \/ owner'[s] = owner[s]
              \/ owner[s] = "held" /\ owner'[s] = "closer"
              \/ owner[s] = "held" /\ owner'[s] = "constructor" /\ s \in Outbound /\ FailTakesOwner(s)
           /\ TakeOwner(s) => owner'[s] # "held"
           /\ s \in Outbound /\ FailTakesOwner(s) => owner'[s] # "held"
<1>0. owner \in [Sessions -> {"held", "closer", "constructor"}]
  BY DEF RuntimeInv, Types, TypeOK
<1>a. \A t \in Sessions : TakeOwner(t) =>
         owner' = [owner EXCEPT ![t] = IF owner[t] = "held" THEN "closer" ELSE owner[t]]
  BY DEF TakeOwner
<1>b. \A t \in Outbound : FailTakesOwner(t) =>
         owner' = [owner EXCEPT ![t] = IF owner[t] = "held" THEN "constructor" ELSE owner[t]]
  BY DEF FailTakesOwner
<1>1. TakeOwner(s) => owner'[s] # "held"
  BY <1>0, <1>a
<1>2. s \in Outbound /\ FailTakesOwner(s) => owner'[s] # "held"
  BY <1>0, <1>b, SessionSets
<1>3. \/ \E t \in Sessions : TakeOwner(t)
      \/ \E t \in Outbound : FailTakesOwner(t)
      \/ UNCHANGED owner
  BY CloseFrame DEF UserClose, FinishWrapperClose, FailConstruction, DispatcherCloses,
     ListenerClosesWrapper, PeerClosesSession, closeVars
<1>4. \/ owner'[s] = owner[s]
      \/ owner[s] = "held" /\ owner'[s] = "closer"
      \/ owner[s] = "held" /\ owner'[s] = "constructor" /\ s \in Outbound /\ FailTakesOwner(s)
  <2>1. CASE \E t \in Sessions : TakeOwner(t)
    BY <1>0, <1>a, <2>1
  <2>2. CASE \E t \in Outbound : FailTakesOwner(t)
    <3>1. PICK t \in Outbound : FailTakesOwner(t)
      BY <2>2
    <3>2. owner' = [owner EXCEPT ![t] = IF owner[t] = "held" THEN "constructor" ELSE owner[t]]
      BY <1>b, <3>1
    <3>3. CASE t = s
      BY <1>0, <3>1, <3>2, <3>3, SessionSets
    <3>4. CASE t # s
      BY <1>0, <3>2, <3>4
    <3>5. QED
      BY <3>3, <3>4
  <2>3. CASE UNCHANGED owner
    BY <2>3
  <2>4. QED
    BY <1>3, <2>1, <2>2, <2>3
<1>5. QED
  BY <1>1, <1>2, <1>4

LEMMA ControllerEdges ==
    ASSUME RuntimeInv, Next, NEW s \in Sessions
    PROVE  \/ controller'[s] = controller[s]
           \/ controller[s] = "none" /\ s \in Inbound /\ Fresh(s)
           \/ controller[s] = "none" /\ s \in Outbound /\ SetController(s) /\ s \notin closed
           \/ controller[s] # "none" /\ controller'[s] = "closed"
<1> USE SessionSets
<1>0. TypeOK /\ RegistryInv
  BY DEF RuntimeInv, Types
<1>a. ASSUME NEW c \in Sessions, controller[c] # "none",
             controller' = [controller EXCEPT ![c] = "closed"]
      PROVE  controller'[s] = controller[s] \/ (controller[s] # "none" /\ controller'[s] = "closed")
  BY <1>0, <1>a DEF TypeOK
<1>1. CASE \E id \in IDs : Hello(id)
  <2>1. /\ wireID \in Seq(IDs) /\ Len(wireID) < MaxInbound
        /\ controller' = [controller EXCEPT ![Len(wireID) + 1] = "open"]
    BY <1>0, <1>1, HelloRoom DEF RuntimeInv, TypeOK, Hello
  <2>2. Len(wireID) + 1 \in Inbound /\ Len(wireID) + 1 \notin Made
    BY <2>1, BoundsAssumption DEF Inbound, Made
  <2>3. controller[Len(wireID) + 1] = "none" /\ Fresh(Len(wireID) + 1)
    BY <1>0, <2>2 DEF RegistryInv, Fresh
  <2>4. s # Len(wireID) + 1 => controller'[s] = controller[s]
    BY <1>0, <2>1 DEF TypeOK
  <2>5. QED
    BY <2>2, <2>3, <2>4
<1>2. CASE RemoteClose
  <2>1. dispatcher.ctl \in Sessions /\ controller[dispatcher.ctl] # "none"
    BY <1>0, <1>2, MadeFacts DEF RemoteClose, RuntimeInv, Types, DispatcherInv
  <2>2. QED
    BY <1>a, <1>2, <2>1 DEF RemoteClose
<1>n. CASE RemoteCloseNotifies
  BY <1>n DEF RemoteCloseNotifies, controllerVars
<1>3. CASE \/ \E t \in Sessions : FinishControllerClose(t) \/ CloseController(t)
           \/ \E t \in Outbound : FailClosesController(t)
  BY <1>a, <1>3 DEF FinishControllerClose, CloseController, FailClosesController, StartControllerClose
<1>4. CASE \E t \in Outbound : SetController(t)
  <2>1. PICK t \in Outbound : SetController(t)
    BY <1>4
  <2>2. controller[t] = "none"
    BY <2>1 DEF SetController, RuntimeInv, ClosedInv
  <2>3. \/ UNCHANGED controller
        \/ t \notin closed /\ controller' = [controller EXCEPT ![t] = "open"]
    BY <2>1 DEF SetController
  <2>4. QED
    BY <1>0, <2>1, <2>2, <2>3 DEF TypeOK
<1>5. CASE AbortController
  <2>1. dispatcher.ctl \in Inbound /\ controller[dispatcher.ctl] # "none"
    BY <1>0, <1>5, MadeFacts DEF AbortController, RuntimeInv, Types, DispatcherInv, RegistryInv
  <2>2. QED
    BY <1>a, <1>5, <2>1 DEF AbortController, StartControllerClose, controllerVars
<1>6. CASE DispatcherActs
  <2>1. \/ UNCHANGED controller
        \/ /\ dispatcher.wrap \in Outbound /\ controller[dispatcher.wrap] = "open"
           /\ controller' = [controller EXCEPT ![dispatcher.wrap] = "closed"]
    BY <1>6 DEF DispatcherActs
  <2>2. QED
    BY <1>a, <2>1
<1>7. CASE RegistryClosesController
  <2>1. /\ regClosed
        /\ listener.cur # None => listener.cur \in Made
    BY <1>0, <1>7 DEF RegistryClosesController, RegistryInv
  <2>2. listener.cur # None => listener.cur \in Inbound /\ controller[listener.cur] # "none"
    BY <1>0, <2>1, MadeFacts DEF RegistryInv
  <2>3. QED
    BY <1>a, <1>7, <2>2 DEF RegistryClosesController, StartControllerClose, controllerVars
<1>8. CASE RegistryClose \/ UNCHANGED <<registryVars, controllerVars>>
  BY <1>8 DEF RegistryClose, controllerVars
<1>9. QED
  BY <1>1, <1>2, <1>n, <1>3, <1>4, <1>5, <1>6, <1>7, <1>8, RegistryFrame

LEMMA ControllerCloseEdges ==
    ASSUME RuntimeInv, Next, NEW s \in Sessions, ctlClose'[s] = "done"
    PROVE  ctlClose[s] = "done" \/ FinishControllerClose(s)
<1>0. TypeOK
  BY DEF RuntimeInv, Types
<1>a. ASSUME NEW c, StartControllerClose(c)
      PROVE  ctlClose[s] = "done"
  <2>1. ctlClose' = [ctlClose EXCEPT ![c] = "marked"]
    BY <1>a DEF StartControllerClose
  <2>2. QED
    BY <1>0, <2>1 DEF TypeOK
<1>1. CASE \E t \in Sessions : FinishControllerClose(t)
  <2>1. PICK t \in Sessions : FinishControllerClose(t)
    BY <1>1
  <2>2. ctlClose' = [ctlClose EXCEPT ![t] = "done"]
    BY <2>1 DEF FinishControllerClose
  <2>3. QED
    BY <1>0, <2>1, <2>2 DEF TypeOK
<1>2. CASE UNCHANGED ctlClose
  BY <1>2
<1>3. QED
  BY <1>a, <1>1, <1>2, RegistryFrame DEF Hello, RemoteClose, RemoteCloseNotifies,
     CloseController, SetController, FailClosesController, DispatcherActs, AbortController,
     RegistryClose, RegistryClosesController, controllerVars

\* Sockets are only closed once the carriers are there.
LEMMA SocketEdges ==
    ASSUME RuntimeInv, Next, NEW s \in Outbound
    PROVE  /\ sockets'[s] \subseteq sockets[s] \/ construct[s] = "opening"
           /\ FinishWrapperClose(s) \/ FailFinishes(s) => sockets'[s] = sockets[s] \ (1..held[s])
<1>0. sockets \in [Outbound -> SUBSET (1..Carriers)]
  BY DEF RuntimeInv, Types, TypeOK
<1>1. ASSUME NEW t \in Sessions, sockets' = CloseCarriers(t)
      PROVE  /\ sockets'[s] \subseteq sockets[s]
             /\ t = s => sockets'[s] = sockets[s] \ (1..held[s])
  BY <1>0, <1>1 DEF CloseCarriers
<1>2. FinishWrapperClose(s) \/ FailFinishes(s) => sockets'[s] = sockets[s] \ (1..held[s])
  BY <1>1, SessionSets DEF FinishWrapperClose, FailFinishes
<1>3. sockets'[s] \subseteq sockets[s] \/ construct[s] = "opening"
  <2>1. CASE \/ \E t \in Sessions : FinishWrapperClose(t)
             \/ \E t \in Outbound : FailFinishes(t)
    BY <1>1, <2>1, SessionSets DEF FinishWrapperClose, FailFinishes
  <2>2. CASE \E t \in Outbound : OpenCarrier(t)
    BY <1>0, <2>2 DEF OpenCarrier
  <2>3. CASE \E t \in Outbound : AddCarrier(t)
    <3>1. \E t \in Outbound : UNCHANGED sockets
                             \/ sockets' = [sockets EXCEPT ![t] = sockets[t] \ {held[t] + 1}]
      BY <2>3 DEF AddCarrier
    <3>2. QED
      BY <1>0, <3>1
  <2>4. CASE UNCHANGED sockets
    BY <2>4
  <2>5. QED
    BY <2>1, <2>2, <2>3, <2>4, ConstructFrame DEF NewSession, SetController, StartController,
       Constructed, FailConstruction, FailTakesOwner, constructVars
<1>4. QED
  BY <1>2, <1>3

----------------------------------------------------------------------------
(* Wrappers                                                                *)

LEMMA HandledKept ==
    ASSUME RuntimeInv, Next, NEW s \in Sessions, Handled(s)
    PROVE  Handled(s)'
<1>1. CASE s \in sessions
  <2>1. s \in sessions' \/ FinishWrapperClose(s) \/ (s \in Outbound /\ FailFinishes(s))
    BY <1>1, SessionsEdges
  <2>2. FinishWrapperClose(s) => wrapClose'[s] = "done"
    BY DEF FinishWrapperClose, RuntimeInv, Types, TypeOK
  <2>3. s \in Outbound /\ FailFinishes(s) => construct'[s] = "gone"
    BY DEF FailFinishes, RuntimeInv, Types, TypeOK
  <2>4. QED
    BY <2>1, <2>2, <2>3 DEF Handled
<1>2. CASE wrapClose[s] = "done"
  <2>1. wrapClose'[s] = "done"
    BY <1>2, CloseEdges
  <2>2. QED
    BY <2>1 DEF Handled
<1>3. CASE s \in Outbound /\ construct[s] = "gone"
  <2>1. construct'[s] = "gone"
    BY <1>3, ConstructEdges
  <2>2. QED
    BY <1>3, <2>1 DEF Handled
<1>4. QED
  BY <1>1, <1>2, <1>3 DEF Handled

LEMMA WrapperKept ==
    ASSUME RuntimeInv, Next
    PROVE  WrapperInv'
<1> USE SessionSets
<1>0. TypeOK /\ WrapperInv /\ TablesInv
  BY DEF RuntimeInv, Types
<1>1. ASSUME NEW s \in Inbound, s \in handed' \/ Queued(s)'
      PROVE  Handled(s)'
  <2>1. s \in handed \/ Queued(s) \/ (dispatcher.at = "offering" /\ dispatcher.wrap = s)
    <3>1. CASE \E t \in Sessions : WritePacket(t) \/ SendBlock(t) \/ WriteReturns(t)
      BY <1>1, <3>1 DEF WritePacket, SendBlock, WriteReturns, acceptVars, Queued
    <3>2. CASE Accept
      <4>1. /\ accept \in Seq(Inbound) /\ accept # <<>> /\ accept' = Tail(accept)
            /\ handed' = handed \cup {Head(accept)}
        BY <1>0, <3>2 DEF TypeOK, Accept
      <4>2. Head(accept) = accept[1] /\ 1 \in DOMAIN accept
        BY <4>1
      <4>3. \A i \in DOMAIN accept' : i + 1 \in DOMAIN accept /\ accept'[i] = accept[i + 1]
        BY <4>1
      <4>4. QED
        BY <1>1, <4>1, <4>2, <4>3 DEF Queued
    <3>3. CASE Offer
      <4>1. UNCHANGED accept \/ accept' = Append(accept, dispatcher.wrap)
        BY <3>3 DEF Offer
      <4>2. accept \in Seq(Inbound) /\ dispatcher.wrap \in Inbound
        BY <1>0, <3>3 DEF TypeOK, Offer, RuntimeInv, Types, DispatcherInv
      <4>3. \A i \in DOMAIN accept' : accept'[i] = dispatcher.wrap
                                      \/ (i \in DOMAIN accept /\ accept'[i] = accept[i])
        BY <4>1, <4>2
      <4>4. QED
        BY <1>1, <3>3, <4>3 DEF Queued, Offer
    <3>4. CASE UNCHANGED <<acceptVars, write>>
      BY <1>1, <3>4 DEF acceptVars, Queued
    <3>5. QED
      BY <3>1, <3>2, <3>3, <3>4, UseFrame
  <2>2. Handled(s)
    BY <1>0, <2>1 DEF WrapperInv
  <2>3. QED
    BY <2>2, HandledKept
<1>2. ASSUME dispatcher'.at = "offering"
      PROVE  Handled(dispatcher.wrap)'
  <2>0. dispatcher \in DispatcherType
    BY DEF RuntimeInv, Types
  <2>1. CASE UNCHANGED dispatcher
    <3>1. dispatcher.wrap \in Sessions /\ Handled(dispatcher.wrap)
      BY <1>0, <1>2, <2>1 DEF WrapperInv, RuntimeInv, Types, DispatcherInv
    <3>2. PICK s \in Sessions : s = dispatcher.wrap /\ Handled(s)
      BY <3>1
    <3>3. Handled(s)' /\ dispatcher'.wrap = s
      BY <2>1, <3>2, HandledKept
    <3>4. QED
      BY <3>3 DEF Handled
  <2>2. CASE AddInboundSession
    <3>1. dispatcher.ctl \in Made
      BY <2>2 DEF AddInboundSession, RuntimeInv, Types, DispatcherInv
    <3>2. wireID[dispatcher.ctl] \in IDs
      BY <1>0, <3>1, MadeFacts
    <3>3. \/ dispatcher' = At("aborting", dispatcher.ctl, None)
          \/ /\ dispatcher' = At("offering", dispatcher.ctl, dispatcher.ctl)
             /\ sessions' = sessions \cup {dispatcher.ctl}
          \/ /\ dispatcher' = At("offering", dispatcher.ctl, inbound[wireID[dispatcher.ctl]])
             /\ inbound[wireID[dispatcher.ctl]] # None /\ UNCHANGED sessions
      BY <2>2 DEF AddInboundSession, tableVars
    <3>4. dispatcher'.wrap \in sessions'
      BY <1>0, <1>2, <3>2, <3>3 DEF At, TablesInv
    <3>5. QED
      BY <3>4 DEF Handled
  <2>3. CASE \/ \E id \in IDs : Hello(id) \/ FindController(id)
             \/ \E s \in Sessions : DispatcherBegins(s)
             \/ ReceivePacket \/ ListenerFails \/ DropPacket \/ DispatcherActs
             \/ DispatcherExits \/ Lookup
    <3>1. \/ dispatcher' = Idle
          \/ \E at \in {"created", "found", "lookup", "checking", "begun", "packet", "listener",
                         "sending", "closing", "stopped"} :
                \E c, s : dispatcher' = At(at, c, s)
      BY <2>3 DEF Hello, FindController, DispatcherBegins, ReceivePacket, ListenerFails,
         DropPacket, DispatcherActs, DispatcherExits, Lookup
    <3>2. QED
      BY <1>2, <3>1 DEF At, Idle
  <2>4. CASE \/ SendAck \/ AckSent \/ DispatcherSent \/ Answered \/ Offer \/ CheckState
             \/ KnownPacket \/ RemoteClose \/ RemoteCloseNotifies
    <3>1. dispatcher' = Idle \/ \E at \in {"adding", "acking", "answering", "notifying", "checking",
                                          "lookup", "closing"} :
                                   dispatcher' = [dispatcher EXCEPT !.at = at]
      BY <2>4 DEF SendAck, AckSent, DispatcherSent, Answered, Offer, CheckState, KnownPacket,
         RemoteClose, RemoteCloseNotifies
    <3>2. QED
      BY <1>2, <2>0, <3>1 DEF DispatcherType, Idle
  <2>5. CASE AbortController \/ DispatcherCloses \/ DispatcherClosesListener
    <3>1. UNCHANGED dispatcher \/ dispatcher' = Idle
      BY <2>5 DEF AbortController, DispatcherCloses, DispatcherClosesListener
    <3>2. QED
      BY <1>2, <2>1, <3>1 DEF Idle
  <2>6. QED
    BY <2>1, <2>2, <2>3, <2>4, <2>5, DispatcherFrame
<1>3. ASSUME NEW s \in Outbound, construct'[s] # "none"
      PROVE  Handled(s)'
  <2>1. CASE construct[s] = "none"
    <3>1. NewSession(s)
      BY <1>3, <2>1, ConstructEdges
    <3>2. s \in sessions'
      BY <3>1 DEF NewSession
    <3>3. QED
      BY <3>2 DEF Handled
  <2>2. CASE construct[s] # "none"
    BY <1>0, <2>2, HandledKept DEF WrapperInv
  <2>3. QED
    BY <2>1, <2>2
<1>4. ASSUME NEW s \in Sessions, write'[s] # "none"
      PROVE  InUse(s)'
  <2>1. InUse(s)
    <3>1. CASE \E t \in Sessions : WritePacket(t) \/ SendBlock(t) \/ WriteReturns(t)
      <4>1. PICK t \in Sessions : WritePacket(t) \/ SendBlock(t) \/ WriteReturns(t)
        BY <3>1
      <4>2. t # s => write'[s] = write[s]
        BY <1>0, <4>1 DEF WritePacket, SendBlock, WriteReturns, TypeOK
      <4>3. WritePacket(t) \/ write[t] # "none"
        BY <4>1 DEF SendBlock, WriteReturns
      <4>4. QED
        BY <1>0, <1>4, <4>1, <4>2, <4>3 DEF WrapperInv, WritePacket
    <3>2. CASE Accept \/ Offer \/ UNCHANGED <<acceptVars, write>>
      BY <1>0, <1>4, <3>2 DEF WrapperInv, Accept, Offer
    <3>3. QED
      BY <3>1, <3>2, UseFrame
  <2>2. handed \subseteq handed'
    BY UseFrame DEF WritePacket, SendBlock, WriteReturns, Accept, Offer, acceptVars
  <2>3. s \in Outbound /\ construct[s] = "ready" => construct'[s] = "ready"
    BY ConstructEdges
  <2>4. QED
    BY <2>1, <2>2, <2>3 DEF InUse
<1>5. QED
  BY <1>1, <1>2, <1>3, <1>4 DEF WrapperInv

LEMMA OwnerKept ==
    ASSUME RuntimeInv, Next
    PROVE  OwnerInv'
<1> USE SessionSets
<1>0. OwnerInv /\ FreshInv
  BY DEF RuntimeInv
<1>1. ASSUME NEW s \in Sessions
      PROVE  /\ wrapClose'[s] # "idle" => s \in closed'
             /\ wrapClose'[s] \in {"taken", "done"} => owner'[s] # "held"
  <2>1. wrapClose'[s] # "idle" => s \in closed'
    BY <1>0, CloseEdges DEF OwnerInv, FinishWrapperClose, TakeOwner
  <2>2. wrapClose'[s] \in {"taken", "done"} => owner'[s] # "held"
    <3>1. wrapClose[s] \in {"taken", "done"} => owner[s] # "held"
      BY <1>0 DEF OwnerInv
    <3>2. wrapClose'[s] \in {"taken", "done"} => wrapClose[s] \in {"taken", "done"} \/ TakeOwner(s)
      BY CloseEdges
    <3>3. QED
      BY <3>1, <3>2, OwnerEdges
  <2>3. QED
    BY <2>1, <2>2
<1>2. ASSUME NEW s \in Sessions, wrapClose'[s] = "done", owner'[s] = "closer"
      PROVE  s \notin sessions'
  <2>1. CASE wrapClose[s] = "done"
    <3>1. owner[s] # "held" /\ ~Fresh(s)
      BY <1>0, <2>1 DEF OwnerInv, FreshInv
    <3>2. owner[s] = "closer"
      BY <1>2, <3>1, OwnerEdges
    <3>3. s \notin sessions
      BY <1>0, <2>1, <3>2 DEF OwnerInv
    <3>4. QED
      BY <3>1, <3>3, SessionsEdges
  <2>2. CASE FinishWrapperClose(s)
    BY <1>2, <2>2 DEF FinishWrapperClose, RemoveSession
  <2>3. QED
    BY <1>2, <2>1, <2>2, CloseEdges
<1>3. ASSUME NEW s \in Sessions, owner'[s] = "constructor"
      PROVE  /\ s \in Outbound /\ construct'[s] \in {"undoing", "gone"}
             /\ construct'[s] = "gone" => s \notin sessions'
  <2>1. CASE owner[s] = "constructor"
    <3>1. /\ s \in Outbound /\ construct[s] \in {"undoing", "gone"}
          /\ construct[s] = "gone" => s \notin sessions
      BY <1>0, <2>1 DEF OwnerInv
    <3>2. construct'[s] \in {"undoing", "gone"}
      BY <3>1, ConstructEdges
    <3>3. CASE construct[s] = "gone"
      <4>1. ~Fresh(s)
        <5>1. ~(dispatcher.at \in {"created", "acking", "adding"} /\ dispatcher.ctl = s)
          BY <3>1, MadeFacts DEF RuntimeInv, Types, DispatcherInv
        <5>2. QED
          BY <3>1, <3>3, <5>1 DEF Fresh
      <4>2. QED
        BY <3>1, <3>2, <3>3, <4>1, SessionsEdges
    <3>4. CASE construct[s] = "undoing" /\ construct'[s] = "gone"
      <4>1. FailFinishes(s)
        BY <3>1, <3>4, ConstructEdges
      <4>2. s \notin sessions'
        BY <2>1, <4>1 DEF FailFinishes, RemoveSession
      <4>3. QED
        BY <3>1, <3>2, <4>2
    <3>5. QED
      BY <3>1, <3>2, <3>3, <3>4
  <2>2. CASE s \in Outbound /\ FailTakesOwner(s)
    BY <2>2 DEF FailTakesOwner, RuntimeInv, Types, TypeOK
  <2>3. QED
    BY <1>3, <2>1, <2>2, OwnerEdges
<1>4. ASSUME NEW s \in Outbound, construct'[s] \in {"undoing", "gone"}
      PROVE  owner'[s] # "held"
  <2>1. construct[s] \in {"undoing", "gone"} => owner[s] # "held"
    BY <1>0 DEF OwnerInv
  <2>2. construct[s] \in {"undoing", "gone"} \/ FailTakesOwner(s)
    BY <1>4, ConstructEdges
  <2>3. QED
    BY <2>1, <2>2, OwnerEdges
<1>5. QED
  BY <1>1, <1>2, <1>3, <1>4 DEF OwnerInv

----------------------------------------------------------------------------
(* What a Close that is done leaves behind                                 *)

LEMMA ClosedKept ==
    ASSUME RuntimeInv, Next
    PROVE  ClosedInv'
<1> USE SessionSets
<1>0. TypeOK /\ ClosedInv /\ RegistryInv /\ OwnerInv /\ FreshInv /\ CarriersInv
  BY DEF RuntimeInv, Types
<1>a. ASSUME NEW s \in Sessions, controller[s] # "none" => ctlClose[s] = "done", UNCHANGED controller
      PROVE  controller'[s] # "open"
  BY <1>0, <1>a DEF RegistryInv
<1>1. ASSUME NEW s \in Sessions, wrapClose'[s] = "done"
      PROVE  controller'[s] # "open"
  <2>1. CASE wrapClose[s] = "done"
    <3>1. controller[s] # "open" /\ ~Fresh(s) /\ s \in closed
      BY <1>0, <2>1 DEF ClosedInv, FreshInv, OwnerInv
    <3>2. QED
      BY <3>1, ControllerEdges
  <2>2. CASE FinishWrapperClose(s)
    BY <1>a, <2>2 DEF FinishWrapperClose, controllerVars
  <2>3. QED
    BY <1>1, <2>1, <2>2, CloseEdges
<1>2. ASSUME NEW s \in Outbound, construct'[s] \in {"none", "opening", "opened", "wired"}
      PROVE  controller'[s] = "none"
  <2>1. construct[s] \in {"none", "opening", "opened", "wired"}
    BY <1>2, ConstructEdges
  <2>2. controller[s] = "none"
    BY <1>0, <2>1 DEF ClosedInv
  <2>3. SetController(s) => construct'[s] \in {"built", "failing"}
    BY <1>0 DEF SetController, TypeOK
  <2>4. QED
    BY <1>2, <2>2, <2>3, ControllerEdges
<1>3. ASSUME NEW s \in Outbound, construct'[s] = "gone"
      PROVE  controller'[s] # "open" /\ sockets'[s] = {}
  <2>1. CASE construct[s] = "gone"
    <3>1. controller[s] # "open" /\ sockets[s] = {}
      BY <1>0, <2>1 DEF ClosedInv
    <3>2. ~SetController(s)
      BY <2>1 DEF SetController
    <3>3. QED
      BY <2>1, <3>1, <3>2, ControllerEdges, SocketEdges
  <2>2. CASE construct[s] = "undoing" /\ FailFinishes(s)
    <3>1. controller'[s] # "open"
      BY <1>a, <2>2 DEF FailFinishes, controllerVars
    <3>2. sockets[s] \subseteq 1..held[s]
      BY <1>0, <2>2 DEF CarriersInv
    <3>3. QED
      BY <2>2, <3>1, <3>2, SocketEdges
  <2>3. QED
    BY <1>3, <2>1, <2>2, ConstructEdges
<1>4. ASSUME NEW s \in Outbound, wrapClose'[s] \in {"taken", "done"}, s \notin timedOut'
      PROVE  InitDone(s)'
  <2>1. s \notin timedOut
    BY <1>4, CloseEdges
  <2>2. InitDone(s)
    <3>1. wrapClose[s] \in {"taken", "done"} => InitDone(s)
      BY <1>0, <2>1 DEF ClosedInv
    <3>2. TakeOwner(s) => InitDone(s)
      BY <1>4 DEF TakeOwner
    <3>3. wrapClose[s] \in {"taken", "done"} \/ TakeOwner(s)
      BY <1>4, CloseEdges
    <3>4. QED
      BY <3>1, <3>2, <3>3
  <2>3. construct'[s] \in {"ready", "failed", "undoing", "gone"}
    BY <2>2, ConstructEdges DEF InitDone
  <2>4. QED
    BY <2>3 DEF InitDone
<1>5. ASSUME NEW s \in Outbound, wrapClose'[s] = "done", s \notin timedOut'
      PROVE  sockets'[s] = {}
  <2>1. s \notin timedOut
    BY <1>5, CloseEdges
  <2>2. wrapClose[s] \in {"taken", "done"}
    BY <1>5, CloseEdges
  <2>3. construct[s] \in {"ready", "failed", "undoing", "gone"}
    BY <1>0, <2>1, <2>2 DEF ClosedInv, InitDone
  <2>4. CASE wrapClose[s] = "done"
    <3>1. sockets[s] = {}
      BY <1>0, <2>1, <2>4 DEF ClosedInv
    <3>2. QED
      BY <2>3, <3>1, SocketEdges
  <2>5. CASE FinishWrapperClose(s)
    <3>1. sockets[s] \subseteq 1..held[s]
      BY <1>0, <2>3 DEF CarriersInv
    <3>2. QED
      BY <2>5, <3>1, SocketEdges
  <2>6. QED
    BY <1>5, <2>4, <2>5, CloseEdges
<1>6. QED
  BY <1>1, <1>2, <1>3, <1>4, <1>5 DEF ClosedInv

\* The dispatcher starts an operation of a controller only while it is not closed,
\* and one of a wrapper only while its flag is not set.
LEMMA DispatcherWorks ==
    ASSUME RuntimeInv, Next
    PROVE  /\ dispatcher'.at \in {"acking", "answering", "sending"} =>
                 \/ UNCHANGED dispatcher
                 \/ controller[dispatcher'.ctl] # "closed"
           /\ dispatcher'.at \in {"begun", "sending"} =>
                 \/ UNCHANGED dispatcher
                 \/ dispatcher.at = "begun" /\ dispatcher'.wrap = dispatcher.wrap
                 \/ dispatcher'.wrap \notin closed
           /\ dispatcher.at = "stopped" => UNCHANGED dispatcher
<1>0. dispatcher \in DispatcherType
  BY DEF RuntimeInv, Types
<1> DEFINE Goal == /\ dispatcher'.at \in {"acking", "answering", "sending"} =>
                         UNCHANGED dispatcher \/ controller[dispatcher'.ctl] # "closed"
                   /\ dispatcher'.at \in {"begun", "sending"} =>
                         \/ UNCHANGED dispatcher
                         \/ dispatcher.at = "begun" /\ dispatcher'.wrap = dispatcher.wrap
                         \/ dispatcher'.wrap \notin closed
                   /\ dispatcher.at = "stopped" => UNCHANGED dispatcher
<1>1. ASSUME dispatcher'.at \notin {"acking", "answering", "begun", "sending"},
             dispatcher.at # "stopped"
      PROVE  Goal
  BY <1>1
<1>2. CASE UNCHANGED dispatcher
  BY <1>2
<1>3. CASE \/ \E id \in IDs : Hello(id) \/ FindController(id)
           \/ ReceivePacket \/ ListenerFails \/ DropPacket
           \/ DispatcherExits \/ Lookup \/ AddInboundSession
  <2>1. \/ dispatcher' = Idle
        \/ \E at \in {"created", "found", "lookup", "checking", "packet", "listener", "stopped",
                       "aborting", "offering"} :
              \E c, s : dispatcher' = At(at, c, s)
    BY <1>3 DEF Hello, FindController, ReceivePacket, ListenerFails, DropPacket, DispatcherExits,
       Lookup, AddInboundSession
  <2>2. dispatcher.at # "stopped"
    BY <1>3 DEF Hello, FindController, ReceivePacket, ListenerFails, DropPacket, DispatcherExits,
       Lookup, AddInboundSession, Idle
  <2>3. QED
    BY <1>1, <2>1, <2>2 DEF At, Idle
<1>4. CASE KnownPacket
  <2>1. /\ dispatcher.at = "found"
        /\ \/ dispatcher' = [dispatcher EXCEPT !.at = "lookup"]
           \/ /\ dispatcher' = [dispatcher EXCEPT !.at = "answering"]
              /\ controller[dispatcher.ctl] = "open"
    BY <1>4 DEF KnownPacket
  <2>2. QED
    BY <1>0, <2>1 DEF DispatcherType
<1>5. CASE \E s \in Sessions : DispatcherBegins(s)
  <2>1. PICK s \in Sessions : DispatcherBegins(s)
    BY <1>5
  <2>2. s \notin closed /\ (dispatcher' = At("checking", s, s) \/ dispatcher' = At("begun", s, s))
        /\ dispatcher = Idle
    BY <2>1 DEF DispatcherBegins
  <2>3. QED
    BY <2>2 DEF At, Idle
<1>6. CASE DispatcherActs
  <2>1. /\ dispatcher.at = "begun"
        /\ \/ dispatcher' = At("checking", dispatcher.wrap, dispatcher.wrap)
           \/ dispatcher' = At("closing", dispatcher.wrap, dispatcher.wrap)
           \/ /\ dispatcher' = At("sending", dispatcher.wrap, dispatcher.wrap)
              /\ controller[dispatcher.wrap] = "open"
    BY <1>6 DEF DispatcherActs
  <2>2. QED
    BY <2>1 DEF At
<1>7. CASE SendAck
  <2>1. /\ dispatcher.at = "created"
        /\ \/ dispatcher' = [dispatcher EXCEPT !.at = "adding"]
           \/ /\ dispatcher' = [dispatcher EXCEPT !.at = "acking"]
              /\ controller[dispatcher.ctl] # "closed"
    BY <1>7 DEF SendAck
  <2>2. QED
    BY <1>0, <2>1 DEF DispatcherType
<1>8. CASE \/ AckSent \/ DispatcherSent \/ Answered \/ Offer \/ CheckState
           \/ RemoteClose \/ RemoteCloseNotifies
  <2>1. dispatcher' = Idle \/ \E at \in {"adding", "checking", "lookup", "closing", "notifying"} :
                                 dispatcher' = [dispatcher EXCEPT !.at = at]
    BY <1>8 DEF AckSent, DispatcherSent, Answered, Offer, CheckState, RemoteClose,
       RemoteCloseNotifies
  <2>2. dispatcher.at # "stopped"
    BY <1>8 DEF AckSent, DispatcherSent, Answered, Offer, CheckState, RemoteClose,
       RemoteCloseNotifies
  <2>3. dispatcher'.at \in {"idle", "adding", "checking", "lookup", "closing", "notifying"}
    BY <1>0, <2>1 DEF DispatcherType, Idle
  <2>4. QED
    BY <1>1, <2>2, <2>3
<1>9. CASE AbortController \/ DispatcherCloses \/ DispatcherClosesListener
  <2>1. UNCHANGED dispatcher \/ dispatcher' = Idle
    BY <1>9 DEF AbortController, DispatcherCloses, DispatcherClosesListener
  <2>2. dispatcher.at # "stopped"
    BY <1>9 DEF AbortController, DispatcherCloses, DispatcherClosesListener
  <2>3. QED
    BY <1>1, <1>2, <2>1, <2>2 DEF Idle
<1>10. QED
  BY <1>2, <1>3, <1>4, <1>5, <1>6, <1>7, <1>8, <1>9, DispatcherFrame

LEMMA WriteEdges ==
    ASSUME RuntimeInv, Next, NEW s \in Sessions
    PROVE  /\ write'[s] = "sending" => write[s] = "sending" \/ controller[s] # "closed"
           /\ write'[s] # "none" => write[s] # "none" \/ s \notin closed
<1>0. write \in [Sessions -> {"none", "begun", "sending"}]
  BY DEF RuntimeInv, Types, TypeOK
<1>1. CASE \E t \in Sessions : WritePacket(t)
  BY <1>0, <1>1 DEF WritePacket
<1>2. CASE \E t \in Sessions : SendBlock(t)
  BY <1>0, <1>2 DEF SendBlock
<1>3. CASE \E t \in Sessions : WriteReturns(t)
  BY <1>0, <1>3 DEF WriteReturns
<1>4. CASE Accept \/ Offer \/ UNCHANGED <<acceptVars, write>>
  BY <1>4 DEF Accept, Offer
<1>5. QED
  BY <1>1, <1>2, <1>3, <1>4, UseFrame

LEMMA DrainedKept ==
    ASSUME RuntimeInv, Next
    PROVE  DrainedWhenClosed'
<1> USE SessionSets
<1>0. TypeOK /\ DrainedWhenClosed /\ RegistryInv /\ OwnerInv
  BY DEF RuntimeInv, Types
<1>1. ASSUME NEW s \in Sessions, ctlClose'[s] = "done"
      PROVE  ~ControllerActive(s)'
  <2>1. CASE ctlClose[s] = "done"
    <3>1. controller[s] = "closed" /\ ~ControllerActive(s)
      BY <1>0, <2>1 DEF RegistryInv, DrainedWhenClosed
    <3>2. write'[s] # "sending"
      BY <3>1, WriteEdges DEF ControllerActive
    <3>3. ~(dispatcher'.at \in {"acking", "answering", "sending"} /\ dispatcher'.ctl = s)
      BY <3>1, DispatcherWorks DEF ControllerActive
    <3>4. ~(s \in Outbound /\ construct'[s] = "starting")
      <4>1. s \in Outbound => construct[s] # "starting"
        BY <3>1 DEF ControllerActive
      <4>2. s \in Outbound /\ StartController(s) => construct'[s] = "failing"
        BY <1>0, <3>1 DEF StartController, TypeOK
      <4>3. QED
        BY <4>1, <4>2, ConstructEdges
    <3>5. QED
      BY <3>2, <3>3, <3>4 DEF ControllerActive
  <2>2. CASE FinishControllerClose(s)
    BY <2>2 DEF FinishControllerClose, Drained, ControllerActive, constructVars
  <2>3. QED
    BY <1>1, <2>1, <2>2, ControllerCloseEdges
<1>2. ASSUME NEW s \in Sessions, wrapClose'[s] = "done"
      PROVE  write'[s] = "none" /\ ~(dispatcher'.at \in {"begun", "sending"} /\ dispatcher'.wrap = s)
  <2>1. CASE wrapClose[s] = "done"
    <3>1. /\ write[s] = "none" /\ ~(dispatcher.at \in {"begun", "sending"} /\ dispatcher.wrap = s)
          /\ s \in closed
      BY <1>0, <2>1 DEF DrainedWhenClosed, OwnerInv
    <3>2. write'[s] = "none"
      BY <3>1, WriteEdges
    <3>3. ~(dispatcher'.at \in {"begun", "sending"} /\ dispatcher'.wrap = s)
      BY <3>1, DispatcherWorks
    <3>4. QED
      BY <3>2, <3>3
  <2>2. CASE FinishWrapperClose(s)
    BY <2>2 DEF FinishWrapperClose, OperationsOver
  <2>3. QED
    BY <1>2, <2>1, <2>2, CloseEdges
<1>3. QED
  BY <1>1, <1>2 DEF DrainedWhenClosed

----------------------------------------------------------------------------
(* Listener.Close and Peer.Close                                           *)

LEMMA ListenerSteps ==
    ASSUME Next
    PROVE  /\ \/ UNCHANGED listener
              \/ StartListenerClose
              \/ ListenerSnapshot \/ ListenerClosesWrapper \/ RegistryClose
              \/ RegistryClosesController \/ ListenerClosed
           /\ listenerDone => listenerDone'
<1>1. \/ UNCHANGED listener
      \/ StartListenerClose
      \/ ListenerSnapshot \/ ListenerClosesWrapper \/ RegistryClose
      \/ RegistryClosesController \/ ListenerClosed
  BY OwnersFrame
     DEF UserClosesListener, PeerClose, DispatcherClosesListener, PeerSignals,
         PeerClosesSession, PeerClosesListener, PeerCloseReturns, ownerVars
<1>2. listenerDone => listenerDone'
  BY OwnersFrame
     DEF UserClosesListener, PeerClose, DispatcherClosesListener, PeerSignals,
         PeerClosesSession, PeerClosesListener, PeerCloseReturns, ownerVars, StartListenerClose,
         ListenerSnapshot, ListenerClosesWrapper, RegistryClose, RegistryClosesController,
         ListenerClosed
<1>3. QED
  BY <1>1, <1>2

LEMMA ListenerKept ==
    ASSUME RuntimeInv, Next
    PROVE  ListenerInv'
<1> USE SessionSets
<1>0. TypeOK /\ ListenerInv /\ TablesInv /\ OwnerInv /\ listener \in ListenerType
  BY DEF RuntimeInv, Types
<1>1. ASSUME listener.at # "open"
      PROVE  sessions' \cap Inbound \subseteq sessions \cap Inbound
  <2>1. listenerDone
    BY <1>0, <1>1 DEF ListenerInv
  <2>2. QED
    BY <2>1, SessionsEdges
<1>2. CASE UNCHANGED listener
  BY <1>0, <1>1, <1>2, ListenerSteps DEF ListenerInv
<1>3. CASE StartListenerClose
  BY <1>0, <1>3 DEF StartListenerClose, ListenerInv, ListenerType
<1>4. CASE ListenerSnapshot
  <2>1. /\ listener.at = "begun" /\ listener'.at = "wrappers"
        /\ listener'.left = {inbound[id] : id \in IDs} \ {None}
        /\ UNCHANGED <<sessions, listenerDone>>
    BY <1>4 DEF ListenerSnapshot, tableVars
  <2>2. \A s \in sessions \cap Inbound : s \in {inbound[id] : id \in IDs} \ {None}
    <3>1. \A s \in sessions \cap Inbound : s \in Made /\ inbound[wireID[s]] = s /\ s # None
      BY <1>0 DEF TablesInv
    <3>2. QED
      BY <1>0, <3>1, MadeFacts
  <2>3. QED
    BY <1>0, <2>1, <2>2 DEF ListenerInv
<1>5. CASE ListenerClosesWrapper
  <2>0. listener.at = "wrappers" /\ UNCHANGED <<sessions, listenerDone>>
    BY <1>5 DEF ListenerClosesWrapper, tableVars
  <2>1. CASE /\ listener.cur = None
             /\ \E s \in listener.left : listener' = [listener EXCEPT !.cur = s, !.left = @ \ {s}]
    <3>1. listener'.at = "wrappers" /\ listener.left \subseteq listener'.left \cup {listener'.cur}
      BY <1>0, <2>0, <2>1 DEF ListenerType
    <3>2. QED
      BY <1>0, <2>0, <2>1, <3>1 DEF ListenerInv
  <2>2. CASE /\ listener.cur # None /\ wrapClose[listener.cur] = "done"
             /\ listener' = [listener EXCEPT !.cur = None]
    <3>1. listener'.at = "wrappers" /\ listener'.left = listener.left /\ listener.cur \in Inbound
      BY <1>0, <2>0, <2>2 DEF ListenerType
    <3>2. owner[listener.cur] \in {"held", "closer", "constructor"}
      BY <1>0, <3>1 DEF TypeOK
    <3>3. owner[listener.cur] # "held" /\ owner[listener.cur] # "constructor"
      BY <1>0, <2>2, <3>1 DEF OwnerInv
    <3>4. listener.cur \notin sessions
      BY <1>0, <2>2, <3>1, <3>2, <3>3 DEF OwnerInv
    <3>5. QED
      BY <1>0, <2>0, <3>1, <3>4 DEF ListenerInv
  <2>3. QED
    BY <1>2, <1>5, <2>1, <2>2 DEF ListenerClosesWrapper
<1>6. CASE RegistryClose
  <2>1. /\ listener.at = "wrappers" /\ listener.left = {} /\ listener.cur = None
        /\ listener'.at = "controllers" /\ UNCHANGED <<sessions, listenerDone>>
    BY <1>6 DEF RegistryClose, tableVars
  <2>2. QED
    BY <1>0, <2>1 DEF ListenerInv
<1>7. CASE RegistryClosesController
  <2>1. listener.at = "controllers" /\ listener'.at = "controllers" /\ UNCHANGED <<sessions, listenerDone>>
    BY <1>0, <1>7 DEF RegistryClosesController, ListenerType, tableVars
  <2>2. QED
    BY <1>0, <2>1 DEF ListenerInv
<1>8. CASE ListenerClosed
  <2>1. /\ listener.at = "controllers" /\ listener'.at = "done" /\ UNCHANGED <<sessions, listenerDone>>
        /\ listener'.left = {} /\ listener'.cur = None
    BY <1>0, <1>8 DEF ListenerClosed, ListenerType, tableVars
  <2>2. QED
    BY <1>0, <2>1 DEF ListenerInv
<1>9. QED
  BY <1>2, <1>3, <1>4, <1>5, <1>6, <1>7, <1>8, ListenerSteps

LEMMA PeerKept ==
    ASSUME RuntimeInv, Next
    PROVE  PeerInv'
<1> USE SessionSets
<1>0. PeerInv /\ peer \in PeerType /\ listener \in ListenerType
  BY DEF RuntimeInv, Types
<1>a. listener.at = "done" => listener'.at = "done"
  BY ListenerSteps DEF StartListenerClose, ListenerSnapshot, ListenerClosesWrapper, RegistryClose,
     RegistryClosesController, ListenerClosed
<1>b. ASSUME PeerClosed, NEW s \in sessions'
      PROVE  /\ s \in sessions
             /\ s \in peer.left \cup {peer.cur} \/ wrapClose'[s] = "done"
  <2>1. s \in Sessions
    BY TablesTypes
  <2>2. s \in sessions
    BY <1>b, <2>1, SessionsEdges
  <2>3. s \in peer.left \cup {peer.cur} \/ wrapClose[s] = "done"
    BY <1>0, <1>b, <2>2 DEF PeerInv
  <2>4. QED
    BY <2>1, <2>2, <2>3, CloseEdges
<1>c. ASSUME peer.at = "done"
      PROVE  dispatcher'.at = "stopped"
  BY <1>0, <1>c, DispatcherWorks DEF PeerInv
<1>1. CASE UNCHANGED peer
  BY <1>0, <1>a, <1>b, <1>c, <1>1 DEF PeerInv, PeerClosed
<1>2. CASE PeerClose
  BY <1>2 DEF PeerClose, PeerInv, PeerClosed, tableVars
<1>3. CASE PeerSignals
  <2>1. PeerClosed /\ peer'.at = "sessions" /\ peer'.left = peer.left /\ peer'.cur = peer.cur
    BY <1>0, <1>3 DEF PeerSignals, PeerClosed, PeerType
  <2>2. QED
    BY <1>b, <2>1 DEF PeerInv
<1>4. CASE PeerClosesSession
  <2>0. peer.at = "sessions" /\ PeerClosed
    BY <1>4 DEF PeerClosesSession, PeerClosed
  <2>1. CASE peer.cur = None
             /\ \E s \in peer.left : peer' = [peer EXCEPT !.cur = s, !.left = @ \ {s}]
    <3>1. peer'.at = "sessions" /\ peer.left \subseteq peer'.left \cup {peer'.cur}
      BY <1>0, <2>0, <2>1 DEF PeerType
    <3>2. None \notin sessions'
      BY TablesTypes
    <3>3. QED
      BY <1>b, <2>0, <2>1, <3>1, <3>2 DEF PeerInv
  <2>2. CASE peer.cur # None /\ wrapClose[peer.cur] = "done" /\ peer' = [peer EXCEPT !.cur = None]
    <3>1. peer'.at = "sessions" /\ peer'.left = peer.left /\ peer.cur \in Sessions
      BY <1>0, <2>0, <2>2 DEF PeerType
    <3>2. wrapClose'[peer.cur] = "done"
      BY <2>2, <3>1, CloseEdges
    <3>3. QED
      BY <1>b, <2>0, <3>1, <3>2 DEF PeerInv
  <2>3. QED
    BY <1>1, <1>4, <2>1, <2>2 DEF PeerClosesSession
<1>5. CASE PeerClosesListener
  <2>1. CASE listener.at = "done" /\ peer' = [peer EXCEPT !.at = "worker"]
    <3>1. /\ peer'.at = "worker" /\ peer'.left = {} /\ peer'.cur = None
          /\ peer.left = {} /\ peer.cur = None /\ PeerClosed
      BY <1>0, <1>5, <2>1 DEF PeerType, PeerClosesListener, PeerClosed
    <3>2. QED
      BY <1>a, <1>b, <2>1, <3>1 DEF PeerInv
  <2>2. QED
    BY <1>1, <1>5, <2>1 DEF PeerClosesListener
<1>6. CASE PeerCloseReturns
  <2>1. /\ peer.at = "worker" /\ peer'.at = "done" /\ PeerClosed
        /\ peer'.left = peer.left /\ peer'.cur = peer.cur
        /\ dispatcher'.at = "stopped" /\ UNCHANGED listener
    BY <1>0, <1>6 DEF PeerType, PeerCloseReturns, PeerClosed
  <2>2. QED
    BY <1>0, <1>b, <2>1 DEF PeerInv
<1>7. QED
  BY <1>1, <1>2, <1>3, <1>4, <1>5, <1>6, OwnersFrame
     DEF UserClosesListener, DispatcherClosesListener, ListenerSnapshot, ListenerClosesWrapper,
         RegistryClose, RegistryClosesController, ListenerClosed, ownerVars

----------------------------------------------------------------------------
(* The theorems                                                            *)

LEMMA InitEstablishes == Init => RuntimeInv
<1> SUFFICES ASSUME Init PROVE RuntimeInv
  OBVIOUS
<1> USE SessionSets
<1>a. wireID = <<>> /\ Made = {} /\ Len(wireID) = 0 /\ wireID \in Seq(IDs)
  BY DEF Init, Made
<1>b. Registered = {}
  BY DEF Init, Registered
<1>1. TypeOK
  <2>1. /\ registry \in [IDs -> Inbound \cup {None}] /\ regClosed \in BOOLEAN
        /\ controller \in [Sessions -> {"none", "open", "closed"}]
        /\ ctlClose \in [Sessions -> {"idle", "marked", "done"}]
        /\ inbound \in [IDs -> Inbound \cup {None}]
        /\ sessions \subseteq Sessions /\ closed \subseteq Sessions
    BY DEF Init
  <2>2. /\ owner \in [Sessions -> {"held", "closer", "constructor"}]
        /\ wrapClose \in [Sessions -> {"idle", "waiting", "taken", "done"}]
        /\ timedOut \subseteq Outbound
        /\ write \in [Sessions -> {"none", "begun", "sending"}]
    BY DEF Init
  <2>3. /\ construct \in [Outbound -> ConstructPlaces]
        /\ held \in [Outbound -> 0..Carriers]
        /\ sockets \in [Outbound -> SUBSET (1..Carriers)]
    BY BoundsAssumption DEF Init, ConstructPlaces
  <2>a. accept = <<>>
    BY DEF Init
  <2>b. accept \in Seq(Inbound) /\ Len(accept) <= AcceptCapacity
    BY <2>a, LimitsAssumption
  <2>4. offers \in [Inbound -> Nat] /\ handed \subseteq Inbound /\ listenerDone \in BOOLEAN
    BY DEF Init
  <2>5. /\ listener.left \subseteq Inbound /\ listener.cur \in Inbound \cup {None}
        /\ peer.left \subseteq Sessions /\ peer.cur \in Sessions \cup {None}
        /\ dispatcher.ctl \in Sessions \cup {None} /\ dispatcher.wrap \in Sessions \cup {None}
    BY DEF Init, Idle
  <2>6. Len(wireID) <= MaxInbound
    BY <1>a, BoundsAssumption
  <2>7. QED
    BY <1>a, <2>1, <2>2, <2>3, <2>b, <2>4, <2>5, <2>6 DEF TypeOK, ConstructPlaces
<1>2. /\ scenario \in Scenarios /\ listener \in ListenerType /\ peer \in PeerType
      /\ dispatcher \in DispatcherType
  BY DEF Init, Idle, ListenerType, PeerType, DispatcherType, DispatcherPlaces
<1>3. DispatcherInv
  BY DEF Init, Idle, DispatcherInv
<1>4. CarriersInv
  BY BoundsAssumption DEF Init, CarriersInv
<1>5. RegistryInv /\ LeavingInv
  BY <1>a DEF Init, RegistryInv, LeavingInv, Idle
<1>6. TablesInv
  BY DEF Init, TablesInv
<1>7. LimitsInv
  <2>1. scenario.maxSessions \in Nat
    BY <1>2, LimitsAssumption
  <2>2. sessions = {} /\ Cardinality({}) = 0
    BY FS_EmptySet DEF Init
  <2>3. QED
    BY <1>b, <2>1, <2>2 DEF LimitsInv
<1>8. FreshInv
  BY DEF Init, FreshInv, Idle, Queued
<1>9. WrapperInv
  BY DEF Init, WrapperInv, Idle, Queued
<1>10. OwnerInv /\ ClosedInv
  BY DEF Init, OwnerInv, ClosedInv
<1>11. DrainedWhenClosed
  BY DEF Init, DrainedWhenClosed
<1>12. ListenerInv /\ PeerInv
  BY DEF Init, ListenerInv, PeerInv, PeerClosed
<1>13. QED
  BY <1>1, <1>2, <1>3, <1>4, <1>5, <1>6, <1>7, <1>8, <1>9, <1>10, <1>11, <1>12 DEF RuntimeInv, Types

LEMMA StepKeeps == RuntimeInv /\ [Next]_<<vars, scenario, parentDone>> => RuntimeInv'
<1> SUFFICES ASSUME RuntimeInv, [Next]_<<vars, scenario, parentDone>> PROVE RuntimeInv'
  OBVIOUS
<1>1. CASE Next
  BY <1>1, TypesKept, RegistryKept, LeavingKept, TablesKept, LimitsKept, FreshKept, WrapperKept, OwnerKept,
     ClosedKept, DrainedKept, ListenerKept, PeerKept DEF RuntimeInv
<1>2. CASE UNCHANGED <<vars, scenario, parentDone>>
  <2>1. /\ UNCHANGED <<scenario, registry, regClosed, wireID, controller, ctlClose, inbound, sessions>>
        /\ UNCHANGED <<closed, owner, wrapClose, timedOut, write, construct, held, sockets>>
        /\ UNCHANGED <<accept, offers, handed, listenerDone, listener, peer, dispatcher>>
    BY <1>2 DEF vars, registryVars, controllerVars, tableVars, closeVars, constructVars,
       acceptVars, ownerVars
  <2>2. Types'
    BY <2>1 DEF RuntimeInv, Types, TypeOK, DispatcherInv, CarriersInv, Made
  <2>3. RegistryInv' /\ LeavingInv' /\ TablesInv' /\ LimitsInv'
    BY <2>1 DEF RuntimeInv, RegistryInv, LeavingInv, Leaving, TablesInv, LimitsInv, Made, Registered
  <2>4. FreshInv'
    BY <2>1 DEF RuntimeInv, FreshInv, Fresh, Queued, Made
  <2>5. WrapperInv'
    BY <2>1 DEF RuntimeInv, WrapperInv, Handled, Queued, InUse
  <2>6. OwnerInv' /\ ClosedInv'
    BY <2>1 DEF RuntimeInv, OwnerInv, ClosedInv, InitDone
  <2>7. DrainedWhenClosed' /\ ListenerInv' /\ PeerInv'
    BY <2>1 DEF RuntimeInv, DrainedWhenClosed, ControllerActive, ListenerInv, PeerInv, PeerClosed
  <2>8. QED
    BY <2>2, <2>3, <2>4, <2>5, <2>6, <2>7 DEF RuntimeInv
<1>3. QED
  BY <1>1, <1>2

\* The inductive invariant: who answers for a Session at any time.
THEOREM RuntimeInvariant == Spec => []RuntimeInv
BY InitEstablishes, StepKeeps, PTL DEF Spec

\* The registry of peer_runtime.go's Listener and the two tables of the Peer never
\* disagree, and Limits.MaxSessions bounds both, though a controller is made under
\* the lock of one and its wrapper later under the lock of the other.
THEOREM TablesAlwaysAgree == Spec => []TablesAgree
<1>1. RuntimeInv => TablesAgree
  BY DEF RuntimeInv, Types, RegistryInv, LeavingInv, Leaving, TablesInv, LimitsInv, TablesAgree,
     Registered
<1>2. QED
  BY <1>1, RuntimeInvariant, PTL

\* closeWithContext and the controller's Close wait for what is in flight: when one
\* of them is done, no WritePacket, HELLO_ACK or first HELLO runs.
THEOREM ClosesDrain == Spec => []DrainedWhenClosed
<1>1. RuntimeInv => DrainedWhenClosed
  BY DEF RuntimeInv
<1>2. QED
  BY <1>1, RuntimeInvariant, PTL

\* Listener.Close keeps its promise although the registry and the table of wrappers
\* are emptied one after the other while the dispatcher may be between the two.
THEOREM ListenerCloseIsFinal == Spec => []NothingOutlivesListener
<1>1. RuntimeInv => NothingOutlivesListener
  <2> SUFFICES ASSUME RuntimeInv, listener.at = "done"
               PROVE  Registered = {} /\ sessions \cap Inbound = {}
                      /\ \A c \in Inbound : controller[c] # "open"
    BY DEF NothingOutlivesListener
  <2>1. sessions \cap Inbound = {} /\ listener.left = {} /\ listener.cur = None
    BY DEF RuntimeInv, ListenerInv
  <2>2. regClosed
    BY DEF RuntimeInv, RegistryInv
  <2>3. Registered = {}
    BY <2>2 DEF RuntimeInv, RegistryInv, Registered
  <2>4. \A c \in Inbound : controller[c] # "open"
    BY <2>1, <2>2, SessionSets DEF RuntimeInv, RegistryInv
  <2>5. QED
    BY <2>1, <2>3, <2>4
<1>2. QED
  BY <1>1, RuntimeInvariant, PTL

\* Peer.Close keeps its promise whatever was being constructed, offered, written or
\* closed by somebody else when it began.
THEOREM PeerCloseCompletes == Spec => []PeerCloseIsComplete
<1>1. RuntimeInv => PeerCloseIsComplete
  <2> USE SessionSets
  <2> SUFFICES ASSUME RuntimeInv, peer.at = "done"
               PROVE  /\ dispatcher.at = "stopped"
                      /\ \A s \in sessions :
                            s \in Outbound /\ construct[s] = "undoing" /\ owner[s] = "constructor"
                      /\ \A s \in Sessions : controller[s] # "open" /\ write[s] = "none"
                      /\ \A s \in Outbound \ timedOut : sockets[s] = {}
    BY DEF PeerCloseIsComplete
  <2>0. TypeOK
    BY DEF RuntimeInv, Types
  <2>1. /\ dispatcher.at = "stopped" /\ listener.at = "done"
        /\ peer.left = {} /\ peer.cur = None /\ PeerClosed
    BY DEF RuntimeInv, PeerInv, PeerClosed
  <2>2. \A s \in sessions : wrapClose[s] = "done" /\ s \in Sessions
    BY <2>0, <2>1 DEF RuntimeInv, PeerInv, TypeOK
  <2>3. ASSUME NEW s \in sessions
        PROVE  s \in Outbound /\ construct[s] = "undoing" /\ owner[s] = "constructor"
    <3>1. s \in Sessions /\ wrapClose[s] = "done" /\ owner[s] \in {"held", "closer", "constructor"}
      BY <2>0, <2>2 DEF TypeOK
    <3>2. owner[s] = "constructor"
      BY <3>1 DEF RuntimeInv, OwnerInv
    <3>3. QED
      BY <3>1, <3>2 DEF RuntimeInv, OwnerInv
  <2>4. ASSUME NEW s \in Sessions, Handled(s)
        PROVE  wrapClose[s] = "done" \/ (s \in Outbound /\ construct[s] = "gone")
    BY <2>2, <2>4 DEF Handled
  <2>5. ASSUME NEW s \in Sessions
        PROVE  controller[s] # "open"
    <3>1. CASE s \in Inbound
      <4>1. regClosed /\ listener.left = {} /\ listener.cur = None
        BY <2>1 DEF RuntimeInv, RegistryInv, ListenerInv
      <4>2. QED
        BY <3>1, <4>1 DEF RuntimeInv, RegistryInv
    <3>2. CASE s \in Outbound
      <4>1. construct[s] = "none" => controller[s] = "none"
        BY <3>2 DEF RuntimeInv, ClosedInv
      <4>2. construct[s] # "none" => wrapClose[s] = "done" \/ construct[s] = "gone"
        BY <2>4, <3>2 DEF RuntimeInv, WrapperInv
      <4>3. QED
        BY <3>2, <4>1, <4>2 DEF RuntimeInv, ClosedInv
    <3>3. QED
      BY <3>1, <3>2
  <2>6. ASSUME NEW s \in Sessions
        PROVE  write[s] = "none"
    <3>1. CASE InUse(s)
      <4>1. Handled(s) /\ ~(s \in Outbound /\ construct[s] = "gone")
        BY <2>0, <3>1 DEF InUse, RuntimeInv, WrapperInv, TypeOK
      <4>2. wrapClose[s] = "done"
        BY <2>4, <4>1
      <4>3. QED
        BY <4>2 DEF RuntimeInv, DrainedWhenClosed
    <3>2. CASE ~InUse(s)
      BY <3>2 DEF RuntimeInv, WrapperInv
    <3>3. QED
      BY <3>1, <3>2
  <2>7. ASSUME NEW s \in Outbound, s \notin timedOut
        PROVE  sockets[s] = {}
    <3>1. CASE construct[s] = "none"
      <4>1. held[s] = 0 /\ sockets[s] \subseteq 1..0
        BY <3>1 DEF RuntimeInv, Types, CarriersInv
      <4>2. QED
        BY <4>1
    <3>2. CASE construct[s] # "none"
      <4>1. wrapClose[s] = "done" \/ construct[s] = "gone"
        BY <2>4, <3>2 DEF RuntimeInv, WrapperInv
      <4>2. QED
        BY <2>7, <4>1 DEF RuntimeInv, ClosedInv
    <3>3. QED
      BY <3>1, <3>2
  <2>8. QED
    BY <2>1, <2>3, <2>5, <2>6, <2>7
<1>2. QED
  BY <1>1, RuntimeInvariant, PTL

=============================================================================
