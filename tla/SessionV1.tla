----------------------------- MODULE SessionV1 -----------------------------
(***************************************************************************)
(* One v1 Session controller, of either role (internal/session/session.go):*)
(* bootstrap over several paths, the pool of learned Endpoints, path       *)
(* health, keepalive probes, deadlines and Close.                          *)
(*                                                                         *)
(* The other side and the network are the environment: any authenticated   *)
(* packet may come at any time, on any path, again, or not at all.  What   *)
(* it carries is reduced to what the handler asks of it (is the handshake  *)
(* compatible, does the PONG answer the probe outstanding, what did the    *)
(* FEC decoder say).                                                       *)
(*                                                                         *)
(* Packets are planned under the Session's lock and sent after it, by the  *)
(* Peer's one dispatcher (plans), by the constructor that runs Start       *)
(* (startPlans) and by a caller of WritePacket (writing), so a send may    *)
(* fail when the state it was planned in is gone.                          *)
(*                                                                         *)
(* A path is a carrier of an initiator, or a remote address a listener     *)
(* hears from; an Endpoint is a path with its socket generation.  Every    *)
(* deadline is kept as the time left, 0 when it is due or overdue, so the  *)
(* clock needs no bound.                                                   *)
(***************************************************************************)
EXTENDS Integers, FiniteSets

CONSTANTS
    Paths,
    MaxGeneration,         \* bound: socket generations of one carrier
    MaxRebuilt,            \* bound: carriers that are ever rebuilt
    WriterRoles,           \* bound: the roles whose application calls WritePacket
    MaxHandshakeAttempts,
    MaxEndpoints,
    HandshakeRetryInterval, KeepaliveInterval, EndpointTTL, DecodeTimeout

ASSUME PathsAssumption == IsFiniteSet(Paths) /\ Paths # {}
ASSUME CountsAssumption ==
    /\ MaxGeneration \in Nat \ {0} /\ MaxRebuilt \in Nat
    /\ WriterRoles \subseteq {"initiator", "listener"}
    /\ MaxHandshakeAttempts \in Nat \ {0} /\ MaxEndpoints \in Nat \ {0}
ASSUME IntervalsAssumption ==
    /\ HandshakeRetryInterval \in Nat \ {0} /\ KeepaliveInterval \in Nat \ {0}
    /\ EndpointTTL \in Nat \ {0} /\ DecodeTimeout \in Nat \ {0}

Keys == Paths \X (1..MaxGeneration)

Never == -1     \* a deadline that is not set

VARIABLES
    role, state, started,
    \* carriers of an initiator
    attempts, acked, exhausted, nextRetry, healthy,
    \* Endpoints
    endpoints,      \* the keys in the map
    ttl,            \* time left of each of them, 0 for all others
    epHealthy,      \* a listener's healthy ones (an initiator schedules by carrier)
    \* probes and other deadlines
    outstanding,    \* paths with an outstanding probe
    nextKeepalive, nextDecodeSweep,
    \* transport
    generation, up,
    \* sends planned and not done yet: <<kind, path>>; paths of a WritePacket
    plans, startPlans, writing,
    hellos          \* history: paths a HELLO went out on

carrierVars == <<attempts, acked, exhausted, nextRetry, healthy>>
endpointVars == <<endpoints, ttl, epHealthy>>
deadlineVars == <<nextKeepalive, nextDecodeSweep>>
transportVars == <<generation, up>>
sendVars == <<plans, startPlans, writing>>
vars == <<role, state, started, carrierVars, endpointVars, outstanding,
          deadlineVars, transportVars, sendVars, hellos>>

Initiator == role = "initiator"
Key(p) == <<p, generation[p]>>

NewInitiator ==
    /\ role = "initiator" /\ state = "handshaking" /\ started = FALSE
    /\ healthy = Paths
    /\ endpoints = {} /\ epHealthy = {} /\ ttl = [k \in Keys |-> 0]
    /\ nextKeepalive = Never /\ nextDecodeSweep = Never
    /\ plans = {}

\* A listener's Session as a HELLO on path p has made it.
NewListenerSession(p) ==
    /\ role = "listener" /\ state = "established" /\ started = TRUE
    /\ healthy = {}
    /\ endpoints = {<<p, 1>>} /\ epHealthy = {<<p, 1>>}
    /\ ttl = [k \in Keys |-> IF k = <<p, 1>> THEN EndpointTTL ELSE 0]
    /\ nextKeepalive = KeepaliveInterval /\ nextDecodeSweep = DecodeTimeout
    /\ plans = {<<"HELLO_ACK", p>>}

Init ==
    /\ attempts = [p \in Paths |-> 0]
    /\ acked = {} /\ exhausted = {}
    /\ nextRetry = [p \in Paths |-> Never]
    /\ outstanding = {}
    /\ generation = [p \in Paths |-> 1] /\ up = Paths
    /\ startPlans = {} /\ writing = {}
    /\ hellos = {}
    /\ NewInitiator \/ \E p \in Paths : NewListenerSession(p)

----------------------------------------------------------------------------
(* Endpoints                                                               *)

Expired == {k \in endpoints : ttl[k] = 0}
ExpiredPaths == {k[1] : k \in Expired}

\* sweepEndpointsLocked.  A listener forgets the probe as well, an initiator
\* takes the carrier out of the DATA candidates.
SweptEndpoints == endpoints \ Expired
SweptOutstanding == IF Initiator THEN outstanding ELSE outstanding \ ExpiredPaths
SweptHealthy == IF Initiator THEN healthy \ ExpiredPaths ELSE healthy

\* Mutant: Endpoints of an earlier socket generation are left to their TTL.
MutantKeepsStale(p) == {}

\* A carrier's Endpoint whose socket has been replaced or is gone.
Stale(p) ==
    {k \in SweptEndpoints : Initiator /\ k[1] = p /\ (k # Key(p) \/ p \notin up)}

\* canLearnEndpointLocked: what is left in the map after it, and its answer.
Kept(p) == IF Key(p) \in SweptEndpoints THEN SweptEndpoints ELSE SweptEndpoints \ Stale(p)
CanLearn(p) == Key(p) \in Kept(p) \/ Cardinality(Kept(p)) < MaxEndpoints

TTLOf(keys) == [k \in Keys |-> IF k \in keys THEN ttl[k] ELSE 0]

\* The call of canLearnEndpointLocked alone.
OnlySweep(p) ==
    /\ endpoints' = Kept(p)
    /\ epHealthy' = epHealthy \cap Kept(p)
    /\ ttl' = TTLOf(Kept(p))
    /\ outstanding' = SweptOutstanding
    /\ healthy' = SweptHealthy

\* learnEndpointLocked; done are probes the packet answers.
Learn(p, done) ==
    /\ endpoints' = Kept(p) \cup {Key(p)}
    /\ ttl' = [TTLOf(Kept(p)) EXCEPT ![Key(p)] = EndpointTTL]
    /\ epHealthy' = IF Initiator THEN {} ELSE (epHealthy \cap Kept(p)) \cup {Key(p)}
    /\ outstanding' = SweptOutstanding \ done
    /\ healthy' = IF Initiator THEN SweptHealthy \cup {p} ELSE healthy

----------------------------------------------------------------------------
(* Packets, handled by the dispatcher                                       *)

\* Packets come on a path whose socket is available, once the other side can
\* know of this Session.
Receives(p) ==
    /\ plans = {}
    /\ state # "closed"
    /\ p \in up
    /\ Initiator => hellos # {}

\* HELLO: a compatible one is answered.
Hello(p) ==
    /\ Receives(p) /\ ~Initiator /\ state = "established"
    /\ \/ /\ CanLearn(p)
          /\ Learn(p, {})
          /\ plans' = {<<"HELLO_ACK", p>>}
       \/ ~CanLearn(p) /\ OnlySweep(p) /\ UNCHANGED plans
    /\ UNCHANGED <<role, state, started, attempts, acked, exhausted, nextRetry,
                   deadlineVars, transportVars, startPlans, writing, hellos>>

\* establishLocked; the encoder and the decoder are those of FecDecoder.
Establish ==
    /\ state' = "established"
    /\ nextKeepalive' = KeepaliveInterval
    /\ nextDecodeSweep' = DecodeTimeout

AckWelcome == state \in {"handshaking", "established"}

\* HELLO_ACK, compatible with this side: the first one establishes the Session,
\* each one confirms its carrier.
HelloAck(p) ==
    /\ Receives(p) /\ Initiator /\ p \in hellos
    /\ AckWelcome
    /\ IF state = "established" THEN UNCHANGED <<state, deadlineVars>>
       ELSE Establish
    /\ \/ /\ CanLearn(p)
          /\ Learn(p, {})
          /\ acked' = acked \cup {p}
          /\ exhausted' = exhausted \ {p}
          /\ nextRetry' = [nextRetry EXCEPT ![p] = Never]
       \/ ~CanLearn(p) /\ OnlySweep(p) /\ UNCHANGED <<acked, exhausted, nextRetry>>
    /\ UNCHANGED <<role, started, attempts, transportVars, sendVars, hellos>>

\* DATA: a shard the decoder refuses or finds too old leaves the Endpoint alone.
Data(p) ==
    /\ Receives(p) /\ state = "established"
    /\ \E kept \in BOOLEAN :
           IF kept /\ CanLearn(p) THEN Learn(p, {}) ELSE OnlySweep(p)
    /\ UNCHANGED <<role, state, started, attempts, acked, exhausted, nextRetry,
                   deadlineVars, transportVars, sendVars, hellos>>

Ping(p) ==
    /\ Receives(p) /\ state = "established"
    /\ \/ /\ CanLearn(p)
          /\ Learn(p, {})
          /\ plans' = {<<"PONG", p>>}
       \/ ~CanLearn(p) /\ OnlySweep(p) /\ UNCHANGED plans
    /\ UNCHANGED <<role, state, started, attempts, acked, exhausted, nextRetry,
                   deadlineVars, transportVars, startPlans, writing, hellos>>

\* PONG that answers the probe outstanding on its path (any other changes
\* nothing).  A probe that is still there when the sends are done was sent.
Pong(p) ==
    /\ Receives(p) /\ state = "established"
    /\ p \in outstanding
    /\ IF CanLearn(p) THEN Learn(p, {p}) ELSE OnlySweep(p)
    /\ UNCHANGED <<role, state, started, attempts, acked, exhausted, nextRetry,
                   deadlineVars, transportVars, sendVars, hellos>>

----------------------------------------------------------------------------
(* Close                                                                    *)

ClosedRetries == [p \in Paths |-> Never]

\* markClosedLocked; sends in flight go on until they notice.
MarkClosed ==
    /\ state' = "closed"
    /\ nextKeepalive' = Never /\ nextDecodeSweep' = Never
    /\ nextRetry' = ClosedRetries
    /\ endpoints' = {} /\ epHealthy' = {} /\ ttl' = TTLOf({}) /\ outstanding' = {}
    /\ UNCHANGED <<role, started, attempts, acked, exhausted, healthy,
                   transportVars, sendVars, hellos>>

RemoteClose(p) == Receives(p) /\ MarkClosed

Close == state # "closed" /\ MarkClosed

----------------------------------------------------------------------------
(* Start, Advance and WritePacket                                           *)

Start ==
    /\ Initiator /\ state = "handshaking" /\ ~started
    /\ started' = TRUE
    /\ attempts' = [p \in Paths |-> attempts[p] + 1]
    /\ nextRetry' = [p \in Paths |-> HandshakeRetryInterval]
    /\ startPlans' = {<<"HELLO", p>> : p \in Paths}
    /\ UNCHANGED <<role, state, acked, exhausted, healthy, endpointVars, outstanding,
                   deadlineVars, transportVars, plans, writing, hellos>>

RetryDue ==
    {p \in Paths : Initiator /\ started /\ p \notin acked \cup exhausted /\ nextRetry[p] = 0}

\* Mutant: one attempt less than configured.
MutantGivesUpEarly == {p \in RetryDue : attempts[p] >= MaxHandshakeAttempts - 1}

\* Carriers whose last HELLO has had its reply window.
GivesUp == {p \in RetryDue : attempts[p] >= MaxHandshakeAttempts}

\* Mutant: a carrier that gives up keeps its overdue retry deadline.
MutantOverdueRetry ==
    [p \in Paths |-> IF p \in RetryDue \ GivesUp THEN HandshakeRetryInterval ELSE nextRetry[p]]

\* Mutant: a retry does not set the next deadline.
MutantForgetsRetry ==
    [p \in Paths |-> IF p \in RetryDue THEN Never ELSE nextRetry[p]]

RetryAfterAdvance ==
    [p \in Paths |-> CASE p \in GivesUp -> Never
                       [] p \in RetryDue \ GivesUp -> HandshakeRetryInterval
                       [] OTHER -> nextRetry[p]]

\* Mutant: only paths that carry DATA are probed.
MutantProbesHealthy ==
    IF Initiator THEN SweptHealthy \cap up ELSE {k[1] : k \in SweptEndpoints}

\* Every available carrier is probed, healthy or not, or every Endpoint.
KeepalivePaths == IF Initiator THEN up ELSE {k[1] : k \in SweptEndpoints}

AllCarriersExhausted(gone) == acked = {} /\ gone = Paths

\* An Advance that finds nothing due changes nothing.
Advance ==
    /\ plans = {} /\ state # "closed"
    /\ exhausted' = exhausted \cup GivesUp
    /\ LET failed == state = "handshaking" /\ Initiator /\ started
                     /\ AllCarriersExhausted(exhausted')
           probed == IF state = "established" /\ nextKeepalive = 0 THEN KeepalivePaths ELSE {}
       IN /\ state' = IF failed THEN "failed" ELSE state
          /\ nextKeepalive' = IF state = "established" /\ nextKeepalive = 0
                              THEN KeepaliveInterval ELSE nextKeepalive
          /\ plans' = {<<"HELLO", p>> : p \in RetryDue \ GivesUp}
                      \cup {<<"PING", p>> : p \in probed}
          /\ outstanding' = SweptOutstanding \cup probed
    /\ attempts' = [p \in Paths |-> attempts[p] + IF p \in RetryDue \ GivesUp THEN 1 ELSE 0]
    /\ nextRetry' = RetryAfterAdvance
    /\ healthy' = SweptHealthy \ GivesUp
    /\ endpoints' = SweptEndpoints
    /\ epHealthy' = epHealthy \cap SweptEndpoints
    /\ nextDecodeSweep' = IF nextDecodeSweep = 0 THEN DecodeTimeout ELSE nextDecodeSweep
    /\ UNCHANGED <<role, started, acked, ttl, transportVars, startPlans, writing, hellos>>

\* setPathHealthForPath(path, false): the carrier, whatever its generation now,
\* or the Endpoint, if it is still there.
Unhealthy(ps) ==
    IF Initiator
    THEN healthy' = healthy \ ps /\ UNCHANGED epHealthy
    ELSE epHealthy' = {k \in epHealthy : k[1] \notin ps} /\ UNCHANGED healthy

\* One planned packet is sent, or fails and takes its probe with it; only a failure
\* of the path, not a cancelled context, makes the path unhealthy.
Sent(plan) ==
    LET p == plan[2] IN
    \/ /\ hellos' = IF plan[1] = "HELLO" THEN hellos \cup {p} ELSE hellos
       /\ UNCHANGED <<outstanding, healthy, epHealthy>>
    \/ /\ Unhealthy({p})
       /\ outstanding' = IF plan[1] = "PING" THEN outstanding \ {p} ELSE outstanding
       /\ UNCHANGED hellos
    \/ /\ outstanding' = IF plan[1] = "PING" THEN outstanding \ {p} ELSE outstanding
       /\ UNCHANGED <<hellos, healthy, epHealthy>>

DispatcherSends ==
    /\ \E plan \in plans : Sent(plan) /\ plans' = plans \ {plan}
    /\ UNCHANGED <<role, state, started, attempts, acked, exhausted, nextRetry,
                   endpoints, ttl, deadlineVars, transportVars, startPlans, writing>>

StartSends ==
    /\ \E plan \in startPlans : Sent(plan) /\ startPlans' = startPlans \ {plan}
    /\ UNCHANGED <<role, state, started, attempts, acked, exhausted, nextRetry,
                   endpoints, ttl, deadlineVars, transportVars, plans, writing>>

SendPaths ==
    IF Initiator THEN SweptHealthy \cap up
    ELSE {k[1] : k \in epHealthy \cap SweptEndpoints}

\* WritePacket takes its paths and sends one block after the lock.
WritePacket ==
    /\ role \in WriterRoles /\ writing = {} /\ state = "established"
    /\ writing' = SendPaths
    /\ endpoints' = SweptEndpoints
    /\ epHealthy' = epHealthy \cap SweptEndpoints
    /\ outstanding' = SweptOutstanding
    /\ healthy' = SweptHealthy
    /\ UNCHANGED <<role, state, started, attempts, acked, exhausted, nextRetry, ttl,
                   deadlineVars, transportVars, plans, startPlans, hellos>>

\* recordBlockPathFailures, after the block: the state may be another by now.
WriteReturns ==
    /\ writing # {}
    /\ \E failures \in SUBSET writing : Unhealthy(failures)
    /\ writing' = {}
    /\ UNCHANGED <<role, state, started, attempts, acked, exhausted, nextRetry,
                   endpoints, ttl, outstanding, deadlineVars, transportVars,
                   plans, startPlans, hellos>>

----------------------------------------------------------------------------
(* Transport and time                                                       *)

\* The read loop reports a dead path: SetPathHealthy(path, false).
PathFails(p) ==
    /\ Initiator /\ plans = {} /\ state # "closed"
    /\ p \in healthy
    /\ healthy' = healthy \ {p}
    /\ UNCHANGED <<role, state, started, attempts, acked, exhausted, nextRetry,
                   endpointVars, outstanding, deadlineVars, transportVars,
                   sendVars, hellos>>

PathDown(p) ==
    /\ Initiator /\ state # "closed" /\ p \in up
    /\ up' = up \ {p}
    /\ UNCHANGED <<role, state, started, carrierVars, endpointVars, outstanding,
                   deadlineVars, generation, sendVars, hellos>>

Rebuild(p) ==
    /\ Initiator /\ state # "closed" /\ generation[p] < MaxGeneration
    /\ Cardinality({q \in Paths \ {p} : generation[q] > 1}) < MaxRebuilt
    /\ generation' = [generation EXCEPT ![p] = @ + 1]
    /\ up' = up \cup {p}
    /\ UNCHANGED <<role, state, started, carrierVars, endpointVars, outstanding,
                   deadlineVars, sendVars, hellos>>

Less(t) == IF t > 0 THEN t - 1 ELSE t

Tick ==
    /\ state # "closed"
    /\ nextRetry' = [p \in Paths |-> Less(nextRetry[p])]
    /\ ttl' = [k \in Keys |-> Less(ttl[k])]
    /\ nextKeepalive' = Less(nextKeepalive)
    /\ nextDecodeSweep' = Less(nextDecodeSweep)
    /\ UNCHANGED <<role, state, started, attempts, acked, exhausted, healthy,
                   endpoints, epHealthy, outstanding, transportVars, sendVars, hellos>>

----------------------------------------------------------------------------
Packet(p) ==
    Hello(p) \/ HelloAck(p) \/ Data(p) \/ Ping(p) \/ Pong(p) \/ RemoteClose(p)

Next ==
    \/ \E p \in Paths : Packet(p) \/ PathFails(p) \/ PathDown(p) \/ Rebuild(p)
    \/ Start \/ Advance \/ WritePacket \/ Close
    \/ DispatcherSends \/ StartSends \/ WriteReturns
    \/ Tick

Spec == Init /\ [][Next]_vars

Deadlines ==
    {nextRetry[p] : p \in Paths} \cup {nextKeepalive, nextDecodeSweep}
    \cup {ttl[k] : k \in endpoints}

\* Sends end and time passes (weak fairness).  The dispatcher takes a deadline that
\* is due again and again even if packets keep coming: its select has no order
\* (strong fairness).  The guards stand for ENABLED.
Ticking == state # "closed" /\ \E d \in Deadlines : d > 0
AdvanceDue == plans = {} /\ state # "closed" /\ 0 \in Deadlines
Fairness ==
    /\ []<>(plans = {}) \/ []<><<DispatcherSends>>_vars
    /\ []<>(startPlans = {}) \/ []<><<StartSends>>_vars
    /\ []<>(writing = {}) \/ []<><<WriteReturns>>_vars
    /\ []<>~Ticking \/ []<><<Tick>>_vars
    /\ <>[]~AdvanceDue \/ []<><<Advance>>_vars

FairSpec == Spec /\ Fairness

----------------------------------------------------------------------------
(* Properties                                                               *)

\* Type invariant.
TypeOK ==
    /\ role \in {"initiator", "listener"}
    /\ state \in {"handshaking", "established", "failed", "closed"}
    /\ started \in BOOLEAN
    /\ attempts \in [Paths -> 0..MaxHandshakeAttempts]
    /\ acked \subseteq Paths /\ exhausted \subseteq Paths /\ healthy \subseteq Paths
    /\ nextRetry \in [Paths -> Never..HandshakeRetryInterval]
    /\ endpoints \subseteq Keys /\ epHealthy \subseteq endpoints
    /\ ttl \in [Keys -> 0..EndpointTTL]
    /\ outstanding \subseteq Paths
    /\ nextKeepalive \in Never..KeepaliveInterval
    /\ nextDecodeSweep \in Never..DecodeTimeout
    /\ generation \in [Paths -> 1..MaxGeneration] /\ up \subseteq Paths
    /\ plans \subseteq {"HELLO", "HELLO_ACK", "PING", "PONG"} \X Paths
    /\ startPlans \subseteq {"HELLO"} \X Paths
    /\ writing \subseteq Paths /\ hellos \subseteq Paths

\* Close leaves nothing behind and nothing comes back: no Endpoint, no probe and
\* no deadline, whatever send was in flight when the Session was closed.  A
\* handshake has failed only if every carrier has used all its attempts, and no
\* HELLO_ACK was taken and no Endpoint learned, before or after.
EndedIsOver ==
    /\ TypeOK
    /\ state = "closed" => endpoints = {} /\ outstanding = {} /\ Deadlines = {Never}
    /\ state = "failed" => /\ \A p \in Paths : attempts[p] = MaxHandshakeAttempts
                           /\ acked = {} /\ endpoints = {}

\* A carrier of an initiator never finds the Endpoint pool full, although every
\* rebuild of a socket gives it a new Endpoint identity: it has at most one
\* Endpoint (where MaxEndpoints is at least the number of carriers).
CarrierNeverRefused ==
    Initiator => /\ \A p \in up : CanLearn(p)
                 /\ \A k, m \in endpoints : k[1] = m[1] => k = m

\* Advance leaves no deadline due, so the driver, which sleeps until the earliest
\* one, does not spin.
AdvanceClearsDue == [][Advance => 0 \notin Deadlines']_vars

\* A handshake that was started comes to an end.
HandshakeSettles == (Initiator /\ started) ~> state # "handshaking"

\* Every available carrier of an established Session is probed again and again,
\* whatever its health, so that a path which recovers can be noticed.
PathsAreProbed ==
    \A p \in Paths : (Initiator /\ state = "established" /\ p \in up)
        ~> (<<"PING", p>> \in plans \/ p \notin up \/ state # "established")

============================================================================
