------------------------- MODULE SessionSocketProofs -------------------------
(***************************************************************************)
(* Proofs about the v1 Session controller and about the sockets under it   *)
(* (SessionV1 and SocketLifecycle, which share no state).                  *)
(*                                                                         *)
(* The Session, for every set of paths, every limit and every interval:    *)
(* what has ended is over, a carrier always finds room for its Endpoint,   *)
(* and Advance leaves nothing due.  None of the three is inductive.        *)
(* SessionInv adds who may own a retry deadline (an initiator's carrier    *)
(* that has started and has neither been acknowledged nor given up), that  *)
(* a carrier gives up with all attempts used, and what a Session that was  *)
(* never established cannot have.                                          *)
(*                                                                         *)
(* The sockets, for any number of concurrent calls, sends and generations: *)
(* a Rebuild or Close that has returned leaves silence behind              *)
(* (ReturnedMeansSilent).  The property is about returned calls; the       *)
(* argument is about ownership while they run.  The lifecycle lock has one *)
(* holder, which alone dials, publishes and retires (CallsInv); a socket   *)
(* that is not the published one is silent or in some call's hands         *)
(* (SocketsInv); and a socket's active count is the number of its sends    *)
(* and its callback, so nothing can move it once it is zero and the socket *)
(* is not published (SendsInv).                                            *)
(***************************************************************************)
EXTENDS SessionV1, SocketLifecycle, FiniteSetTheorems, TLAPS

----------------------------------------------------------------------------
(* The v1 Session controller                                               *)

\* A retry deadline is set only while a HELLO_ACK is still awaited.  Without it
\* an overdue deadline of an acknowledged carrier would stay due in Advance.
RetriesAwaited ==
    \A p \in Paths : nextRetry[p] # Never =>
        Initiator /\ started /\ p \notin acked \cup exhausted

\* A carrier gives up after its last attempt, and none is made before Start.
AttemptsUsed ==
    /\ \A p \in exhausted : attempts[p] = MaxHandshakeAttempts
    /\ ~started => exhausted = {} /\ \A p \in Paths : attempts[p] = 0

\* A Session that is not established has no acknowledged carrier, no Endpoint
\* and no deadline of an established one.
NeverEstablished ==
    state \in {"handshaking", "failed"} =>
        acked = {} /\ endpoints = {} /\ nextKeepalive = Never /\ nextDecodeSweep = Never

FailedGaveUp == state = "failed" => exhausted = Paths

ClosedIsEmpty ==
    state = "closed" =>
        /\ endpoints = {} /\ outstanding = {}
        /\ nextKeepalive = Never /\ nextDecodeSweep = Never
        /\ \A p \in Paths : nextRetry[p] = Never

\* The inductive invariant.
SessionInv ==
    /\ TypeOK
    /\ RetriesAwaited /\ AttemptsUsed
    /\ NeverEstablished /\ FailedGaveUp /\ ClosedIsEmpty

----------------------------------------------------------------------------
(* The Endpoint pool                                                       *)

\* The sweep and canLearnEndpointLocked only take Endpoints out.
LEMMA KeptSubset ==
    ASSUME TypeOK, NEW p \in Paths
    PROVE  /\ Kept(p) \subseteq SweptEndpoints /\ SweptEndpoints \subseteq endpoints
           /\ endpoints \subseteq Keys /\ Key(p) \in Keys
           /\ SweptOutstanding \subseteq outstanding /\ SweptHealthy \subseteq healthy
<1>1. Key(p) \in Keys
  BY DEF TypeOK, Key, Keys
<1>2. QED
  BY <1>1 DEF TypeOK, Kept, SweptEndpoints, Stale, SweptOutstanding, SweptHealthy

\* What a packet does to the pool keeps the pool's types: OnlySweep and Learn.
LEMMA PoolTypes ==
    ASSUME TypeOK, NEW p \in Paths, NEW done,
           UNCHANGED role, OnlySweep(p) \/ Learn(p, done)
    PROVE  /\ endpoints' \subseteq Keys /\ epHealthy' \subseteq endpoints'
           /\ ttl' \in [Keys -> 0..EndpointTTL]
           /\ outstanding' \subseteq Paths /\ healthy' \subseteq Paths
<1> USE IntervalsAssumption
<1>1. TTLOf(Kept(p)) \in [Keys -> 0..EndpointTTL]
  BY DEF TypeOK, TTLOf
<1>2. CASE OnlySweep(p)
  BY <1>1, <1>2, KeptSubset DEF OnlySweep, TypeOK
<1>3. CASE Learn(p, done)
  <2>1. ttl' \in [Keys -> 0..EndpointTTL]
    BY <1>1, <1>3, KeptSubset DEF Learn
  <2>2. QED
    BY <2>1, <1>3, KeptSubset DEF Learn, TypeOK
<1>4. QED
  BY <1>2, <1>3

\* The keys of a set of Endpoints have paths of the Session.
LEMMA PathsOfKeys ==
    ASSUME NEW S \in SUBSET Keys
    PROVE  {k[1] : k \in S} \subseteq Paths
BY DEF Keys

----------------------------------------------------------------------------
(* The inductive invariant, action by action                               *)

LEMMA SessionInit == Init => SessionInv
<1> SUFFICES ASSUME Init PROVE SessionInv
  OBVIOUS
<1> USE CountsAssumption, IntervalsAssumption DEF Never
<1>1. CASE NewInitiator
  <2>1. started \in BOOLEAN
    BY <1>1 DEF NewInitiator
  <2>2. ttl \in [Keys -> 0..EndpointTTL]
    BY <1>1 DEF NewInitiator
  <2>3. TypeOK
    BY <1>1, <2>1, <2>2 DEF Init, NewInitiator, TypeOK
  <2>4. QED
    BY <1>1, <2>3 DEF Init, NewInitiator, SessionInv, RetriesAwaited, AttemptsUsed,
                      NeverEstablished, FailedGaveUp, ClosedIsEmpty
<1>2. ASSUME NEW p \in Paths, NewListenerSession(p) PROVE SessionInv
  <2>1. <<p, 1>> \in Keys
    BY DEF Keys
  <2>2. TypeOK
    BY <1>2, <2>1 DEF Init, NewListenerSession, TypeOK
  <2>3. QED
    BY <1>2, <2>2 DEF Init, NewListenerSession, SessionInv, RetriesAwaited, AttemptsUsed,
                      NeverEstablished, FailedGaveUp, ClosedIsEmpty
<1>3. QED
  BY <1>1, <1>2 DEF Init

\* A packet that learns or sweeps: HELLO, DATA, PING and PONG.
LEMMA PacketKeepsInv ==
    ASSUME SessionInv, NEW p \in Paths, Hello(p) \/ Data(p) \/ Ping(p) \/ Pong(p)
    PROVE  SessionInv'
<1>0. state = "established"
  BY DEF Hello, Data, Ping, Pong
<1>1. /\ \E done : OnlySweep(p) \/ Learn(p, done)
      /\ plans' = plans \/ plans' = {<<"HELLO_ACK", p>>} \/ plans' = {<<"PONG", p>>}
      /\ UNCHANGED <<role, state, started, attempts, acked, exhausted, nextRetry,
                     deadlineVars, transportVars, startPlans, writing, hellos>>
  BY DEF Hello, Data, Ping, Pong, sendVars
<1> PICK done : OnlySweep(p) \/ Learn(p, done)
  BY <1>1
<1>2. TypeOK'
  BY <1>1, PoolTypes, SMTT(30) DEF SessionInv, TypeOK, deadlineVars, transportVars
<1>3. QED
  BY <1>0, <1>1, <1>2
     DEF SessionInv, RetriesAwaited, AttemptsUsed, NeverEstablished, FailedGaveUp,
         ClosedIsEmpty, Initiator, deadlineVars

\* The HELLO_ACK that establishes, or that confirms one more carrier.
LEMMA HelloAckKeepsInv ==
    ASSUME SessionInv, NEW p \in Paths, HelloAck(p)
    PROVE  SessionInv'
<1> USE IntervalsAssumption DEF Never
<1>1. UNCHANGED <<role, started, attempts, transportVars, sendVars, hellos>>
  BY DEF HelloAck
<1>2. OnlySweep(p) \/ Learn(p, {})
  BY DEF HelloAck
<1>3. /\ state' = "established"
      /\ nextKeepalive' \in Never..KeepaliveInterval
      /\ nextDecodeSweep' \in Never..DecodeTimeout
  BY DEF HelloAck, Establish, SessionInv, TypeOK, deadlineVars
<1>4. \/ UNCHANGED <<acked, exhausted, nextRetry>>
      \/ /\ acked' = acked \cup {p} /\ exhausted' = exhausted \ {p}
         /\ nextRetry' = [nextRetry EXCEPT ![p] = Never]
  BY DEF HelloAck
<1>5. nextRetry' \in [Paths -> Never..HandshakeRetryInterval]
  BY <1>4 DEF SessionInv, TypeOK
<1>6. TypeOK'
  BY <1>1, <1>2, <1>3, <1>4, <1>5, PoolTypes
     DEF SessionInv, TypeOK, transportVars, sendVars
<1>7. RetriesAwaited'
  BY <1>1, <1>4 DEF SessionInv, TypeOK, RetriesAwaited, Initiator
<1>8. AttemptsUsed'
  BY <1>1, <1>4 DEF SessionInv, AttemptsUsed
<1>9. QED
  BY <1>3, <1>6, <1>7, <1>8 DEF SessionInv, NeverEstablished, FailedGaveUp, ClosedIsEmpty

\* Close and a CLOSE of the other side.
LEMMA CloseKeepsInv ==
    ASSUME SessionInv, MarkClosed
    PROVE  SessionInv'
<1> USE IntervalsAssumption DEF Never
<1>1. nextRetry' = [p \in Paths |-> Never]
  BY DEF MarkClosed, ClosedRetries
<1>2. ttl' \in [Keys -> 0..EndpointTTL]
  BY DEF MarkClosed, TTLOf
<1>3. TypeOK'
  BY <1>1, <1>2 DEF MarkClosed, SessionInv, TypeOK, transportVars, sendVars
<1>4. QED
  BY <1>1, <1>3 DEF MarkClosed, SessionInv, RetriesAwaited, AttemptsUsed,
                    NeverEstablished, FailedGaveUp, ClosedIsEmpty, Initiator

LEMMA StartKeepsInv ==
    ASSUME SessionInv, Start
    PROVE  SessionInv'
<1> USE CountsAssumption, IntervalsAssumption DEF Never
<1>1. attempts' \in [Paths -> 0..MaxHandshakeAttempts]
  BY DEF Start, SessionInv, TypeOK, AttemptsUsed
<1>2. nextRetry' \in [Paths -> Never..HandshakeRetryInterval]
  BY DEF Start
<1>3. startPlans' \subseteq {"HELLO"} \X Paths
  BY DEF Start
<1>4. TypeOK'
  BY <1>1, <1>2, <1>3 DEF Start, SessionInv, TypeOK, endpointVars, deadlineVars, transportVars
<1>5. RetriesAwaited' /\ AttemptsUsed'
  BY DEF Start, SessionInv, RetriesAwaited, AttemptsUsed, NeverEstablished, Initiator
<1>6. QED
  BY <1>4, <1>5 DEF Start, SessionInv, NeverEstablished, FailedGaveUp, ClosedIsEmpty,
                    endpointVars, deadlineVars

----------------------------------------------------------------------------
(* Advance                                                                 *)

\* The carriers an Advance gives up on and those it tries again, and the retry
\* deadlines it leaves.
LEMMA RetryCases ==
    ASSUME SessionInv
    PROVE  /\ GivesUp \subseteq RetryDue /\ RetryDue \subseteq Paths
           /\ \A p \in GivesUp : attempts[p] = MaxHandshakeAttempts
           /\ \A p \in RetryDue \ GivesUp : attempts[p] < MaxHandshakeAttempts
           /\ RetryAfterAdvance \in [Paths -> Never..HandshakeRetryInterval]
           /\ \A p \in Paths : RetryAfterAdvance[p] # 0
           /\ \A p \in Paths : RetryAfterAdvance[p] # Never =>
                  nextRetry[p] # Never /\ p \notin GivesUp
<1> USE CountsAssumption, IntervalsAssumption DEF Never
<1>1. /\ GivesUp \subseteq RetryDue /\ RetryDue \subseteq Paths
      /\ \A p \in RetryDue : nextRetry[p] = 0
      /\ \A p \in Paths : nextRetry[p] = 0 => p \in RetryDue
  BY DEF GivesUp, RetryDue, SessionInv, RetriesAwaited
<1>2. \A p \in Paths : attempts[p] \in 0..MaxHandshakeAttempts
  BY DEF SessionInv, TypeOK
<1>3. /\ \A p \in GivesUp : attempts[p] = MaxHandshakeAttempts
      /\ \A p \in RetryDue \ GivesUp : attempts[p] < MaxHandshakeAttempts
  BY <1>1, <1>2 DEF GivesUp
<1>4. ASSUME NEW p \in Paths
      PROVE  /\ RetryAfterAdvance[p] \in Never..HandshakeRetryInterval
             /\ RetryAfterAdvance[p] # 0
             /\ RetryAfterAdvance[p] # Never => nextRetry[p] # Never /\ p \notin GivesUp
  <2>1. RetryAfterAdvance[p] =
          IF p \in GivesUp THEN Never
          ELSE IF p \in RetryDue THEN HandshakeRetryInterval ELSE nextRetry[p]
    BY <1>1 DEF RetryAfterAdvance
  <2>2. nextRetry[p] \in Never..HandshakeRetryInterval
    BY DEF SessionInv, TypeOK
  <2>3. QED
    BY <2>1, <2>2, <1>1
<1>5. RetryAfterAdvance \in [Paths -> Never..HandshakeRetryInterval]
  BY <1>4 DEF RetryAfterAdvance
<1>6. QED
  BY <1>1, <1>3, <1>4, <1>5

LEMMA AdvanceKeepsInv ==
    ASSUME SessionInv, Advance
    PROVE  SessionInv'
<1> USE CountsAssumption, IntervalsAssumption DEF Never
<1>1. UNCHANGED <<role, started, acked, ttl, transportVars, startPlans, writing, hellos>>
  BY DEF Advance
<1>2. attempts' \in [Paths -> 0..MaxHandshakeAttempts]
  BY RetryCases DEF Advance, SessionInv, TypeOK
<1>3. /\ endpoints' = SweptEndpoints /\ epHealthy' = epHealthy \cap SweptEndpoints
      /\ SweptEndpoints \subseteq endpoints /\ SweptHealthy \subseteq healthy
      /\ SweptOutstanding \subseteq outstanding
  BY DEF Advance, SweptEndpoints, SweptHealthy, SweptOutstanding
<1>4. KeepalivePaths \subseteq Paths
  <2>1. {k[1] : k \in SweptEndpoints} \subseteq Paths
    BY <1>3, PathsOfKeys DEF SessionInv, TypeOK
  <2>2. QED
    BY <2>1 DEF KeepalivePaths, SessionInv, TypeOK
<1>5. PICK probed \in SUBSET Paths :
        /\ plans' = {<<"HELLO", p>> : p \in RetryDue \ GivesUp}
                     \cup {<<"PING", p>> : p \in probed}
        /\ outstanding' = SweptOutstanding \cup probed
        /\ state # "established" => probed = {}
  BY <1>4 DEF Advance
<1>6. /\ exhausted' = exhausted \cup GivesUp /\ healthy' = SweptHealthy \ GivesUp
      /\ nextRetry' = RetryAfterAdvance
      /\ nextDecodeSweep' = IF nextDecodeSweep = 0 THEN DecodeTimeout ELSE nextDecodeSweep
      /\ nextKeepalive' = IF state = "established" /\ nextKeepalive = 0
                          THEN KeepaliveInterval ELSE nextKeepalive
  BY DEF Advance
<1>7. /\ state # "closed" /\ state' \in {state, "failed"}
      /\ state' # state => state = "handshaking" /\ exhausted' = Paths
  BY DEF Advance, AllCarriersExhausted
<1>8. TypeOK'
  <2>1. plans' \subseteq {"HELLO", "HELLO_ACK", "PING", "PONG"} \X Paths
    BY <1>5, RetryCases
  <2>2. outstanding' \subseteq Paths /\ exhausted' \subseteq Paths /\ healthy' \subseteq Paths
    BY <1>3, <1>5, <1>6, RetryCases DEF SessionInv, TypeOK
  <2>3. nextKeepalive' \in Never..KeepaliveInterval /\ nextDecodeSweep' \in Never..DecodeTimeout
    BY <1>6 DEF SessionInv, TypeOK
  <2>4. nextRetry' \in [Paths -> Never..HandshakeRetryInterval]
    BY <1>6, RetryCases
  <2>5. endpoints' \subseteq Keys /\ epHealthy' \subseteq endpoints'
    BY <1>3 DEF SessionInv, TypeOK
  <2>6. state' \in {"handshaking", "established", "failed", "closed"}
    BY <1>7 DEF SessionInv, TypeOK
  <2>7. QED
    BY <1>1, <1>2, <2>1, <2>2, <2>3, <2>4, <2>5, <2>6
       DEF SessionInv, TypeOK, transportVars
<1>9. RetriesAwaited'
  BY <1>1, <1>6, RetryCases DEF SessionInv, RetriesAwaited, Initiator
<1>10. AttemptsUsed'
  <2>1. ASSUME NEW p \in exhausted' PROVE attempts'[p] = MaxHandshakeAttempts
    <3>1. p \in Paths /\ p \notin RetryDue \ GivesUp /\ attempts[p] = MaxHandshakeAttempts
      BY <2>1, <1>6, RetryCases DEF SessionInv, TypeOK, AttemptsUsed, RetryDue
    <3>2. QED
      BY <3>1 DEF Advance
  <2>2. ~started => RetryDue = {}
    BY DEF RetryDue
  <2>3. ~started => exhausted' = {} /\ \A p \in Paths : attempts'[p] = 0
    BY <2>2, <1>6, RetryCases DEF Advance, SessionInv, AttemptsUsed
  <2>4. QED
    BY <2>1, <2>3, <1>1 DEF AttemptsUsed
<1>11. FailedGaveUp'
  BY <1>6, <1>7, RetryCases DEF SessionInv, FailedGaveUp
<1>12. NeverEstablished'
  BY <1>1, <1>3, <1>6, <1>7 DEF SessionInv, NeverEstablished
<1>13. QED
  BY <1>7, <1>8, <1>9, <1>10, <1>11, <1>12 DEF SessionInv, ClosedIsEmpty

----------------------------------------------------------------------------
(* Sends, writes, transport and time                                       *)

\* A send that ends takes a probe or a path's health away and gives nothing.
LEMMA SentShrinks ==
    ASSUME TypeOK, UNCHANGED role,
           NEW plan \in {"HELLO", "HELLO_ACK", "PING", "PONG"} \X Paths, Sent(plan)
    PROVE  /\ outstanding' \subseteq outstanding /\ healthy' \subseteq healthy
           /\ epHealthy' \subseteq epHealthy /\ hellos' \subseteq Paths
<1>1. plan[2] \in Paths
  OBVIOUS
<1>2. QED
  BY <1>1 DEF Sent, Unhealthy, TypeOK

LEMMA SendsKeepInv ==
    ASSUME SessionInv, DispatcherSends \/ StartSends \/ WriteReturns
    PROVE  SessionInv'
<1>1. UNCHANGED <<role, state, started, attempts, acked, exhausted, nextRetry,
                  endpoints, ttl, deadlineVars, transportVars>>
  BY DEF DispatcherSends, StartSends, WriteReturns
<1>2. /\ outstanding' \subseteq outstanding /\ healthy' \subseteq healthy
      /\ epHealthy' \subseteq epHealthy /\ hellos' \subseteq Paths
      /\ plans' \subseteq plans /\ startPlans' \subseteq startPlans
      /\ writing' \subseteq writing
  <2>1. CASE DispatcherSends
    BY <2>1, SentShrinks DEF DispatcherSends, SessionInv, TypeOK
  <2>2. CASE StartSends
    BY <2>2, SentShrinks DEF StartSends, SessionInv, TypeOK
  <2>3. CASE WriteReturns
    BY <2>3 DEF WriteReturns, Unhealthy, SessionInv, TypeOK
  <2>4. QED
    BY <2>1, <2>2, <2>3
<1>3. TypeOK'
  BY <1>1, <1>2 DEF SessionInv, TypeOK, deadlineVars, transportVars
<1>4. QED
  BY <1>1, <1>2, <1>3
     DEF SessionInv, RetriesAwaited, AttemptsUsed, NeverEstablished, FailedGaveUp,
         ClosedIsEmpty, Initiator, deadlineVars

LEMMA WritePacketKeepsInv ==
    ASSUME SessionInv, WritePacket
    PROVE  SessionInv'
<1>1. /\ state = "established"
      /\ UNCHANGED <<role, state, started, attempts, acked, exhausted, nextRetry, ttl,
                     deadlineVars, transportVars, plans, startPlans, hellos>>
  BY DEF WritePacket
<1>2. /\ endpoints' \subseteq endpoints /\ epHealthy' \subseteq endpoints'
      /\ outstanding' \subseteq outstanding /\ healthy' \subseteq healthy
  BY DEF WritePacket, SweptEndpoints, SweptOutstanding, SweptHealthy
<1>3. writing' \subseteq Paths
  <2>1. {k[1] : k \in epHealthy \cap SweptEndpoints} \subseteq Paths
    BY PathsOfKeys DEF SessionInv, TypeOK, SweptEndpoints
  <2>2. QED
    BY <2>1 DEF WritePacket, SendPaths, SessionInv, TypeOK
<1>4. TypeOK'
  BY <1>1, <1>2, <1>3 DEF SessionInv, TypeOK, deadlineVars, transportVars
<1>5. QED
  BY <1>1, <1>4 DEF SessionInv, RetriesAwaited, AttemptsUsed, NeverEstablished,
                    FailedGaveUp, ClosedIsEmpty, Initiator

LEMMA TransportKeepsInv ==
    ASSUME SessionInv, NEW p \in Paths, PathFails(p) \/ PathDown(p) \/ Rebuild(p)
    PROVE  SessionInv'
<1>1. UNCHANGED <<role, state, started, attempts, acked, exhausted, nextRetry, endpointVars,
                  outstanding, deadlineVars, sendVars, hellos>>
  BY DEF PathFails, PathDown, Rebuild, carrierVars
<1>2. healthy' \subseteq healthy /\ up' \subseteq Paths
  BY DEF PathFails, PathDown, Rebuild, carrierVars, transportVars, SessionInv, TypeOK
<1>3. generation' \in [Paths -> 1..MaxGeneration]
  <2>1. CASE Rebuild(p)
    BY <2>1, CountsAssumption DEF Rebuild, SessionInv, TypeOK
  <2>2. CASE PathFails(p) \/ PathDown(p)
    BY <2>2 DEF PathFails, PathDown, transportVars, SessionInv, TypeOK
  <2>3. QED
    BY <2>1, <2>2
<1>4. TypeOK'
  BY <1>1, <1>2, <1>3 DEF SessionInv, TypeOK, endpointVars, deadlineVars, sendVars
<1>5. QED
  BY <1>1, <1>4 DEF SessionInv, RetriesAwaited, AttemptsUsed, NeverEstablished,
                    FailedGaveUp, ClosedIsEmpty, Initiator, endpointVars, deadlineVars

LEMMA TickKeepsInv ==
    ASSUME SessionInv, Tick
    PROVE  SessionInv'
<1> USE IntervalsAssumption DEF Never, Less
<1>1. nextRetry' \in [Paths -> Never..HandshakeRetryInterval]
  BY DEF Tick, SessionInv, TypeOK
<1>2. ttl' \in [Keys -> 0..EndpointTTL]
  BY DEF Tick, SessionInv, TypeOK
<1>3. nextKeepalive' \in Never..KeepaliveInterval /\ nextDecodeSweep' \in Never..DecodeTimeout
  BY DEF Tick, SessionInv, TypeOK
<1>4. TypeOK'
  BY <1>1, <1>2, <1>3 DEF Tick, SessionInv, TypeOK, transportVars, sendVars
<1>5. \A p \in Paths : nextRetry'[p] # Never => nextRetry[p] # Never
  BY DEF Tick, SessionInv, TypeOK
<1>6. RetriesAwaited' /\ AttemptsUsed'
  BY <1>5 DEF Tick, SessionInv, RetriesAwaited, AttemptsUsed, Initiator
<1>7. QED
  BY <1>4, <1>6 DEF Tick, SessionInv, NeverEstablished, FailedGaveUp, ClosedIsEmpty

\* Every step keeps the inductive invariant.
THEOREM SessionInvariant == Spec => []SessionInv
<1>1. SessionInv /\ [Next]_vars => SessionInv'
  <2> SUFFICES ASSUME SessionInv, [Next]_vars PROVE SessionInv'
    OBVIOUS
  <2>1. ASSUME NEW p \in Paths, Packet(p) PROVE SessionInv'
    BY <2>1, PacketKeepsInv, HelloAckKeepsInv, CloseKeepsInv DEF Packet, RemoteClose
  <2>2. ASSUME NEW p \in Paths, PathFails(p) \/ PathDown(p) \/ Rebuild(p) PROVE SessionInv'
    BY <2>2, TransportKeepsInv
  <2>3. CASE Start \/ Advance \/ WritePacket \/ Close
    BY <2>3, StartKeepsInv, AdvanceKeepsInv, WritePacketKeepsInv, CloseKeepsInv DEF Close
  <2>4. CASE DispatcherSends \/ StartSends \/ WriteReturns
    BY <2>4, SendsKeepInv
  <2>5. CASE Tick
    BY <2>5, TickKeepsInv
  <2>6. CASE UNCHANGED vars
    BY <2>6 DEF vars, carrierVars, endpointVars, deadlineVars, transportVars, sendVars,
                SessionInv, TypeOK, RetriesAwaited, AttemptsUsed, NeverEstablished,
                FailedGaveUp, ClosedIsEmpty, Initiator
  <2>7. QED
    BY <2>1, <2>2, <2>3, <2>4, <2>5, <2>6 DEF Next
<1>2. QED
  BY <1>1, SessionInit, PTL DEF Spec

----------------------------------------------------------------------------
(* The properties                                                          *)

\* A closed Session has no Endpoint, no probe and no deadline, whatever sends
\* were in flight when markClosedLocked ran; a failed one has used every attempt
\* of every carrier and has never learned anything.
THEOREM EndedStaysOver == Spec => []EndedIsOver
<1>1. SessionInv => EndedIsOver
  <2> SUFFICES ASSUME SessionInv PROVE EndedIsOver
    OBVIOUS
  <2>1. state = "closed" => Deadlines = {Never}
    BY DEF SessionInv, ClosedIsEmpty, Deadlines
  <2>2. state = "failed" => \A p \in Paths : attempts[p] = MaxHandshakeAttempts
    BY DEF SessionInv, FailedGaveUp, AttemptsUsed
  <2>3. QED
    BY <2>1, <2>2 DEF EndedIsOver, SessionInv, ClosedIsEmpty, NeverEstablished
<1>2. QED
  BY <1>1, SessionInvariant, PTL

\* Advance handles every deadline that is due, or removes it with its owner: the
\* driver never wakes for a deadline that Advance leaves behind.
THEOREM AdvanceLeavesNothingDue == Spec => AdvanceClearsDue
<1>1. SessionInv /\ [Next]_vars => [Advance => 0 \notin Deadlines']_vars
  <2> SUFFICES ASSUME SessionInv, Advance PROVE 0 \notin Deadlines'
    OBVIOUS
  <2> USE IntervalsAssumption DEF Never
  <2>1. \A p \in Paths : nextRetry'[p] # 0
    BY RetryCases DEF Advance
  <2>2. nextKeepalive' # 0 /\ nextDecodeSweep' # 0
    BY DEF Advance, SessionInv, TypeOK, NeverEstablished
  <2>3. \A k \in endpoints' : ttl'[k] # 0
    BY DEF Advance, SweptEndpoints, Expired
  <2>4. QED
    BY <2>1, <2>2, <2>3 DEF Deadlines
<1>2. QED
  BY <1>1, SessionInvariant, PTL DEF Spec, AdvanceClearsDue

----------------------------------------------------------------------------
(* Room for every carrier                                                  *)

\* A carrier has one Endpoint at most, whatever its socket generations.
OneEndpointEach == Initiator => \A k, m \in endpoints : k[1] = m[1] => k = m

\* canLearnEndpointLocked has removed the Endpoints of the carrier's earlier
\* sockets, so the new one stands alone on its path.
LEMMA LearnKeepsOne ==
    ASSUME TypeOK, OneEndpointEach, NEW p \in Paths, Initiator,
           NEW k \in Kept(p) \cup {Key(p)}, NEW m \in Kept(p) \cup {Key(p)}, k[1] = m[1]
    PROVE  k = m
<1>1. Kept(p) \subseteq SweptEndpoints /\ SweptEndpoints \subseteq endpoints
  BY KeptSubset
<1>2. CASE Key(p) \in SweptEndpoints
  BY <1>1, <1>2 DEF OneEndpointEach
<1>3. CASE Key(p) \notin SweptEndpoints
  <2>1. Kept(p) = SweptEndpoints \ Stale(p) /\ Key(p)[1] = p
    BY <1>3 DEF Kept, Key
  <2>2. \A e \in Kept(p) : e[1] # p
    BY <1>3, <2>1 DEF Stale
  <2>3. QED
    BY <1>1, <2>1, <2>2 DEF OneEndpointEach
<1>4. QED
  BY <1>2, <1>3

\* A carrier that is not in the pool leaves a place for itself: the others take
\* one each at most.
LEMMA RoomForCarrier ==
    ASSUME TypeOK, OneEndpointEach, Initiator, NEW p \in Paths,
           Cardinality(Paths) <= MaxEndpoints
    PROVE  CanLearn(p)
<1> SUFFICES ASSUME Key(p) \notin Kept(p) PROVE Cardinality(Kept(p)) < MaxEndpoints
  BY DEF CanLearn
<1>1. Kept(p) \subseteq endpoints /\ endpoints \subseteq Keys
  BY KeptSubset
<1>2. Key(p) \notin SweptEndpoints
  BY DEF Kept
<1>3. \A e \in Kept(p) : e[1] # p
  BY <1>2 DEF Kept, Stale
<1>4. \A e \in Kept(p) : e[1] \in Paths \ {p}
  BY <1>1, <1>3 DEF Keys
<1> DEFINE f == [e \in Kept(p) |-> e[1]]
<1>5. f \in Injection(Kept(p), Paths \ {p})
  <2>1. \A k, m \in Kept(p) : f[k] = f[m] => k = m
    BY <1>1 DEF OneEndpointEach
  <2>2. f \in [Kept(p) -> Paths \ {p}]
    BY <1>4
  <2>3. QED
    BY <2>1, <2>2 DEF Injection, IsInjective
<1>6. IsFiniteSet(Paths \ {p}) /\ Cardinality(Paths \ {p}) = Cardinality(Paths) - 1
  BY PathsAssumption, FS_RemoveElement
<1>7. Cardinality(Paths) \in Nat /\ MaxEndpoints \in Nat
  BY PathsAssumption, FS_CardinalityType, CountsAssumption
<1>8. IsFiniteSet(Kept(p)) /\ Cardinality(Kept(p)) <= Cardinality(Paths \ {p})
  BY <1>5, <1>6, FS_Injection
<1>9. Cardinality(Kept(p)) \in Nat
  BY <1>8, FS_CardinalityType
<1>10. QED
  BY <1>6, <1>7, <1>8, <1>9

\* With room for one Endpoint per carrier (the default limit is the largest
\* number of carriers; a smaller one is accepted by the configuration), no
\* packet of a carrier is refused for want of room, however often sockets are
\* rebuilt.
THEOREM CarriersFindRoom ==
    ASSUME Cardinality(Paths) <= MaxEndpoints
    PROVE  Spec => []CarrierNeverRefused
<1>1. Init => OneEndpointEach
  BY DEF Init, NewInitiator, NewListenerSession, OneEndpointEach, Initiator
<1>2. SessionInv /\ OneEndpointEach /\ [Next]_vars => OneEndpointEach'
  <2> SUFFICES ASSUME SessionInv, OneEndpointEach, [Next]_vars, Initiator'
               PROVE  \A k, m \in endpoints' : k[1] = m[1] => k = m
    BY DEF OneEndpointEach
  <2>1. ASSUME NEW p \in Paths, NEW done, Initiator, OnlySweep(p) \/ Learn(p, done)
        PROVE  \A k, m \in endpoints' : k[1] = m[1] => k = m
    <3>1. endpoints' \subseteq Kept(p) \cup {Key(p)}
      BY <2>1 DEF OnlySweep, Learn
    <3>2. QED
      BY <2>1, <3>1, LearnKeepsOne DEF SessionInv
  <2>2. ASSUME endpoints' \subseteq endpoints, Initiator
        PROVE  \A k, m \in endpoints' : k[1] = m[1] => k = m
    BY <2>2 DEF OneEndpointEach
  <2>3. Initiator
    BY DEF Next, Packet, Hello, HelloAck, Data, Ping, Pong, RemoteClose, Close, MarkClosed,
           PathFails, PathDown, Rebuild, Start, Advance, WritePacket, DispatcherSends,
           StartSends, WriteReturns, Tick, Initiator, vars
  <2>4. ASSUME NEW p \in Paths, Packet(p)
        PROVE  endpoints' = {} \/ \E done : OnlySweep(p) \/ Learn(p, done)
    BY <2>4 DEF Packet, Hello, HelloAck, Data, Ping, Pong, RemoteClose, MarkClosed
  <2>5. CASE Start \/ Advance \/ WritePacket \/ Close \/ DispatcherSends \/ StartSends
             \/ WriteReturns \/ Tick \/ UNCHANGED vars
             \/ \E p \in Paths : PathFails(p) \/ PathDown(p) \/ Rebuild(p)
    <3>1. endpoints' \subseteq endpoints
      BY <2>5 DEF Start, Advance, WritePacket, Close, MarkClosed, DispatcherSends, StartSends,
                  WriteReturns, Tick, PathFails, PathDown, Rebuild, SweptEndpoints,
                  endpointVars, vars
    <3>2. QED
      BY <2>2, <2>3, <3>1
  <2>6. QED
    BY <2>1, <2>2, <2>3, <2>4, <2>5 DEF Next
<1>3. SessionInv /\ OneEndpointEach => CarrierNeverRefused
  BY RoomForCarrier DEF CarrierNeverRefused, OneEndpointEach, SessionInv, TypeOK
<1>4. QED
  BY <1>1, <1>2, <1>3, SessionInvariant, PTL DEF Spec

----------------------------------------------------------------------------
(* The sockets of a carrier or a listener                                  *)

LoopStates ==
    {"none", "reading", "packet", "callback", "oversized", "reporting", "failed", "ending", "done"}

ConnType ==
    [open : BOOLEAN, number : Nat, alive : BOOLEAN, loop : LoopStates, active : Nat,
     writer : Senders \cup {Nobody}, deadline : BOOLEAN, reported : BOOLEAN]

CallType ==
    [pc : {"idle", "begin", "dialing", "publish", "lifecycle", "retire", "drain", "await",
           "returned"},
     conn : Nat]

SendType ==
    [pc : {"idle", "admitted", "tooLong", "writing", "written"}, conn : Nat,
     callback : {"none", "armed", "running", "done"}]

\* The full types; SocketTypeOK of the specification follows with the counts.
Types ==
    /\ scenario \in Scenarios
    /\ conns \in Seq(ConnType)
    /\ current \in {NoConn} \cup Conns /\ nextGen \in Nat
    /\ closed \in BOOLEAN /\ closeDone \in BOOLEAN
    /\ lifecycle \in scenario.rebuilders \cup {Nobody}
    /\ calls \in [Callers -> CallType]
    /\ sends \in [scenario.senders -> SendType]

----------------------------------------------------------------------------
(* The inductive invariant                                                 *)

HoldsLock(t) == calls[t].pc \in {"dialing", "publish", "retire", "drain"}
Closing(t) == calls[t].pc \in {"lifecycle", "retire", "drain"}

\* A Rebuild holds the lifecycle lock from its dial to its return.
LockInv ==
    /\ \A t \in scenario.rebuilders : lifecycle = t <=> HoldsLock(t)
    /\ \A t \in scenario.rebuilders : calls[t].pc \notin {"lifecycle", "await"}
    /\ \A t \in scenario.closers : calls[t].pc \notin {"begin", "dialing", "publish"}

\* One Close at most does the closing.  Once it has passed the lifecycle lock no
\* Rebuild is inside or will be.
CloseInv ==
    /\ ~closed => \A t \in scenario.closers : calls[t].pc = "idle"
    /\ \A t, u \in scenario.closers : Closing(t) /\ Closing(u) => t = u
    /\ \A t \in scenario.closers : calls[t].pc \in {"retire", "drain"} => lifecycle = Nobody
    /\ \A t \in scenario.closers : calls[t].pc = "returned" => closeDone
    /\ closeDone => closed /\ lifecycle = Nobody

\* A closed Carrier publishes no socket; a Listener has its one for life.
CurrentInv ==
    /\ Carrier /\ closed => current = NoConn
    /\ ~Carrier => /\ current = 1 /\ Len(conns) = 1
                   /\ \A t \in scenario.closers : Closing(t) => calls[t].conn = 1

\* Every published socket has a generation number, one being dialled has none yet.
GenerationInv ==
    /\ 1 <= nextGen /\ nextGen <= Len(conns)
    /\ \A t \in scenario.rebuilders : calls[t].pc = "publish" => nextGen < Len(conns)

CallsInv == LockInv /\ CloseInv /\ CurrentInv /\ GenerationInv

Owned(c) == \E t \in Callers : calls[t].conn = c /\ calls[t].pc # "returned"

\* Who answers for a socket: the one being dialled is untouched, one a call waits
\* for has been closed, and every other socket but the published one is silent.
SocketsInv ==
    /\ \A t \in Callers : calls[t].conn \in {NoConn} \cup Conns
    /\ \A t \in Callers : calls[t].pc \in {"idle", "begin", "dialing", "await"} =>
                              calls[t].conn = NoConn
    /\ \A t \in scenario.rebuilders : calls[t].pc = "publish" =>
          LET c == calls[t].conn
          IN  /\ c \in Conns \ {current}
              /\ conns[c].loop = "none" /\ conns[c].active = 0
    /\ \A t \in Callers : calls[t].pc = "drain" /\ calls[t].conn # NoConn =>
                              ~conns[calls[t].conn].open
    /\ \A c \in Conns \ {current} : Silent(c) \/ Owned(c)
    /\ closeDone => \A c \in Conns : Silent(c)

SendsOn(c) == {s \in scenario.senders : sends[s].conn = c}

\* A socket's active count is exact, and its write lock has the sender that is
\* between BeginWrite and SendReturns, whose callback alone moves the deadline.
SendsInv ==
    /\ \A s \in scenario.senders :
          /\ sends[s].conn \in {NoConn} \cup Conns
          /\ sends[s].pc = "idle" <=> sends[s].conn = NoConn
          /\ sends[s].pc \in {"writing", "written"} => conns[sends[s].conn].writer = s
          /\ sends[s].callback \in {"armed", "running"} => sends[s].pc \in {"writing", "written"}
    /\ \A c \in Conns : conns[c].writer = Nobody => ~conns[c].deadline
    /\ \A c \in Conns : conns[c].active =
          Cardinality(SendsOn(c)) + (IF conns[c].loop = "callback" THEN 1 ELSE 0)

SocketInv == Types /\ CallsInv /\ SocketsInv /\ SendsInv

----------------------------------------------------------------------------
(* Updates of one entry                                                    *)

\* One socket's record replaced.
LEMMA ConnUpdate ==
    ASSUME conns \in Seq(ConnType), NEW c \in Conns, NEW r \in ConnType,
           conns' = [conns EXCEPT ![c] = r]
    PROVE  /\ conns' \in Seq(ConnType) /\ Len(conns') = Len(conns) /\ Conns' = Conns
           /\ conns'[c] = r /\ \A d \in Conns \ {c} : conns'[d] = conns[d]
<1>1. Conns = 1..Len(conns) /\ Len(conns) \in Nat
  BY DEF Conns
<1>2. \A d \in Conns : conns'[d] = IF d = c THEN r ELSE conns[d]
  BY DEF Conns
<1>3. conns' \in Seq(ConnType) /\ Len(conns') = Len(conns)
  BY <1>1
<1>4. QED
  BY <1>1, <1>2, <1>3 DEF Conns

\* One call moves to another place, keeping its socket or taking another.
LEMMA CallUpdate ==
    ASSUME Types, NEW t \in Callers, UNCHANGED scenario,
           NEW p \in {"idle", "begin", "dialing", "publish", "lifecycle", "retire", "drain",
                      "await", "returned"},
           NEW n \in Nat,
           \/ Goto(t, p) /\ n = calls[t].conn
           \/ calls' = [calls EXCEPT ![t] = [pc |-> p, conn |-> n]]
    PROVE  /\ calls' \in [Callers' -> CallType] /\ Callers' = Callers
           /\ calls'[t].pc = p /\ calls'[t].conn = n
           /\ \A u \in Callers \ {t} : calls'[u] = calls[u]
BY DEF Types, Goto, CallType, Callers

\* The goroutines of the scenario.
LEMMA ScenarioFacts ==
    ASSUME Types
    PROVE  /\ scenario.rebuilders \subseteq Rebuilders /\ scenario.closers \subseteq Closers
           /\ scenario.senders \subseteq Senders /\ IsFiniteSet(scenario.senders)
           /\ scenario.rebuilders \cap scenario.closers = {}
           /\ Nobody \notin scenario.rebuilders /\ Nobody \notin scenario.senders
           /\ scenario.rebuilders \subseteq Callers /\ scenario.closers \subseteq Callers
           /\ ~Carrier => scenario.rebuilders = {}
<1>1. /\ scenario.rebuilders \subseteq Rebuilders /\ scenario.closers \subseteq Closers
      /\ scenario.senders \subseteq Senders
      /\ ~Carrier => scenario.rebuilders = {}
  BY ScenariosAssumption DEF Types, Carrier
<1>2. IsFiniteSet(scenario.senders)
  BY <1>1, ScenariosAssumption, FS_Subset
<1>3. QED
  BY <1>1, <1>2, ScenariosAssumption, NobodyAssumption DEF Callers

\* The senders on a socket are finitely many.
LEMMA SendsOnFinite ==
    ASSUME Types, NEW c
    PROVE  IsFiniteSet(SendsOn(c)) /\ Cardinality(SendsOn(c)) \in Nat
<1>1. IsFiniteSet(SendsOn(c))
  BY ScenarioFacts, FS_Subset DEF SendsOn
<1>2. QED
  BY <1>1, FS_CardinalityType

\* A sender with a socket counts: its active count is not zero.
LEMMA SenderCounts ==
    ASSUME Types, SendsInv, NEW s \in scenario.senders, sends[s].conn # NoConn
    PROVE  sends[s].conn \in Conns /\ conns[sends[s].conn].active # 0
<1>1. sends[s].conn \in Conns
  BY DEF SendsInv
<1>2. SendsOn(sends[s].conn) # {}
  BY DEF SendsOn
<1>3. Cardinality(SendsOn(sends[s].conn)) # 0
  BY <1>2, SendsOnFinite, FS_EmptySet
<1>4. QED
  BY <1>1, <1>3, SendsOnFinite DEF SendsInv

----------------------------------------------------------------------------
(* Init                                                                    *)

LEMMA SocketStarts == SocketInit => SocketInv
<1> SUFFICES ASSUME SocketInit PROVE SocketInv
  OBVIOUS
<1>1. NewListener \in ConnType /\ NewListener.active = 0 /\ NewListener.loop = "reading"
      /\ NewListener.writer = Nobody /\ NewListener.deadline = FALSE
  BY DEF NewListener, NewConn, ConnType, LoopStates
<1>2. conns \in Seq(ConnType) /\ Len(conns) = 1 /\ Conns = {1} /\ conns[1] = NewListener
  BY <1>1 DEF SocketInit, Conns
<1>3. Types
  <2>1. closed \in BOOLEAN /\ closeDone \in BOOLEAN
    BY DEF SocketInit
  <2>2. calls \in [Callers -> CallType]
    BY DEF SocketInit, CallType, NoConn
  <2>3. sends \in [scenario.senders -> SendType]
    BY DEF SocketInit, SendType, NoConn
  <2>4. QED
    BY <1>2, <2>1, <2>2, <2>3 DEF SocketInit, Types
<1>4. \A t \in Callers : calls[t].pc = "idle" /\ calls[t].conn = NoConn
  BY DEF SocketInit
<1>5. \A s \in scenario.senders :
        sends[s].pc = "idle" /\ sends[s].conn = NoConn /\ sends[s].callback = "none"
  BY DEF SocketInit
<1>6. ~closed /\ ~closeDone /\ current = 1 /\ nextGen = 1 /\ lifecycle = Nobody
  BY DEF SocketInit
<1>7. CallsInv
  BY <1>2, <1>4, <1>6, <1>3, ScenarioFacts
     DEF CallsInv, LockInv, CloseInv, CurrentInv, GenerationInv, HoldsLock, Closing
<1>8. SocketsInv
  BY <1>2, <1>4, <1>6, <1>3, ScenarioFacts DEF SocketsInv
<1>9. SendsInv
  <2>1. SendsOn(1) = {}
    BY <1>5 DEF SendsOn, NoConn
  <2>2. Cardinality(SendsOn(1)) = 0
    BY <2>1, FS_EmptySet
  <2>3. QED
    BY <1>1, <1>2, <1>5, <2>2 DEF SendsInv
<1>10. QED
  BY <1>3, <1>7, <1>8, <1>9 DEF SocketInv

----------------------------------------------------------------------------
(* Steps of a read loop and of a send                                      *)

\* A step that touches one socket, and that one is published or busy, is no
\* concern of any call.
LEMMA OneSocketStep ==
    ASSUME SocketInv, NEW c \in Conns, NEW r \in ConnType,
           conns' = [conns EXCEPT ![c] = r], r.open = conns[c].open,
           UNCHANGED <<scenario, current, nextGen, closed, lifecycle, closeDone, calls>>,
           \/ c = current /\ ~closed
           \/ conns[c].loop \notin {"none", "done"}
           \/ conns[c].active # 0
    PROVE  /\ CallsInv' /\ SocketsInv'
           /\ sends' \in [scenario.senders -> SendType] => Types'
<1>1. /\ conns' \in Seq(ConnType) /\ Len(conns') = Len(conns) /\ Conns' = Conns
      /\ conns'[c] = r /\ \A d \in Conns \ {c} : conns'[d] = conns[d]
  BY ConnUpdate DEF SocketInv, Types
<1>2. Callers' = Callers /\ Carrier' = Carrier
  BY DEF Callers, Carrier
<1>3. sends' \in [scenario.senders -> SendType] => Types'
  BY <1>1, <1>2 DEF SocketInv, Types
<1>4. CallsInv'
  BY <1>1, <1>2 DEF SocketInv, CallsInv, LockInv, CloseInv, CurrentInv, GenerationInv,
                    HoldsLock, Closing
<1>5. ~Silent(c) \/ (c = current /\ ~closeDone)
  BY DEF Silent, SocketInv, CallsInv, CloseInv
<1>6. ASSUME NEW t \in scenario.rebuilders, calls[t].pc = "publish" PROVE calls[t].conn # c
  BY <1>6 DEF SocketInv, SocketsInv
<1>7. SocketsInv'
  <2>1. \A d \in Conns \ {c} : Silent(d) => Silent(d)'
    BY <1>1 DEF Silent
  <2>2. \A d \in Conns \ {current} : (Silent(d) \/ Owned(d))'
    BY <1>1, <1>2, <1>5, <2>1 DEF SocketInv, SocketsInv, Owned
  <2>3. closeDone => \A d \in Conns : Silent(d)'
    BY <1>5, <2>1 DEF SocketInv, SocketsInv
  <2>4. \A t \in Callers : calls[t].pc = "drain" /\ calls[t].conn # NoConn =>
            ~conns'[calls[t].conn].open
    BY <1>1 DEF SocketInv, SocketsInv
  <2>5. \A t \in scenario.rebuilders : calls[t].pc = "publish" =>
            /\ calls[t].conn \in Conns \ {current}
            /\ conns'[calls[t].conn].loop = "none" /\ conns'[calls[t].conn].active = 0
    BY <1>1, <1>6 DEF SocketInv, SocketsInv
  <2>6. QED
    BY <1>1, <1>2, <2>2, <2>3, <2>4, <2>5 DEF SocketInv, SocketsInv
<1>8. QED
  BY <1>3, <1>4, <1>7

\* A read loop moves; its callback is counted while it runs.
LEMMA LoopKeepsInv ==
    ASSUME SocketInv, NEW c \in Conns, ReadLoop(c)
    PROVE  SocketInv'
<1>0. conns[c] \in ConnType
  BY DEF SocketInv, Types, Conns
<1>1. conns[c].loop \notin {"none", "done"}
  BY DEF ReadLoop, Read, Deliver, CallbackReturns, ReportOversized, OversizedReported,
         ReportFailure, FailureReturns
<1>2. UNCHANGED <<scenario, current, nextGen, closed, lifecycle, closeDone, calls, sends>>
  BY DEF ReadLoop
<1>3. conns[c].loop = "callback" => conns[c].active - 1 \in Nat
  BY <1>0, SendsOnFinite DEF SocketInv, SendsInv
<1> DEFINE r == conns'[c]
<1>4. /\ conns' = [conns EXCEPT ![c] = r] /\ r \in ConnType /\ r.open = conns[c].open
      /\ r.writer = conns[c].writer /\ r.deadline = conns[c].deadline
      /\ r.active - (IF r.loop = "callback" THEN 1 ELSE 0)
           = conns[c].active - (IF conns[c].loop = "callback" THEN 1 ELSE 0)
  <2>1. CASE Read(c)
    BY <2>1, <1>0 DEF Read, LoopTo, ConnType, LoopStates, Conns
  <2>2. CASE Deliver(c)
    <3>1. CASE IsCurrent(c)
      <4>1. /\ conns' = [conns EXCEPT ![c] = r]
            /\ r = [conns[c] EXCEPT !.loop = "callback", !.active = conns[c].active + 1]
        BY <2>2, <3>1 DEF Deliver, Conns
      <4>2. conns[c].loop = "packet"
        BY <2>2 DEF Deliver
      <4>3. conns[c].active \in Nat /\ conns[c].active + 1 \in Nat
        BY <1>0 DEF ConnType
      <4>4. r \in ConnType /\ r.active = conns[c].active + 1 /\ r.loop = "callback"
        BY <4>1, <4>3, <1>0 DEF ConnType, LoopStates
      <4>5. r.open = conns[c].open /\ r.writer = conns[c].writer /\ r.deadline = conns[c].deadline
        BY <4>1, <1>0 DEF ConnType
      <4>6. QED
        BY <4>1, <4>2, <4>3, <4>4, <4>5
    <3>2. CASE ~IsCurrent(c)
      BY <2>2, <3>2, <1>0 DEF Deliver, LoopTo, ConnType, LoopStates, Conns
    <3>3. QED
      BY <3>1, <3>2
  <2>3. CASE CallbackReturns(c)
    <3>1. /\ conns' = [conns EXCEPT ![c] = r] /\ conns[c].loop = "callback"
          /\ r = [conns[c] EXCEPT !.loop = "reading", !.active = conns[c].active - 1]
      BY <2>3 DEF CallbackReturns, Conns
    <3>2. conns[c].active \in Nat
      BY <1>0 DEF ConnType
    <3>3. r \in ConnType /\ r.active = conns[c].active - 1 /\ r.loop = "reading"
      BY <3>1, <3>2, <1>0, <1>3 DEF ConnType, LoopStates
    <3>4. r.open = conns[c].open /\ r.writer = conns[c].writer /\ r.deadline = conns[c].deadline
      BY <3>1, <1>0 DEF ConnType
    <3>5. QED
      BY <3>1, <3>2, <3>3, <3>4
  <2>4. CASE ReportOversized(c) \/ OversizedReported(c) \/ ReportFailure(c)
    BY <2>4, <1>0 DEF ReportOversized, OversizedReported, ReportFailure, LoopTo, ConnType,
                      LoopStates, Conns
  <2>5. CASE FailureReturns(c)
    BY <2>5, <1>0 DEF FailureReturns, ConnType, LoopStates, Conns
  <2>6. QED
    BY <2>1, <2>2, <2>3, <2>4, <2>5 DEF ReadLoop
<1> HIDE DEF r
<1>5. /\ Conns' = Conns /\ conns'[c] = r
      /\ \A d \in Conns \ {c} : conns'[d] = conns[d]
  BY <1>4, ConnUpdate DEF SocketInv, Types
<1>6. CallsInv' /\ SocketsInv' /\ Types'
  BY <1>1, <1>2, <1>4, OneSocketStep DEF SocketInv, Types
<1>7. SendsInv'
  <2>1. \A d \in Conns : SendsOn(d)' = SendsOn(d)
    BY <1>2 DEF SendsOn
  <2>2. \A d \in Conns : conns'[d].active =
          Cardinality(SendsOn(d)) + (IF conns'[d].loop = "callback" THEN 1 ELSE 0)
    <3>1. conns[c].active \in Nat /\ r.active \in Nat
      BY <1>0, <1>4 DEF ConnType
    <3>2. conns[c].active =
            Cardinality(SendsOn(c)) + (IF conns[c].loop = "callback" THEN 1 ELSE 0)
      BY DEF SocketInv, SendsInv
    <3>3. Cardinality(SendsOn(c)) \in Nat
      BY SendsOnFinite DEF SocketInv
    <3>4. r.active = Cardinality(SendsOn(c)) + (IF r.loop = "callback" THEN 1 ELSE 0)
      BY <1>4, <3>1, <3>2, <3>3
    <3>5. ASSUME NEW d \in Conns \ {c}
          PROVE  conns'[d].active =
                   Cardinality(SendsOn(d)) + (IF conns'[d].loop = "callback" THEN 1 ELSE 0)
      BY <1>5 DEF SocketInv, SendsInv
    <3>6. QED
      BY <1>5, <3>4, <3>5
  <2>3. \A d \in Conns : conns'[d].writer = conns[d].writer /\ conns'[d].deadline = conns[d].deadline
    BY <1>4, <1>5
  <2>4. QED
    BY <1>2, <1>5, <2>1, <2>2, <2>3 DEF SocketInv, SendsInv
<1>8. QED
  BY <1>6, <1>7 DEF SocketInv

\* A send that is admitted, goes on or ends keeps the counts exact.
LEMMA SendKeepsCounts ==
    ASSUME SocketInv, NEW s \in scenario.senders, NEW c \in Conns,
           NEW r \in ConnType, NEW m \in SendType,
           conns' = [conns EXCEPT ![c] = r], r.loop = conns[c].loop,
           sends' = [sends EXCEPT ![s] = m], UNCHANGED scenario,
           \/ /\ sends[s].conn = NoConn /\ m.conn = c
              /\ r.active = conns[c].active + 1
           \/ /\ sends[s].conn = c /\ m.conn = NoConn
              /\ r.active = conns[c].active - 1
           \/ /\ sends[s].conn = c /\ m.conn = c
              /\ r.active = conns[c].active
    PROVE  \A d \in Conns : conns'[d].active =
              Cardinality(SendsOn(d)') + (IF conns'[d].loop = "callback" THEN 1 ELSE 0)
<1>1. conns'[c] = r /\ \A d \in Conns \ {c} : conns'[d] = conns[d]
  BY ConnUpdate DEF SocketInv, Types
<1>2. /\ sends'[s] = m
      /\ \A u \in scenario.senders \ {s} : sends'[u] = sends[u]
  BY DEF SocketInv, Types
<1>3. \A d \in Conns : d # NoConn
  BY DEF SocketInv, Types, Conns, NoConn
<1>4. \A d \in Conns \ {c} : SendsOn(d)' = SendsOn(d)
  BY <1>2, <1>3 DEF SendsOn
<1>5. \A d \in Conns : conns[d].active =
        Cardinality(SendsOn(d)) + (IF conns[d].loop = "callback" THEN 1 ELSE 0)
  BY DEF SocketInv, SendsInv
<1>6. ASSUME NEW d \in Conns \ {c}
      PROVE  conns'[d].active =
               Cardinality(SendsOn(d)') + (IF conns'[d].loop = "callback" THEN 1 ELSE 0)
  BY <1>1, <1>4, <1>5
<1>7. IsFiniteSet(SendsOn(c)) /\ Cardinality(SendsOn(c)) \in Nat
  BY SendsOnFinite DEF SocketInv
<1>8. r.active = Cardinality(SendsOn(c)') + (IF r.loop = "callback" THEN 1 ELSE 0)
  <2>1. CASE sends[s].conn = NoConn /\ m.conn = c /\ r.active = conns[c].active + 1
    <3>1. SendsOn(c)' = SendsOn(c) \cup {s} /\ s \notin SendsOn(c)
      BY <2>1, <1>2, <1>3 DEF SendsOn
    <3>2. Cardinality(SendsOn(c)') = Cardinality(SendsOn(c)) + 1
      BY <3>1, <1>7, FS_AddElement
    <3>3. QED
      BY <2>1, <3>2, <1>5, <1>7
  <2>2. CASE sends[s].conn = c /\ m.conn = NoConn /\ r.active = conns[c].active - 1
    <3>1. SendsOn(c)' = SendsOn(c) \ {s} /\ s \in SendsOn(c)
      BY <2>2, <1>2, <1>3 DEF SendsOn
    <3>2. Cardinality(SendsOn(c)') = Cardinality(SendsOn(c)) - 1
      BY <3>1, <1>7, FS_RemoveElement
    <3>3. QED
      BY <2>2, <3>2, <1>5, <1>7
  <2>3. CASE sends[s].conn = c /\ m.conn = c /\ r.active = conns[c].active
    <3>1. SendsOn(c)' = SendsOn(c)
      BY <2>3, <1>2 DEF SendsOn
    <3>2. QED
      BY <2>3, <3>1, <1>5
  <2>4. QED
    BY <2>1, <2>2, <2>3
<1>9. QED
  BY <1>1, <1>6, <1>8

\* The step of one send on one socket, put together: m and r are the send and the
\* socket after it.
LEMMA SendStepKeepsInv ==
    ASSUME SocketInv, NEW s \in scenario.senders, NEW c \in Conns,
           NEW r \in ConnType, NEW m \in SendType,
           conns' = [conns EXCEPT ![c] = r], r.loop = conns[c].loop, r.open = conns[c].open,
           sends' = [sends EXCEPT ![s] = m], UNCHANGED rest,
           \/ /\ sends[s].conn = NoConn /\ m.conn = c
              /\ r.active = conns[c].active + 1 /\ c = current /\ ~closed
           \/ /\ sends[s].conn = c /\ m.conn = NoConn
              /\ r.active = conns[c].active - 1
           \/ /\ sends[s].conn = c /\ m.conn = c
              /\ r.active = conns[c].active,
           m.pc = "idle" <=> m.conn = NoConn,
           m.pc \in {"writing", "written"} => r.writer = s,
           m.callback \in {"armed", "running"} => m.pc \in {"writing", "written"},
           r.writer = conns[c].writer \/ conns[c].writer \in {Nobody, s},
           r.writer = Nobody => ~r.deadline
    PROVE  SocketInv'
<1>1. Conns' = Conns /\ conns'[c] = r /\ \A d \in Conns \ {c} : conns'[d] = conns[d]
  BY ConnUpdate DEF SocketInv, Types
<1>2. /\ sends' \in [scenario.senders -> SendType] /\ sends'[s] = m
      /\ \A u \in scenario.senders \ {s} : sends'[u] = sends[u]
  BY DEF SocketInv, Types
<1>3. UNCHANGED <<scenario, current, nextGen, closed, lifecycle, closeDone, calls>>
  BY DEF rest
<1>4. c # NoConn
  BY DEF SocketInv, Types, Conns, NoConn
<1>5. CallsInv' /\ SocketsInv' /\ Types'
  <2>1. sends[s].conn = c => conns[c].active # 0
    BY <1>4, SenderCounts DEF SocketInv
  <2>2. QED
    BY <1>2, <1>3, <2>1, OneSocketStep DEF SocketInv
<1>6. SendsInv'
  <2>1. \A d \in Conns : conns'[d].active =
          Cardinality(SendsOn(d)') + (IF conns'[d].loop = "callback" THEN 1 ELSE 0)
    BY <1>3, SendKeepsCounts
  <2>2. \A d \in Conns : conns'[d].writer = Nobody => ~conns'[d].deadline
    BY <1>1 DEF SocketInv, SendsInv
  <2>3. ASSUME NEW u \in scenario.senders
        PROVE  /\ sends'[u].conn \in {NoConn} \cup Conns
               /\ sends'[u].pc = "idle" <=> sends'[u].conn = NoConn
               /\ sends'[u].pc \in {"writing", "written"} => conns'[sends'[u].conn].writer = u
               /\ sends'[u].callback \in {"armed", "running"} =>
                      sends'[u].pc \in {"writing", "written"}
    <3>1. CASE u = s
      BY <3>1, <1>1, <1>2
    <3>2. CASE u # s
      <4>1. sends'[u] = sends[u]
        BY <3>2, <1>2
      <4>2. /\ sends[u].conn \in {NoConn} \cup Conns
            /\ sends[u].pc = "idle" <=> sends[u].conn = NoConn
            /\ sends[u].pc \in {"writing", "written"} => conns[sends[u].conn].writer = u
            /\ sends[u].callback \in {"armed", "running"} => sends[u].pc \in {"writing", "written"}
        BY DEF SocketInv, SendsInv
      <4>3. u # Nobody
        BY ScenarioFacts DEF SocketInv
      <4>4. sends[u].pc \in {"writing", "written"} => conns'[sends[u].conn].writer = u
        BY <1>1, <3>2, <4>2, <4>3
      <4>5. QED
        BY <4>1, <4>2, <4>4
    <3>3. QED
      BY <3>1, <3>2
  <2>4. QED
    BY <1>1, <1>3, <2>1, <2>2, <2>3 DEF SendsInv
<1>7. QED
  BY <1>5, <1>6 DEF SocketInv

\* A send's own socket and state have their types.
LEMMA SendTypes ==
    ASSUME SocketInv, NEW s \in scenario.senders
    PROVE  /\ sends[s] \in SendType
           /\ sends[s].conn # NoConn =>
                /\ sends[s].conn \in Conns
                /\ conns[sends[s].conn] \in ConnType
                /\ conns[sends[s].conn].active \in Nat /\ conns[sends[s].conn].active # 0
<1>1. sends[s] \in SendType
  BY DEF SocketInv, Types
<1>2. ASSUME sends[s].conn # NoConn
      PROVE  /\ sends[s].conn \in Conns /\ conns[sends[s].conn] \in ConnType
             /\ conns[sends[s].conn].active # 0
  BY <1>2, SenderCounts DEF SocketInv, Types, Conns
<1>3. QED
  BY <1>1, <1>2 DEF ConnType

LEMMA BeginSendKeepsInv ==
    ASSUME SocketInv, NEW s \in scenario.senders, NEW expected, BeginSend(s, expected)
    PROVE  SocketInv'
<1>1. current \in Conns /\ conns[current] \in ConnType /\ conns[current].active \in Nat
  <2>1. current \in Conns
    BY DEF BeginSend, SocketInv, Types
  <2>2. conns[current] \in ConnType
    BY <2>1 DEF SocketInv, Types, Conns
  <2>3. QED
    BY <2>1, <2>2 DEF ConnType
<1>2. PICK pc \in {"admitted", "tooLong"} :
        sends' = [sends EXCEPT ![s] = [pc |-> pc, conn |-> current, callback |-> "none"]]
  BY DEF BeginSend
<1> DEFINE m == [pc |-> pc, conn |-> current, callback |-> "none"]
           r == [conns[current] EXCEPT !.active = conns[current].active + 1]
<1>3. m \in SendType /\ m.conn = current /\ m.pc = pc /\ m.callback = "none"
  BY <1>1 DEF SendType, Conns, SocketInv, Types
<1>4. /\ r \in ConnType /\ r.active = conns[current].active + 1
      /\ r.loop = conns[current].loop /\ r.open = conns[current].open
      /\ r.writer = conns[current].writer /\ r.deadline = conns[current].deadline
  BY <1>1 DEF ConnType
<1>5. conns' = [conns EXCEPT ![current] = r]
  BY DEF BeginSend
<1>6. ~closed /\ current # NoConn /\ sends[s].conn = NoConn /\ UNCHANGED rest
  BY DEF BeginSend, SocketInv, SendsInv
<1>7. r.writer = Nobody => ~r.deadline
  BY <1>1, <1>4 DEF SocketInv, SendsInv
<1> HIDE DEF m, r
<1>8. sends' = [sends EXCEPT ![s] = m]
  BY <1>2 DEF m
<1>9. QED
  BY <1>1, <1>3, <1>4, <1>5, <1>6, <1>7, <1>8, SendStepKeepsInv

\* The end of a send, refused before its write or after it.
LEMMA SendEndsKeepsInv ==
    ASSUME SocketInv, NEW s \in scenario.senders, SendRejected(s) \/ SendReturns(s)
    PROVE  SocketInv'
<1> DEFINE c == sends[s].conn
           m == [pc |-> "idle", conn |-> NoConn, callback |-> "none"]
<1>0. c # NoConn
  BY DEF SendRejected, SendReturns, SocketInv, SendsInv
<1>1. /\ c \in Conns /\ conns[c] \in ConnType
      /\ conns[c].active \in Nat /\ conns[c].active # 0
  BY <1>0, SendTypes
<1>2. m \in SendType /\ m.conn = NoConn /\ m.pc = "idle" /\ m.callback = "none"
  BY DEF SendType, NoConn
<1>3. sends' = [sends EXCEPT ![s] = m] /\ UNCHANGED rest
  BY DEF SendRejected, SendReturns
<1>4. CASE SendRejected(s)
  <2> DEFINE r == [conns[c] EXCEPT !.active = conns[c].active - 1]
  <2>1. /\ r \in ConnType /\ r.active = conns[c].active - 1
        /\ r.loop = conns[c].loop /\ r.open = conns[c].open
        /\ r.writer = conns[c].writer /\ r.deadline = conns[c].deadline
    BY <1>1 DEF ConnType
  <2>2. conns' = [conns EXCEPT ![c] = r]
    BY <1>4 DEF SendRejected
  <2>3. r.writer = Nobody => ~r.deadline
    BY <1>1, <2>1 DEF SocketInv, SendsInv
  <2> HIDE DEF m, r, c
  <2>4. sends[s].conn = c
    BY DEF c
  <2>5. QED
    BY <1>1, <1>2, <1>3, <2>1, <2>2, <2>3, <2>4, SendStepKeepsInv
<1>5. CASE SendReturns(s)
  <2> DEFINE r == [conns[c] EXCEPT !.deadline = FALSE, !.writer = Nobody,
                                   !.active = conns[c].active - 1]
  <2>1. /\ r \in ConnType /\ r.active = conns[c].active - 1
        /\ r.loop = conns[c].loop /\ r.open = conns[c].open
        /\ r.writer = Nobody /\ ~r.deadline
    <3>1. conns[c].active - 1 \in Nat
      BY <1>1
    <3>2. r \in ConnType
      BY <1>1, <3>1 DEF ConnType
    <3>3. QED
      BY <1>1, <3>2 DEF ConnType
  <2>2. conns' = [conns EXCEPT ![c] = r]
    BY <1>5 DEF SendReturns
  <2>3. conns[c].writer = s
    BY <1>5 DEF SendReturns, SocketInv, SendsInv
  <2> HIDE DEF m, r, c
  <2>4. sends[s].conn = c
    BY DEF c
  <2>5. QED
    BY <1>1, <1>2, <1>3, <2>1, <2>2, <2>3, <2>4, SendStepKeepsInv
<1>6. QED
  BY <1>4, <1>5

\* The write lock is taken, and the callback may move the deadline while it is held.
LEMMA WriteKeepsInv ==
    ASSUME SocketInv, NEW s \in scenario.senders,
           BeginWrite(s) \/ ContextEnds(s) \/ Callback(s) \/ SocketWriteReturns(s)
    PROVE  SocketInv'
<1> DEFINE c == sends[s].conn
<1>0. c # NoConn /\ UNCHANGED rest
  BY DEF BeginWrite, ContextEnds, Callback, SocketWriteReturns, SocketInv, SendsInv
<1>1. /\ c \in Conns /\ conns[c] \in ConnType /\ sends[s] \in SendType
      /\ conns[c].active \in Nat /\ conns \in Seq(ConnType)
  BY <1>0, SendTypes DEF SocketInv, Types
<1>2. CASE BeginWrite(s)
  <2> DEFINE m == [sends[s] EXCEPT !.pc = "writing", !.callback = "armed"]
  <2>1. PICK timed \in BOOLEAN :
          conns' = [conns EXCEPT ![c].writer = s, ![c].deadline = timed \/ @]
    BY <1>2 DEF BeginWrite
  <2> DEFINE r == [conns[c] EXCEPT !.writer = s, !.deadline = timed \/ conns[c].deadline]
  <2>2. s \in Senders /\ s # Nobody
    BY ScenarioFacts DEF SocketInv
  <2>3. /\ r \in ConnType /\ r.active = conns[c].active
        /\ r.loop = conns[c].loop /\ r.open = conns[c].open /\ r.writer = s
    BY <1>1, <2>2 DEF ConnType
  <2>4. conns' = [conns EXCEPT ![c] = r]
    BY <2>1
  <2>5. m \in SendType /\ m.pc = "writing" /\ m.conn = c
    BY <1>1 DEF SendType
  <2>6. sends' = [sends EXCEPT ![s] = m] /\ conns[c].writer = Nobody
    BY <1>2 DEF BeginWrite
  <2> HIDE DEF m, r, c
  <2>7. sends[s].conn = c
    BY DEF c
  <2>8. QED
    BY <1>0, <1>1, <2>2, <2>3, <2>4, <2>5, <2>6, <2>7, SendStepKeepsInv
<1>3. CASE ContextEnds(s) \/ SocketWriteReturns(s)
  <2> DEFINE m == sends'[s]
  <2>1. conns' = [conns EXCEPT ![c] = conns[c]] /\ sends' = [sends EXCEPT ![s] = m]
    BY <1>1, <1>3 DEF ContextEnds, SocketWriteReturns, SocketInv, Types
  <2>2. /\ m \in SendType /\ m.conn = c /\ m.pc \in {"writing", "written"}
        /\ conns[c].writer = s
    <3>1. CASE ContextEnds(s)
      BY <1>1, <3>1 DEF ContextEnds, SocketInv, SendsInv, Types, SendType
    <3>2. CASE SocketWriteReturns(s)
      BY <1>1, <3>2 DEF SocketWriteReturns, SocketInv, SendsInv, Types, SendType
    <3>3. QED
      BY <1>3, <3>1, <3>2
  <2>3. conns[c].writer = Nobody => ~conns[c].deadline
    BY <1>1 DEF SocketInv, SendsInv
  <2> HIDE DEF m, c
  <2>4. sends[s].conn = c
    BY DEF c
  <2>5. QED
    BY <1>0, <1>1, <2>1, <2>2, <2>3, <2>4, SendStepKeepsInv
<1>4. CASE Callback(s)
  <2> DEFINE r == [conns[c] EXCEPT !.deadline = TRUE]
             m == [sends[s] EXCEPT !.callback = "done"]
  <2>1. conns' = [conns EXCEPT ![c] = r] /\ sends' = [sends EXCEPT ![s] = m]
    BY <1>4 DEF Callback
  <2>2. /\ r \in ConnType /\ r.active = conns[c].active /\ r.writer = conns[c].writer
        /\ r.loop = conns[c].loop /\ r.open = conns[c].open
    BY <1>1 DEF ConnType
  <2>3. /\ m \in SendType /\ m.conn = c /\ m.pc = sends[s].pc /\ m.callback = "done"
    BY <1>1 DEF SendType
  <2>4. m.pc \in {"writing", "written"} /\ r.writer = s /\ s # Nobody
    BY <1>4, <2>2, <2>3, ScenarioFacts DEF Callback, SocketInv, SendsInv
  <2> HIDE DEF m, r, c
  <2>5. sends[s].conn = c
    BY DEF c
  <2>6. QED
    BY <1>0, <1>1, <2>1, <2>2, <2>3, <2>4, <2>5, SendStepKeepsInv
<1>5. QED
  BY <1>2, <1>3, <1>4

----------------------------------------------------------------------------
(* Steps of Rebuild and Close                                              *)

\* What a call does to sockets leaves sends alone, and a new socket has none.
LEMMA CallsLeaveSends ==
    ASSUME SocketInv, UNCHANGED <<scenario, sends>>, Conns \subseteq Conns',
           \A c \in Conns : /\ conns'[c].writer = conns[c].writer
                            /\ conns'[c].deadline = conns[c].deadline
                            /\ conns'[c].active = conns[c].active
                            /\ conns'[c].loop = "callback" <=> conns[c].loop = "callback",
           \A c \in Conns' \ Conns : c # NoConn /\ conns'[c] = NewConn(0)
    PROVE  SendsInv'
<1>1. \A c : SendsOn(c)' = SendsOn(c)
  BY DEF SendsOn
<1>2. \A c \in Conns' \ Conns : SendsOn(c) = {}
  BY DEF SendsOn, SocketInv, SendsInv
<1>3. Cardinality({}) = 0
  BY FS_EmptySet
<1>4. ASSUME NEW c \in Conns'
      PROVE  /\ conns'[c].writer = Nobody => ~conns'[c].deadline
             /\ conns'[c].active =
                  Cardinality(SendsOn(c)) + (IF conns'[c].loop = "callback" THEN 1 ELSE 0)
  <2>1. CASE c \in Conns
    BY <2>1 DEF SocketInv, SendsInv
  <2>2. CASE c \notin Conns
    <3>1. SendsOn(c) = {} /\ conns'[c] = NewConn(0)
      BY <1>2, <2>2
    <3>2. NewConn(0).active = 0 /\ NewConn(0).loop = "none" /\ NewConn(0).deadline = FALSE
      BY DEF NewConn
    <3>3. QED
      BY <3>1, <3>2, <1>3
  <2>3. QED
    BY <2>1, <2>2
<1>5. \A s \in scenario.senders :
        /\ sends[s].conn \in {NoConn} \cup Conns'
        /\ sends[s].pc \in {"writing", "written"} => conns'[sends[s].conn].writer = s
  <2>1. ASSUME NEW s \in scenario.senders, sends[s].pc \in {"writing", "written"}
        PROVE  sends[s].conn \in Conns
    BY <2>1 DEF SocketInv, SendsInv
  <2>2. QED
    BY <2>1 DEF SocketInv, SendsInv
<1>6. QED
  BY <1>1, <1>4, <1>5 DEF SocketInv, SendsInv

\* A call that moves on without touching a socket.  One that returns leaves its
\* socket silent.
LEMMA CallMoves ==
    ASSUME SocketInv, NEW t \in Callers,
           NEW p \in {"begin", "dialing", "retire", "await", "returned"}, Goto(t, p),
           UNCHANGED <<scenario, conns, current, nextGen, sends>>,
           closed' \in BOOLEAN, closeDone' \in BOOLEAN,
           lifecycle' \in scenario.rebuilders \cup {Nobody},
           p \in {"begin", "dialing", "await"} => calls[t].conn = NoConn,
           p = "returned" => calls[t].conn = NoConn \/ Silent(calls[t].conn),
           closeDone' => \A c \in Conns : Silent(c)
    PROVE  /\ Types' /\ SocketsInv' /\ SendsInv'
           /\ Callers' = Callers /\ calls'[t].pc = p /\ calls'[t].conn = calls[t].conn
           /\ \A u \in Callers \ {t} : calls'[u] = calls[u]
<1>1. /\ calls' \in [Callers' -> CallType] /\ Callers' = Callers
      /\ calls'[t].pc = p /\ calls'[t].conn = calls[t].conn
      /\ \A u \in Callers \ {t} : calls'[u] = calls[u]
  <2>1. calls[t].conn \in Nat
    BY DEF SocketInv, Types, CallType
  <2>2. QED
    BY <2>1, CallUpdate DEF SocketInv
<1>2. Conns' = Conns /\ \A c : Silent(c)' = Silent(c)
  BY DEF Conns, Silent
<1>3. Types'
  BY <1>1, <1>2 DEF SocketInv, Types
<1>4. SendsInv'
  BY <1>2, CallsLeaveSends DEF SocketInv
<1>5. SocketsInv'
  <2>1. ASSUME NEW c \in Conns \ {current} PROVE Silent(c) \/ Owned(c)'
    <3>1. c # NoConn
      BY DEF SocketInv, Types, Conns, NoConn
    <3>2. SUFFICES ASSUME ~Silent(c) PROVE Owned(c)'
      OBVIOUS
    <3>3. PICK u \in Callers : calls[u].conn = c /\ calls[u].pc # "returned"
      BY <3>2 DEF SocketInv, SocketsInv, Owned
    <3>4. calls'[u].conn = c /\ calls'[u].pc # "returned"
      BY <1>1, <3>1, <3>2, <3>3
    <3>5. QED
      BY <1>1, <3>4 DEF Owned
  <2>2. scenario.rebuilders \subseteq Callers
    BY DEF Callers
  <2>3. \A u \in Callers : calls'[u].conn = calls[u].conn
    BY <1>1
  <2>4. \A u \in Callers : calls'[u].pc \in {"publish", "drain", "idle"} => calls'[u] = calls[u]
    BY <1>1
  <2>5. QED
    BY <1>1, <1>2, <2>1, <2>2, <2>3, <2>4 DEF SocketInv, SocketsInv
<1>6. QED
  BY <1>1, <1>3, <1>4, <1>5

LEMMA BeginRebuildKeepsInv ==
    ASSUME SocketInv, NEW t \in scenario.rebuilders, BeginRebuild(t)
    PROVE  SocketInv'
<1>1. t \in Callers /\ t \notin scenario.closers
  BY ScenarioFacts DEF SocketInv
<1>2. /\ Types' /\ SocketsInv' /\ SendsInv'
      /\ Callers' = Callers /\ calls'[t].pc = "begin"
      /\ \A u \in Callers \ {t} : calls'[u] = calls[u]
  BY <1>1, CallMoves DEF BeginRebuild, SocketInv, SocketsInv, Types
<1>3. CallsInv'
  BY <1>1, <1>2, ScenarioFacts
     DEF BeginRebuild, SocketInv, CallsInv, LockInv, CloseInv, CurrentInv, GenerationInv,
         HoldsLock, Closing, Carrier
<1>4. QED
  BY <1>2, <1>3 DEF SocketInv

\* The dial begins under the lock, or the Carrier is closed; the dial may fail.
LEMMA LockKeepsInv ==
    ASSUME SocketInv, NEW t \in Callers, LockLifecycle(t) \/ DialFails(t)
    PROVE  SocketInv'
<1>1. t \in scenario.rebuilders /\ t \notin scenario.closers
  BY ScenarioFacts DEF LockLifecycle, DialFails, SocketInv, CallsInv, LockInv, Callers
<1>2. calls[t].conn = NoConn /\ UNCHANGED <<scenario, conns, current, nextGen, sends>>
      /\ UNCHANGED <<closed, closeDone>>
  BY DEF LockLifecycle, DialFails, SocketInv, SocketsInv
<1>3. PICK p \in {"dialing", "returned"} :
        /\ Goto(t, p)
        /\ lifecycle' = IF p = "dialing" THEN t ELSE Nobody
        /\ p = "dialing" => ~closed /\ lifecycle = Nobody
        /\ lifecycle \in {t, Nobody}
  BY <1>1 DEF LockLifecycle, DialFails, SocketInv, CallsInv, LockInv, HoldsLock
<1>4. /\ Types' /\ SocketsInv' /\ SendsInv'
      /\ Callers' = Callers /\ calls'[t].pc = p
      /\ \A u \in Callers \ {t} : calls'[u] = calls[u]
  BY <1>1, <1>2, <1>3, CallMoves DEF SocketInv, SocketsInv, Types
<1>5. LockInv'
  BY <1>1, <1>2, <1>3, <1>4, ScenarioFacts DEF SocketInv, CallsInv, LockInv, HoldsLock
<1>6. CloseInv'
  BY <1>1, <1>2, <1>3, <1>4, ScenarioFacts DEF SocketInv, CallsInv, CloseInv, Closing
<1>7. CurrentInv' /\ GenerationInv'
  BY <1>1, <1>2, <1>3, <1>4, ScenarioFacts
     DEF SocketInv, CallsInv, CurrentInv, GenerationInv, Closing, Carrier
<1>8. QED
  BY <1>4, <1>5, <1>6, <1>7 DEF SocketInv, CallsInv

\* The returns: what the call waited for is drained, and it was closed before.
LEMMA RebuildReturnsKeepsInv ==
    ASSUME SocketInv, NEW t \in Callers, RebuildReturns(t)
    PROVE  SocketInv'
<1>1. t \in scenario.rebuilders /\ t \notin scenario.closers /\ lifecycle = t
  BY ScenarioFacts DEF RebuildReturns, SocketInv, CallsInv, LockInv, HoldsLock
<1>2. calls[t].conn = NoConn \/ Silent(calls[t].conn)
  BY DEF RebuildReturns, Drained, Silent, SocketInv, SocketsInv
<1>3. /\ Types' /\ SocketsInv' /\ SendsInv'
      /\ Callers' = Callers /\ calls'[t].pc = "returned"
      /\ \A u \in Callers \ {t} : calls'[u] = calls[u]
  BY <1>2, CallMoves DEF RebuildReturns, SocketInv, SocketsInv, Types
<1>4. CallsInv'
  BY <1>1, <1>3, ScenarioFacts
     DEF RebuildReturns, SocketInv, CallsInv, LockInv, CloseInv, CurrentInv, GenerationInv,
         HoldsLock, Closing, Carrier
<1>5. QED
  BY <1>3, <1>4 DEF SocketInv

\* The closing call passes the lifecycle lock: no Rebuild is inside.
LEMMA PassLifecycleKeepsInv ==
    ASSUME SocketInv, NEW t \in Callers, PassLifecycle(t)
    PROVE  SocketInv'
<1>1. t \in scenario.closers /\ t \notin scenario.rebuilders /\ lifecycle = Nobody
  BY ScenarioFacts DEF PassLifecycle, SocketInv, CallsInv, LockInv, Callers
<1>2. /\ Types' /\ SocketsInv' /\ SendsInv'
      /\ Callers' = Callers /\ calls'[t].pc = "retire" /\ calls'[t].conn = calls[t].conn
      /\ \A u \in Callers \ {t} : calls'[u] = calls[u]
  BY CallMoves DEF PassLifecycle, SocketInv, SocketsInv, Types
<1>3. calls[t].pc = "lifecycle" /\ UNCHANGED <<scenario, conns, current, nextGen, closed, lifecycle, closeDone>>
  BY DEF PassLifecycle
<1>4. CallsInv'
  BY <1>1, <1>2, <1>3, ScenarioFacts
     DEF SocketInv, CallsInv, LockInv, CloseInv, CurrentInv, GenerationInv, HoldsLock, Closing,
         Carrier
<1>5. QED
  BY <1>2, <1>4 DEF SocketInv

\* The heart of Close: when the closing call finds its socket drained, no other
\* socket is left in anybody's hands.
LEMMA DrainedCloseIsSilent ==
    ASSUME SocketInv, NEW t \in scenario.closers, calls[t].pc = "drain", Drained(calls[t].conn),
           NEW c \in Conns
    PROVE  Silent(c)
<1>1. closed /\ lifecycle = Nobody /\ Closing(t)
  BY DEF SocketInv, CallsInv, CloseInv, Closing
<1>2. calls[t].conn = NoConn \/ Silent(calls[t].conn)
  BY ScenarioFacts DEF Drained, Silent, SocketInv, SocketsInv
<1>3. c # NoConn
  BY DEF SocketInv, Types, Conns, NoConn
<1>4. CASE ~Carrier
  <2>1. Len(conns) = 1 /\ calls[t].conn = 1
    BY <1>1, <1>4 DEF SocketInv, CallsInv, CurrentInv
  <2>2. c = 1
    BY <2>1 DEF Conns, SocketInv, Types
  <2>3. QED
    BY <2>1, <2>2, <1>2 DEF NoConn
<1>5. CASE Carrier
  <2>1. current = NoConn
    BY <1>1, <1>5 DEF SocketInv, CallsInv, CurrentInv
  <2>2. SUFFICES ASSUME NEW u \in Callers, calls[u].conn = c, calls[u].pc # "returned"
                 PROVE  u = t
    BY <2>1, <1>2, <1>3 DEF SocketInv, SocketsInv, Owned
  <2>3. calls[u].pc \in {"publish", "lifecycle", "retire", "drain"}
    <3>1. calls[u] \in CallType
      BY DEF SocketInv, Types
    <3>2. calls[u].pc \notin {"idle", "begin", "dialing", "await"}
      BY <1>3, <2>2 DEF SocketInv, SocketsInv
    <3>3. QED
      BY <3>1, <3>2, <2>2 DEF CallType
  <2>4. u \notin scenario.rebuilders
    BY <1>1, <2>3, ScenarioFacts DEF SocketInv, CallsInv, LockInv, HoldsLock
  <2>5. u \in scenario.closers /\ Closing(u)
    BY <2>3, <2>4 DEF Callers, Closing, SocketInv, CallsInv, LockInv
  <2>6. QED
    BY <1>1, <2>5 DEF SocketInv, CallsInv, CloseInv
<1>6. QED
  BY <1>4, <1>5

LEMMA CloseReturnsKeepsInv ==
    ASSUME SocketInv, NEW t \in Callers, CloseReturns(t)
    PROVE  SocketInv'
<1>1. /\ t \in scenario.closers /\ t \notin scenario.rebuilders
      /\ Goto(t, "returned") /\ UNCHANGED <<scenario, conns, current, nextGen, closed, lifecycle, sends>>
      /\ calls[t].pc \in {"drain", "await"}
  BY ScenarioFacts DEF CloseReturns, SocketInv
<1>2. closed
  BY <1>1 DEF SocketInv, CallsInv, CloseInv
<1>3. closeDone' = TRUE /\ lifecycle = Nobody
  BY <1>1 DEF CloseReturns, SocketInv, CallsInv, CloseInv
<1>4. \A c \in Conns : Silent(c)
  <2>1. CASE calls[t].pc = "drain"
    BY <1>1, <2>1, DrainedCloseIsSilent DEF CloseReturns
  <2>2. CASE calls[t].pc = "await"
    BY <2>2 DEF CloseReturns, SocketInv, SocketsInv
  <2>3. QED
    BY <1>1, <2>1, <2>2
<1>5. calls[t].conn = NoConn \/ Silent(calls[t].conn)
  BY <1>4 DEF SocketInv, SocketsInv
<1>6. /\ Types' /\ SocketsInv' /\ SendsInv'
      /\ Callers' = Callers /\ calls'[t].pc = "returned"
      /\ \A u \in Callers \ {t} : calls'[u] = calls[u]
  BY <1>1, <1>3, <1>4, <1>5, CallMoves DEF SocketInv, Types
<1>7. CallsInv'
  BY <1>1, <1>2, <1>3, <1>6, ScenarioFacts
     DEF SocketInv, CallsInv, LockInv, CloseInv, CurrentInv, GenerationInv, HoldsLock, Closing,
         Carrier
<1>8. QED
  BY <1>6, <1>7 DEF SocketInv

\* The first Close takes the published socket; a Listener's is closed at once.
LEMMA BeginCloseKeepsInv ==
    ASSUME SocketInv, NEW t \in scenario.closers, BeginClose(t)
    PROVE  SocketInv'
<1>1. /\ t \in Callers /\ t \notin scenario.rebuilders /\ calls[t].pc = "idle"
      /\ calls[t].conn = NoConn /\ closed' = TRUE
      /\ UNCHANGED <<scenario, nextGen, lifecycle, closeDone, sends>>
  BY ScenarioFacts DEF BeginClose, SocketInv, SocketsInv
<1>2. CASE closed
  <2>1. Goto(t, "await") /\ UNCHANGED <<conns, current>>
    BY <1>2 DEF BeginClose
  <2>2. /\ Types' /\ SocketsInv' /\ SendsInv'
        /\ Callers' = Callers /\ calls'[t].pc = "await"
        /\ \A u \in Callers \ {t} : calls'[u] = calls[u]
    BY <1>1, <2>1, CallMoves DEF SocketInv, SocketsInv, Types
  <2>3. CallsInv'
    BY <1>1, <1>2, <2>1, <2>2, ScenarioFacts
       DEF SocketInv, CallsInv, LockInv, CloseInv, CurrentInv, GenerationInv, HoldsLock,
           Closing, Carrier
  <2>4. QED
    BY <2>2, <2>3 DEF SocketInv
<1>3. CASE ~closed
  <2>0. ~closeDone /\ \A u \in scenario.closers : calls[u].pc = "idle"
    BY <1>3 DEF SocketInv, CallsInv, CloseInv
  <2>1. PICK p \in {"lifecycle", "drain"}, n \in Nat :
          /\ calls' = [calls EXCEPT ![t] = [pc |-> p, conn |-> n]]
          /\ p = "lifecycle" => /\ Carrier /\ n = current /\ current' = NoConn
                                /\ UNCHANGED conns
          /\ p = "drain" => /\ ~Carrier /\ n = 1 /\ UNCHANGED current
                            /\ conns' = [conns EXCEPT ![1].open = FALSE]
    <3>1. current \in Nat
      BY DEF SocketInv, Types, Conns, NoConn
    <3>2. QED
      BY <1>3, <3>1 DEF BeginClose
  <2>2. /\ calls' \in [Callers' -> CallType] /\ Callers' = Callers
        /\ calls'[t].pc = p /\ calls'[t].conn = n
        /\ \A u \in Callers \ {t} : calls'[u] = calls[u]
    BY <1>1, <2>1, CallUpdate DEF SocketInv
  <2>3. CASE p = "lifecycle"
    <3>1. Conns' = Conns /\ \A c : Silent(c)' = Silent(c)
      BY <2>1, <2>3 DEF Conns, Silent
    <3>2. Types'
      BY <1>1, <2>1, <2>2, <2>3, <3>1 DEF SocketInv, Types
    <3>3. SendsInv'
      BY <1>1, <2>1, <2>3, <3>1, CallsLeaveSends DEF SocketInv
    <3>4. CallsInv'
      BY <1>1, <2>0, <2>1, <2>2, <2>3, ScenarioFacts
         DEF SocketInv, CallsInv, LockInv, CloseInv, CurrentInv, GenerationInv, HoldsLock,
             Closing, Carrier
    <3>5. \A c \in Conns : Silent(c) \/ Owned(c)'
      <4>1. ASSUME NEW c \in Conns \ {current}, ~Silent(c) PROVE Owned(c)'
        <5>1. PICK u \in Callers : calls[u].conn = c /\ calls[u].pc # "returned"
          BY <4>1 DEF SocketInv, SocketsInv, Owned
        <5>2. u # t
          BY <1>1, <5>1 DEF SocketInv, Types, Conns, NoConn
        <5>3. u \in Callers' /\ calls'[u].conn = c /\ calls'[u].pc # "returned"
          BY <5>1, <5>2, <2>2
        <5>4. QED
          BY <5>3 DEF Owned
      <4>2. ASSUME NEW c \in Conns, c = current PROVE Owned(c)'
        <5>1. t \in Callers' /\ calls'[t].conn = c /\ calls'[t].pc # "returned"
          BY <1>1, <2>1, <2>2, <2>3, <4>2
        <5>2. QED
          BY <5>1 DEF Owned
      <4>3. QED
        BY <4>1, <4>2
    <3>6. /\ \A u \in Callers : calls'[u].conn \in {NoConn} \cup Conns
          /\ \A u \in Callers : calls'[u].pc \in {"idle", "begin", "dialing", "await"} =>
                                    calls'[u].conn = NoConn
          /\ \A u \in Callers : calls'[u].pc = "drain" => calls'[u] = calls[u]
          /\ \A u \in scenario.rebuilders : calls'[u] = calls[u]
      BY <1>1, <2>1, <2>2, <2>3, ScenarioFacts DEF SocketInv, SocketsInv, Types
    <3>7. SocketsInv'
      <4>1. \A c \in Conns : c # NoConn
        BY DEF SocketInv, Types, Conns, NoConn
      <4>2. QED
        BY <1>1, <2>0, <2>1, <2>2, <2>3, <3>1, <3>5, <3>6, <4>1 DEF SocketInv, SocketsInv
    <3>8. QED
      BY <3>2, <3>3, <3>4, <3>7 DEF SocketInv
  <2>4. CASE p = "drain"
    <3>1. Len(conns) = 1 /\ current = 1 /\ 1 \in Conns /\ Conns = {1} /\ scenario.rebuilders = {}
      BY <2>1, <2>4, ScenarioFacts DEF SocketInv, CallsInv, CurrentInv, Conns, Types
    <3> DEFINE r == [conns[1] EXCEPT !.open = FALSE]
    <3>2. conns[1] \in ConnType
      <4>1. conns \in Seq(ConnType) /\ 1 \in 1..Len(conns)
        BY <3>1 DEF SocketInv, Types
      <4>2. QED
        BY <4>1
    <3>3. /\ r \in ConnType /\ ~r.open /\ r.writer = conns[1].writer /\ r.loop = conns[1].loop
          /\ r.deadline = conns[1].deadline /\ r.active = conns[1].active
      BY <3>2 DEF ConnType
    <3>4. /\ conns' \in Seq(ConnType) /\ Len(conns') = Len(conns) /\ Conns' = Conns
          /\ conns'[1] = r
      <4>1. conns' = [conns EXCEPT ![1] = r]
        BY <2>1, <2>4
      <4>2. QED
        BY <3>1, <3>3, <4>1, ConnUpdate DEF SocketInv, Types
    <3> HIDE DEF r
    <3>5. Types'
      BY <1>1, <2>1, <2>2, <2>4, <3>4 DEF SocketInv, Types
    <3>6. SendsInv'
      <4>1. \A c \in Conns : /\ conns'[c].writer = conns[c].writer
                             /\ conns'[c].deadline = conns[c].deadline
                             /\ conns'[c].active = conns[c].active
                             /\ conns'[c].loop = conns[c].loop
        BY <3>1, <3>3, <3>4
      <4>2. QED
        BY <1>1, <3>4, <4>1, CallsLeaveSends DEF SocketInv
    <3>7. CallsInv'
      <4>1. lifecycle = Nobody
        BY <3>1 DEF SocketInv, Types
      <4>2. /\ calls'[t].pc = "drain" /\ calls'[t].conn = 1
            /\ \A u \in scenario.closers \ {t} : calls'[u].pc = "idle"
        BY <2>0, <2>1, <2>2, <2>4 DEF Callers
      <4>3. LockInv' /\ CloseInv'
        BY <1>1, <2>0, <3>1, <4>1, <4>2 DEF LockInv, CloseInv, Closing, HoldsLock
      <4>4. CurrentInv' /\ GenerationInv'
        BY <1>1, <2>1, <2>4, <3>1, <3>4, <4>2
           DEF SocketInv, CallsInv, CurrentInv, GenerationInv, Closing, Carrier
      <4>5. QED
        BY <4>3, <4>4 DEF CallsInv
    <3>8. SocketsInv'
      <4>1. \A u \in Callers : u \in scenario.closers
        BY <3>1 DEF Callers
      <4>2. QED
        BY <1>1, <2>0, <2>1, <2>2, <2>4, <3>1, <3>3, <3>4, <4>1 DEF SocketInv, SocketsInv
    <3>9. QED
      BY <3>5, <3>6, <3>7, <3>8 DEF SocketInv
  <2>5. QED
    BY <2>3, <2>4
<1>4. QED
  BY <1>2, <1>3

\* A call closes the socket it takes out of use.
LEMMA RetireKeepsInv ==
    ASSUME SocketInv, NEW t \in Callers, Retire(t)
    PROVE  SocketInv'
<1> DEFINE c == calls[t].conn
<1>1. /\ calls[t].pc = "retire" /\ Goto(t, "drain") /\ c \in Nat
      /\ UNCHANGED <<scenario, current, nextGen, closed, lifecycle, closeDone, sends>>
  BY DEF Retire, SocketInv, Types, CallType
<1>2. /\ calls' \in [Callers' -> CallType] /\ Callers' = Callers
      /\ calls'[t].pc = "drain" /\ calls'[t].conn = c
      /\ \A u \in Callers \ {t} : calls'[u] = calls[u]
  BY <1>1, CallUpdate DEF SocketInv
<1>3. /\ conns' \in Seq(ConnType) /\ Len(conns') = Len(conns) /\ Conns' = Conns
      /\ \A d \in Conns : /\ conns'[d].writer = conns[d].writer
                          /\ conns'[d].deadline = conns[d].deadline
                          /\ conns'[d].active = conns[d].active
                          /\ conns'[d].loop = conns[d].loop
                          /\ ~conns[d].open => ~conns'[d].open
      /\ c # NoConn => ~conns'[c].open
  <2>1. CASE c = NoConn
    BY <2>1 DEF Retire, SocketInv, Types, Conns
  <2>2. CASE c # NoConn
    <3>1. c \in Conns /\ conns[c] \in ConnType
      <4>1. c \in Conns
        BY <2>2 DEF SocketInv, SocketsInv
      <4>2. QED
        BY <4>1 DEF SocketInv, Types, Conns
    <3> DEFINE r == [conns[c] EXCEPT !.alive = FALSE, !.open = FALSE]
    <3>2. /\ r \in ConnType /\ ~r.open /\ r.writer = conns[c].writer /\ r.loop = conns[c].loop
          /\ r.deadline = conns[c].deadline /\ r.active = conns[c].active
      BY <3>1 DEF ConnType
    <3>3. conns' = [conns EXCEPT ![c] = r]
      BY <2>2 DEF Retire
    <3> HIDE DEF r, c
    <3>4. /\ conns' \in Seq(ConnType) /\ Len(conns') = Len(conns) /\ Conns' = Conns
          /\ conns'[c] = r /\ \A d \in Conns \ {c} : conns'[d] = conns[d]
      BY <3>1, <3>2, <3>3, ConnUpdate DEF SocketInv, Types
    <3>5. QED
      BY <3>1, <3>2, <3>4
  <2>3. QED
    BY <2>1, <2>2
<1>4. Types'
  BY <1>1, <1>2, <1>3 DEF SocketInv, Types
<1>5. SendsInv'
  BY <1>1, <1>3, CallsLeaveSends DEF SocketInv
<1>6. CallsInv'
  BY <1>1, <1>2, <1>3, ScenarioFacts
     DEF SocketInv, CallsInv, LockInv, CloseInv, CurrentInv, GenerationInv, HoldsLock, Closing,
         Carrier
<1>7. SocketsInv'
  <2>1. \A d \in Conns : Silent(d) => Silent(d)'
    BY <1>3 DEF Silent
  <2>2. ASSUME NEW d, Owned(d) PROVE Owned(d)'
    <3>1. PICK u \in Callers : calls[u].conn = d /\ calls[u].pc # "returned"
      BY <2>2 DEF Owned
    <3>2. u \in Callers' /\ calls'[u].conn = d /\ calls'[u].pc # "returned"
      BY <1>2, <3>1
    <3>3. QED
      BY <3>2 DEF Owned
  <2>3. \A u \in Callers : calls'[u].conn = calls[u].conn
    BY <1>2
  <2>4. \A u \in Callers : calls'[u].pc # "drain" => calls'[u] = calls[u]
    BY <1>2
  <2>5. \A u \in Callers : calls'[u].pc = "drain" /\ calls'[u].conn # NoConn =>
            ~conns'[calls'[u].conn].open
    BY <1>2, <1>3 DEF SocketInv, SocketsInv
  <2>6. QED
    BY <1>1, <1>2, <1>3, <2>1, <2>2, <2>3, <2>4, <2>5, ScenarioFacts,
       SMTT(30) DEF SocketInv, SocketsInv
<1>8. QED
  BY <1>4, <1>5, <1>6, <1>7 DEF SocketInv

\* The dial has given a socket nobody else knows of.
LEMMA DialedKeepsInv ==
    ASSUME SocketInv, NEW t \in Callers, Dialed(t)
    PROVE  SocketInv'
<1>0. PICK n \in Nat : n = Len(conns) + 1
  BY DEF SocketInv, Types
<1>1. /\ t \in scenario.rebuilders /\ lifecycle = t /\ calls[t].conn = NoConn
      /\ conns \in Seq(ConnType) /\ Len(conns) \in Nat
      /\ conns' = Append(conns, NewConn(0))
      /\ calls' = [calls EXCEPT ![t] = [pc |-> "publish", conn |-> n]]
      /\ UNCHANGED <<scenario, current, nextGen, closed, lifecycle, closeDone, sends>>
  BY <1>0 DEF Dialed, SocketInv, CallsInv, LockInv, HoldsLock, SocketsInv, Types, Callers
<1>2. /\ NewConn(0) \in ConnType /\ NewConn(0).loop = "none" /\ NewConn(0).active = 0
  BY DEF NewConn, ConnType, LoopStates
<1>3. /\ conns' \in Seq(ConnType) /\ Len(conns') = n /\ Conns' = Conns \cup {n}
      /\ n \notin Conns /\ n # NoConn /\ conns'[n] = NewConn(0)
      /\ \A c \in Conns : conns'[c] = conns[c]
  BY <1>0, <1>1, <1>2 DEF Conns, NoConn
<1>4. /\ calls' \in [Callers' -> CallType] /\ Callers' = Callers
      /\ calls'[t].pc = "publish" /\ calls'[t].conn = n
      /\ \A u \in Callers \ {t} : calls'[u] = calls[u]
  BY <1>1, CallUpdate DEF SocketInv
<1>5. Types'
  BY <1>1, <1>3, <1>4 DEF SocketInv, Types
<1>6. SendsInv'
  BY <1>1, <1>3, CallsLeaveSends DEF SocketInv
<1>7. t \notin scenario.closers /\ Carrier /\ ~closeDone
  BY <1>1, ScenarioFacts DEF SocketInv, CallsInv, CloseInv
<1>8. LockInv' /\ CloseInv' /\ CurrentInv'
  <2>1. /\ \A u \in scenario.closers : calls'[u] = calls[u]
        /\ \A u \in scenario.rebuilders \ {t} : calls'[u] = calls[u]
    BY <1>4, <1>7 DEF Callers
  <2>2. LockInv'
    BY <1>1, <1>4, <2>1 DEF SocketInv, CallsInv, LockInv, HoldsLock
  <2>3. CloseInv'
    BY <1>1, <2>1 DEF SocketInv, CallsInv, CloseInv, Closing
  <2>4. CurrentInv'
    BY <1>1, <1>7 DEF SocketInv, CallsInv, CurrentInv, Carrier
  <2>5. QED
    BY <2>2, <2>3, <2>4
<1>9. GenerationInv'
  <2>1. nextGen \in Nat /\ 1 <= nextGen /\ nextGen <= Len(conns)
    BY DEF SocketInv, CallsInv, GenerationInv, Types
  <2>2. nextGen < n
    BY <1>0, <1>1, <2>1
  <2>3. QED
    BY <1>1, <1>3, <2>1, <2>2 DEF GenerationInv
<1>10. SocketsInv'
  <2>1. \A c \in Conns : Silent(c) => Silent(c)'
    BY <1>3 DEF Silent
  <2>2. ASSUME NEW c \in Conns, Owned(c) PROVE Owned(c)'
    <3>1. PICK u \in Callers : calls[u].conn = c /\ calls[u].pc # "returned"
      BY <2>2 DEF Owned
    <3>2. u # t
      BY <1>1, <3>1 DEF Conns, NoConn
    <3>3. u \in Callers' /\ calls'[u].conn = c /\ calls'[u].pc # "returned"
      BY <1>4, <3>1, <3>2
    <3>4. QED
      BY <3>3 DEF Owned
  <2>3. Owned(n)'
    <3>1. t \in Callers' /\ calls'[t].conn = n /\ calls'[t].pc # "returned"
      BY <1>4
    <3>2. QED
      BY <3>1 DEF Owned
  <2>4. \A u \in scenario.rebuilders : calls[u].pc = "publish" => u = t
    BY <1>1 DEF SocketInv, CallsInv, LockInv, HoldsLock
  <2>5. n # current
    BY <1>3 DEF SocketInv, Types
  <2>6. \A u \in Callers \ {t} : calls'[u].pc = "drain" /\ calls'[u].conn # NoConn =>
            ~conns'[calls'[u].conn].open
    BY <1>3, <1>4 DEF SocketInv, SocketsInv
  <2>7. \A c \in Conns' \ {current} : (Silent(c) \/ Owned(c))'
    BY <1>3, <2>1, <2>2, <2>3 DEF SocketInv, SocketsInv
  <2>8. \A u \in Callers : /\ calls'[u].conn \in {NoConn} \cup Conns'
                           /\ calls'[u].pc \in {"idle", "begin", "dialing", "await"} =>
                                  calls'[u].conn = NoConn
    BY <1>3, <1>4 DEF SocketInv, SocketsInv
  <2>9. \A u \in scenario.rebuilders : calls'[u].pc = "publish" =>
            /\ calls'[u].conn \in Conns' \ {current}
            /\ conns'[calls'[u].conn].loop = "none" /\ conns'[calls'[u].conn].active = 0
    <3>1. \A u \in scenario.rebuilders : calls'[u].pc = "publish" => u = t
      BY <1>4, <2>4 DEF Callers
    <3>2. QED
      BY <1>2, <1>3, <1>4, <2>5, <3>1
  <2>10. QED
    BY <1>1, <1>4, <1>7, <2>6, <2>7, <2>8, <2>9 DEF SocketsInv
<1>11. QED
  BY <1>5, <1>6, <1>8, <1>9, <1>10 DEF SocketInv, CallsInv

\* The new socket is published and the old one taken for retirement; or the
\* Carrier was closed during the dial and the new socket is closed, unused.
LEMMA PublishKeepsInv ==
    ASSUME SocketInv, NEW t \in Callers, Publish(t)
    PROVE  SocketInv'
<1>0. PICK c \in Nat : c = calls[t].conn
  BY DEF SocketInv, Types, CallType
<1>1. /\ t \in scenario.rebuilders /\ t \notin scenario.closers /\ lifecycle = t /\ Carrier
      /\ calls[t].pc = "publish" /\ UNCHANGED <<scenario, closed, closeDone, sends>>
  <2>1. calls[t].pc = "publish" /\ UNCHANGED <<scenario, closed, closeDone, sends>>
    BY DEF Publish
  <2>2. t \in scenario.rebuilders
    BY <2>1 DEF SocketInv, CallsInv, LockInv, Callers
  <2>3. QED
    BY <2>1, <2>2, ScenarioFacts DEF SocketInv, CallsInv, LockInv, HoldsLock
<1>2. /\ c \in Conns /\ c # current /\ conns[c].loop = "none" /\ conns[c].active = 0
  BY <1>0, <1>1 DEF SocketInv, SocketsInv
<1>3. conns[c] \in ConnType /\ c # NoConn
  BY <1>2 DEF SocketInv, Types, Conns, NoConn
<1>4. ~closeDone /\ \A u \in scenario.rebuilders : u # t => ~HoldsLock(u)
  BY <1>1, ScenarioFacts DEF SocketInv, CallsInv, CloseInv, LockInv
<1>5. nextGen \in Nat /\ 1 <= nextGen /\ nextGen < Len(conns) /\ nextGen + 1 \in Nat
  BY <1>1 DEF SocketInv, CallsInv, GenerationInv, Types
<1>6. CASE closed
  <2> DEFINE r == [conns[c] EXCEPT !.open = FALSE]
  <2>1. /\ conns' = [conns EXCEPT ![c] = r] /\ lifecycle' = Nobody /\ Goto(t, "returned")
        /\ UNCHANGED <<current, nextGen>>
    BY <1>0, <1>6 DEF Publish
  <2>2. /\ r \in ConnType /\ ~r.open /\ r.writer = conns[c].writer /\ r.loop = conns[c].loop
        /\ r.deadline = conns[c].deadline /\ r.active = conns[c].active
    BY <1>3 DEF ConnType
  <2> HIDE DEF r
  <2>3. /\ conns' \in Seq(ConnType) /\ Len(conns') = Len(conns) /\ Conns' = Conns
        /\ conns'[c] = r /\ \A d \in Conns \ {c} : conns'[d] = conns[d]
    BY <1>2, <2>1, <2>2, ConnUpdate DEF SocketInv, Types
  <2>4. /\ calls' \in [Callers' -> CallType] /\ Callers' = Callers
        /\ calls'[t].pc = "returned" /\ calls'[t].conn = c
        /\ \A u \in Callers \ {t} : calls'[u] = calls[u]
    BY <1>0, <1>1, <2>1, CallUpdate DEF SocketInv
  <2>5. Types'
    BY <1>1, <2>1, <2>3, <2>4 DEF SocketInv, Types
  <2>6. SendsInv'
    <3>1. \A d \in Conns : /\ conns'[d].writer = conns[d].writer
                           /\ conns'[d].deadline = conns[d].deadline
                           /\ conns'[d].active = conns[d].active
                           /\ conns'[d].loop = conns[d].loop
      BY <2>2, <2>3
    <3>2. QED
      BY <1>1, <2>3, <3>1, CallsLeaveSends DEF SocketInv
  <2>7. CallsInv'
    <3>1. /\ \A u \in scenario.closers : calls'[u] = calls[u]
          /\ \A u \in scenario.rebuilders \ {t} : calls'[u] = calls[u]
      BY <1>1, <2>4 DEF Callers
    <3>2. LockInv'
      BY <1>1, <1>4, <2>1, <2>4, <3>1, ScenarioFacts DEF SocketInv, CallsInv, LockInv, HoldsLock
    <3>3. CloseInv'
      BY <1>1, <1>4, <2>1, <3>1 DEF SocketInv, CallsInv, CloseInv, Closing
    <3>4. CurrentInv' /\ GenerationInv'
      BY <1>1, <2>1, <2>3, <2>4, <3>1
         DEF SocketInv, CallsInv, CurrentInv, GenerationInv, Carrier
    <3>5. QED
      BY <3>2, <3>3, <3>4 DEF CallsInv
  <2>8. SocketsInv'
    <3>1. Silent(c)' /\ \A d \in Conns \ {c} : Silent(d) => Silent(d)'
      BY <1>2, <2>2, <2>3 DEF Silent
    <3>2. ASSUME NEW d \in Conns \ {c}, Owned(d) PROVE Owned(d)'
      <4>1. PICK u \in Callers : calls[u].conn = d /\ calls[u].pc # "returned"
        BY <3>2 DEF Owned
      <4>2. u \in Callers' /\ calls'[u].conn = d /\ calls'[u].pc # "returned"
        BY <1>0, <2>4, <4>1
      <4>3. QED
        BY <4>2 DEF Owned
    <3>3. \A d \in Conns' \ {current'} : (Silent(d) \/ Owned(d))'
      BY <2>1, <2>3, <3>1, <3>2 DEF SocketInv, SocketsInv
    <3>4. \A u \in Callers : calls'[u].conn = calls[u].conn
      BY <1>0, <2>4
    <3>5. \A u \in Callers : calls'[u].pc # "returned" => calls'[u] = calls[u]
      BY <2>4
    <3>6. \A u \in scenario.rebuilders : calls'[u].pc # "publish"
      BY <1>4, <2>4 DEF Callers, HoldsLock
    <3>7. \A u \in Callers : calls'[u].pc = "drain" /\ calls'[u].conn # NoConn =>
              ~conns'[calls'[u].conn].open
      BY <2>2, <2>3, <3>4, <3>5 DEF SocketInv, SocketsInv
    <3>8. QED
      BY <1>1, <1>4, <2>3, <2>4, <3>3, <3>4, <3>5, <3>6, <3>7 DEF SocketInv, SocketsInv
  <2>9. QED
    BY <2>5, <2>6, <2>7, <2>8 DEF SocketInv
<1>7. CASE ~closed
  <2>0. PICK old \in Nat : old = current
    BY DEF SocketInv, Types, Conns, NoConn
  <2> DEFINE r == [conns[c] EXCEPT !.number = nextGen + 1, !.loop = "reading"]
  <2>1. /\ conns' = [conns EXCEPT ![c] = r] /\ nextGen' = nextGen + 1 /\ current' = c
        /\ calls' = [calls EXCEPT ![t] = [pc |-> "retire", conn |-> old]]
        /\ UNCHANGED lifecycle
    BY <1>0, <1>7, <2>0 DEF Publish
  <2>2. /\ r \in ConnType /\ r.open = conns[c].open /\ r.writer = conns[c].writer
        /\ r.loop = "reading" /\ r.deadline = conns[c].deadline /\ r.active = conns[c].active
    BY <1>3, <1>5 DEF ConnType, LoopStates
  <2> HIDE DEF r
  <2>3. /\ conns' \in Seq(ConnType) /\ Len(conns') = Len(conns) /\ Conns' = Conns
        /\ conns'[c] = r /\ \A d \in Conns \ {c} : conns'[d] = conns[d]
    BY <1>2, <2>1, <2>2, ConnUpdate DEF SocketInv, Types
  <2>4. /\ calls' \in [Callers' -> CallType] /\ Callers' = Callers
        /\ calls'[t].pc = "retire" /\ calls'[t].conn = old
        /\ \A u \in Callers \ {t} : calls'[u] = calls[u]
    BY <1>1, <2>1, CallUpdate DEF SocketInv
  <2>5. Types'
    BY <1>1, <1>2, <1>5, <2>1, <2>3, <2>4 DEF SocketInv, Types
  <2>6. SendsInv'
    <3>1. \A d \in Conns : /\ conns'[d].writer = conns[d].writer
                           /\ conns'[d].deadline = conns[d].deadline
                           /\ conns'[d].active = conns[d].active
                           /\ conns'[d].loop = "callback" <=> conns[d].loop = "callback"
      BY <1>2, <2>2, <2>3
    <3>2. QED
      BY <1>1, <2>3, <3>1, CallsLeaveSends DEF SocketInv
  <2>7. CallsInv'
    <3>1. /\ \A u \in scenario.closers : calls'[u] = calls[u]
          /\ \A u \in scenario.rebuilders \ {t} : calls'[u] = calls[u]
      BY <1>1, <2>4 DEF Callers
    <3>2. LockInv'
      BY <1>1, <1>4, <2>1, <2>4, <3>1, ScenarioFacts DEF SocketInv, CallsInv, LockInv, HoldsLock
    <3>3. CloseInv'
      BY <1>1, <1>4, <2>1, <3>1 DEF SocketInv, CallsInv, CloseInv, Closing
    <3>4. CurrentInv'
      BY <1>1, <1>7, <2>1, <2>3, <2>4, <3>1 DEF SocketInv, CallsInv, CurrentInv, Carrier
    <3>5. GenerationInv'
      <4>1. \A u \in scenario.rebuilders : calls'[u].pc # "publish"
        BY <1>4, <2>4, <3>1 DEF HoldsLock
      <4>2. 1 <= nextGen + 1 /\ nextGen + 1 <= Len(conns)
        BY <1>5 DEF SocketInv, Types
      <4>3. QED
        BY <1>1, <2>1, <2>3, <4>1, <4>2 DEF GenerationInv
    <3>6. QED
      BY <3>2, <3>3, <3>4, <3>5 DEF CallsInv
  <2>8. SocketsInv'
    <3>1. \A d \in Conns \ {c} : Silent(d) => Silent(d)'
      BY <2>3 DEF Silent
    <3>2. ASSUME NEW d \in Conns \ {c}, Owned(d) PROVE Owned(d)'
      <4>1. PICK u \in Callers : calls[u].conn = d /\ calls[u].pc # "returned"
        BY <3>2 DEF Owned
      <4>2. u \in Callers' /\ calls'[u].conn = d /\ calls'[u].pc # "returned"
        BY <1>0, <2>4, <4>1
      <4>3. QED
        BY <4>2 DEF Owned
    <3>3. Owned(old)'
      <4>1. t \in Callers' /\ calls'[t].conn = old /\ calls'[t].pc # "returned"
        BY <2>4
      <4>2. QED
        BY <4>1 DEF Owned
    <3>4. \A d \in Conns' \ {current'} : (Silent(d) \/ Owned(d))'
      BY <2>0, <2>1, <2>3, <3>1, <3>2, <3>3 DEF SocketInv, SocketsInv
    <3>5. \A u \in scenario.rebuilders : calls'[u].pc # "publish"
      BY <1>4, <2>4 DEF Callers, HoldsLock
    <3>6. \A u \in Callers : /\ calls'[u].conn \in {NoConn} \cup Conns
                             /\ calls'[u].pc \in {"idle", "begin", "dialing", "await"} =>
                                    calls'[u].conn = NoConn
      BY <2>0, <2>4 DEF SocketInv, SocketsInv, Types
    <3>7. \A u \in Callers : calls'[u].pc = "drain" /\ calls'[u].conn # NoConn =>
              ~conns'[calls'[u].conn].open
      BY <2>2, <2>3, <2>4 DEF SocketInv, SocketsInv
    <3>8. QED
      BY <1>1, <1>4, <2>3, <2>4, <3>4, <3>5, <3>6, <3>7 DEF SocketsInv
  <2>9. QED
    BY <2>5, <2>6, <2>7, <2>8 DEF SocketInv
<1>8. QED
  BY <1>6, <1>7

----------------------------------------------------------------------------
(* The theorems                                                            *)

\* Every step of every goroutine keeps the ownership of sockets.
THEOREM SocketInvariant == SocketSpec => []SocketInv
<1>1. SocketInv /\ [SocketNext]_socketVars => SocketInv'
  <2> SUFFICES ASSUME SocketInv, [SocketNext]_socketVars PROVE SocketInv'
    OBVIOUS
  <2>1. ASSUME NEW t \in Callers, CallStep(t) PROVE SocketInv'
    BY <2>1, LockKeepsInv, DialedKeepsInv, PublishKeepsInv, RebuildReturnsKeepsInv,
       RetireKeepsInv, PassLifecycleKeepsInv, CloseReturnsKeepsInv DEF CallStep
  <2>2. ASSUME NEW s \in scenario.senders, SendStep(s) \/ ContextEnds(s) PROVE SocketInv'
    BY <2>2, SendEndsKeepsInv, WriteKeepsInv DEF SendStep
  <2>3. CASE UNCHANGED socketVars
    BY <2>3 DEF socketVars, SocketInv, Types, CallsInv, LockInv, CloseInv, CurrentInv, GenerationInv,
                HoldsLock, Closing, SocketsInv, Owned, Silent, SendsInv, SendsOn, Conns,
                Callers, Carrier
  <2>4. QED
    BY <2>1, <2>2, <2>3, BeginRebuildKeepsInv, BeginCloseKeepsInv, LoopKeepsInv,
       BeginSendKeepsInv DEF SocketNext
<1>2. QED
  BY <1>1, SocketStarts, PTL DEF SocketSpec

\* The counts stay within the bounds of SocketTypeOK: a socket has at most every sender
\* and its own callback on it.
LEMMA CountsBounded == SocketInv => SocketTypeOK
<1> SUFFICES ASSUME SocketInv PROVE SocketTypeOK
  OBVIOUS
<1>1. nextGen \in 1..Len(conns)
  BY DEF SocketInv, Types, CallsInv, GenerationInv
<1>2. ASSUME NEW c \in Conns
      PROVE  conns[c].active \in 0..(1 + Cardinality(scenario.senders))
  <2>1. Cardinality(SendsOn(c)) <= Cardinality(scenario.senders)
    <3>1. SendsOn(c) \subseteq scenario.senders
      BY DEF SendsOn
    <3>2. QED
      BY <3>1, ScenarioFacts, FS_Subset DEF SocketInv
  <2>2. Cardinality(SendsOn(c)) \in Nat /\ Cardinality(scenario.senders) \in Nat
    BY SendsOnFinite, ScenarioFacts, FS_CardinalityType DEF SocketInv
  <2>3. conns[c].active = Cardinality(SendsOn(c)) + (IF conns[c].loop = "callback" THEN 1 ELSE 0)
    BY DEF SocketInv, SendsInv
  <2>4. QED
    BY <2>1, <2>2, <2>3
<1>3. QED
  BY <1>1, <1>2 DEF SocketTypeOK, SocketInv, Types

\* After a Rebuild returns only the published socket and those another call is
\* busy with are in use; after any Close returns nothing is.  A send cancelled in
\* its write leaves no deadline on the socket.
THEOREM ReturnedCallsLeaveSilence == SocketSpec => []ReturnedMeansSilent
<1>1. SocketInv => ReturnedMeansSilent
  <2> SUFFICES ASSUME SocketInv PROVE ReturnedMeansSilent
    OBVIOUS
  <2>1. (\E t \in scenario.closers : calls[t].pc = "returned") => \A c \in Conns : Silent(c)
    BY DEF SocketInv, CallsInv, CloseInv, SocketsInv
  <2>2. \A c \in Conns \ {current} :
          Silent(c) \/ \E t \in Callers : calls[t].conn = c /\ calls[t].pc # "returned"
    BY DEF SocketInv, SocketsInv, Owned
  <2>3. QED
    BY <2>1, <2>2, CountsBounded DEF ReturnedMeansSilent, SocketInv, SendsInv
<1>2. QED
  BY <1>1, SocketInvariant, PTL

=============================================================================
