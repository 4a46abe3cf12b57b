---------------------------- MODULE HandshakeV2 ----------------------------
(***************************************************************************)
(* The v2 handshake (internal/handshakev2): HELLO, CHALLENGE, FINISH and   *)
(* READY between two engines over a network that loses, duplicates, delays *)
(* and reorders packets, with retries, expiry, rejection, cancellation,    *)
(* failing installers and a responder that may restart.                    *)
(*                                                                         *)
(* One dial of the initiator is modelled, over the carriers of a scenario. *)
(* A carrier is tried at most once, with a SessionID of its own, so a      *)
(* carrier's number stands for the SessionID and the HELLO of its attempt. *)
(* The nonce of a CHALLENGE is fresh and fixes the transcript and both     *)
(* directional keys: FINISH, READY and CLOSE authenticate iff they carry   *)
(* the nonce of the attempt that receives them.                            *)
(*                                                                         *)
(* An engine is a record, and the operators below map one to the next as   *)
(* the methods do; the packets a call emits gather in its field out.  A    *)
(* call is serialized by its owner, so each public method is one action.   *)
(***************************************************************************)
EXTENDS Integers, SequencesExt, NegotiationV2

CONSTANTS
    Lifetime, RetryInterval,    \* in ticks
    MaxPending, MaxRejections,
    MaxNonce,           \* bound: attempts the responder may open
    Profiles,           \* what sides are configured to negotiate, by name
    Scenarios           \* what the dial and the engines are configured with, see Scenario

\* mode: Install, InstallDeferred, or InstallDeferred with PrepareDial;
\* carriers, concurrent and deadline: the DialRequest; client and server: the
\* profiles of its HELLO and of the Listener; restarts bounds those of the responder.
Scenario == [mode : {"sync", "deferred", "prepared"}, carriers : Nat \ {0},
             concurrent : Nat \ {0}, deadline : Nat \ {0},
             maxSends : Nat \ {0, 1}, restarts : Nat,
             client : DOMAIN Profiles, server : DOMAIN Profiles]

ASSUME ScenariosAssumption ==
    /\ Scenarios \subseteq Scenario
    /\ \A c \in Scenarios : c.concurrent <= c.carriers
    /\ \A c \in Scenarios : c.mode = "prepared" => c.concurrent = 1
ASSUME ProfilesAssumption ==
    /\ \A name \in DOMAIN Profiles : Profiles[name] \in Profile /\ Validate(Profiles[name])
    /\ \A c \in Scenarios : c.carriers <= Profiles[c.client].paths
ASSUME TimesAssumption ==
    Lifetime \in Nat \ {0} /\ RetryInterval \in Nat \ {0}
ASSUME LimitsAssumption ==
    MaxPending \in Nat \ {0} /\ MaxRejections \in Nat /\ MaxNonce \in Nat

Ids == {n \in 1..MaxPaths : \E c \in Scenarios : n <= c.carriers}
Sides == {"initiator", "responder"}
\* Who owns a reserved scope: the attempt of a carrier, the responder's attempt
\* with a nonce, or 0, the prepared dial whose attempts share one.
Owners == Ids \cup 0..MaxNonce

VARIABLES
    scenario,   \* fixed
    engine,     \* [Sides -> Engine]
    msgs,       \* packets sent; any of them may arrive, at any time, any number of times
    nonces,     \* nonces drawn by the responder
    restarted,  \* times the responder restarted
    installed   \* history: <<side, id, nonce>> of every installed Session

vars == <<scenario, engine, msgs, nonces, restarted, installed>>

Phases == {"none", "waitChallenge", "waitFinish", "waitReady", "established"}
NoAttempt == [phase |-> "none", nonce |-> 0, ttl |-> 0, wait |-> 0, sends |-> 0,
              packets |-> FALSE, owner |-> 0]

\* What an owner holds.  storage stands for the Receive, Initial and disposal
\* leases, which are reserved and released together.
Nothing == [scope |-> "none", packet |-> FALSE, storage |-> "none",
            disposer |-> FALSE, given |-> FALSE, called |-> 0]
Reserved == [Nothing EXCEPT !.scope = "pending", !.packet = TRUE, !.storage = "held"]

NewEngine(side) ==
    [side |-> side, closed |-> FALSE, pending |-> 0,
     att |-> [id \in Ids |-> NoAttempt],
     dial |-> [phase |-> "none", next |-> 0, running |-> 0, ttl |-> 0],
     prepared |-> "none",
     rejections |-> [id \in {} |-> 0],
     res |-> [o \in Owners |-> Nothing],
     out |-> {}]

Init ==
    /\ scenario \in Scenarios
    /\ engine = [side \in Sides |-> NewEngine(side)]
    /\ msgs = {} /\ nonces = 0 /\ restarted = 0 /\ installed = {}

----------------------------------------------------------------------------
(* Operations on an engine.                                                *)

Live(e) == {id \in Ids : e.att[id].phase # "none"}
Packet(e, type, id) == [from |-> e.side, type |-> type, id |-> id, nonce |-> e.att[id].nonce]

\* Engine.send: the last transmission is kept for FINISH and READY.
CanSend(a) ==
    a.sends < IF a.phase \in {"waitChallenge", "waitFinish"}
              THEN scenario.maxSends - 1 ELSE scenario.maxSends

Send(e, id, type, transition) ==
    IF CanSend(e.att[id]) /\ (transition \/ e.att[id].wait = 0)
    THEN [e EXCEPT !.att[id].sends = @ + 1, !.att[id].wait = RetryInterval,
                   !.out = @ \cup {Packet(e, type, id)}]
    ELSE e

\* The packet an attempt repeats while it waits.
Retransmission(a) ==
    CASE a.phase = "waitChallenge" -> "HELLO"
      [] a.phase = "waitFinish"    -> "CHALLENGE"
      [] a.phase = "waitReady"     -> "FINISH"
      [] a.phase = "established"   -> "READY"

\* Engine.Receive picks the directional key, or the handshake key, and authenticates.
Authentic(a, m) == a.phase # "none" /\ a.nonce = m.nonce
\* prepareTranscript: both keys follow from the HELLO and the nonce of the CHALLENGE.
WithKeys(e, id, n) == [e EXCEPT !.att[id].nonce = n]

\* Engine.releasePackets; the deadline and the budget of an attempt mean nothing after it.
ReleasePackets(e, S) ==
    [e EXCEPT
        !.att = [id \in Ids |-> IF id \notin S THEN e.att[id] ELSE
                   [e.att[id] EXCEPT !.packets = FALSE, !.ttl = 0, !.wait = 0, !.sends = 0]],
        !.res = [o \in Owners |-> IF \E id \in S : e.att[id].owner = o
                                  THEN [e.res[o] EXCEPT !.packet = FALSE] ELSE e.res[o]]]

\* disposeAttempt and preparedDialState.retire: close the scope, run the
\* disposer if there is one, and release the storage, which a deferred
\* disposer does later.
Retired(r) ==
    IF r.storage # "held" THEN r ELSE
    [r EXCEPT !.scope = "closed", !.packet = FALSE, !.disposer = FALSE,
              !.called = IF r.disposer THEN @ + 1 ELSE @,
              !.storage = IF r.disposer /\ scenario.mode # "sync" THEN "retiring" ELSE "released"]
Retire(e, owners) ==
    [e EXCEPT !.res = [o \in Owners |-> IF o \in owners THEN Retired(e.res[o]) ELSE e.res[o]]]

DropDial(e) == [e EXCEPT !.dial = [phase |-> "over", next |-> e.dial.next, running |-> 0, ttl |-> 0]]

\* The attempt still belongs to the prepared dial: a.prepared # nil.
OfPrepared(e, a) == scenario.mode = "prepared" /\ e.side = "initiator" /\ a.phase # "established"

\* Mutant: a promoted scope is handed to the next carrier too.
MutantRecyclesPromoted(e, a) ==
    /\ OfPrepared(e, a) /\ ~e.closed
    /\ e.dial.phase = "open" /\ e.dial.next < scenario.carriers /\ e.dial.ttl > 0

\* recyclePreparedAttempt: the next carrier inherits the scope and the leases.
Recyclable(e, a) ==
    /\ OfPrepared(e, a) /\ ~e.closed
    /\ e.dial.phase = "open" /\ e.dial.next < scenario.carriers /\ e.dial.ttl > 0
    /\ e.res[a.owner].scope = "pending"

\* Engine.failAttempt, with sendClose and disposeAttempt, for the attempts of S:
\* one, or all that end in a call.
FailAttempts(e, S, notify) ==
    LET unfinished == {id \in S : e.att[id].phase # "established"}
        gone == [e EXCEPT
            !.att = [id \in Ids |-> IF id \in S THEN NoAttempt ELSE e.att[id]],
            !.out = @ \cup {Packet(e, "CLOSE", id) : id \in {i \in S : notify /\ e.att[i].nonce # 0}},
            !.pending = @ - Cardinality(unfinished),
            !.dial.running = IF e.dial.phase = "open" THEN @ - Cardinality(unfinished) ELSE @]
        over == {id \in S : ~Recyclable(gone, e.att[id])}
    IN  Retire(IF \E id \in over : OfPrepared(e, e.att[id]) THEN DropDial(gone) ELSE gone,
               {e.att[id].owner : id \in over})

FailAttempt(e, id, notify) == FailAttempts(e, {id} \cap Live(e), notify)

\* Engine.reserve: capacity for one more attempt.  The ledger may also refuse.
Capacity(e) == MaxPending - e.pending - (IF e.prepared = "waiting" THEN 1 ELSE 0)

\* startAttempt for the carriers in new, whose HELLO leaves at once.
StartAttempts(e, new) ==
    LET fresh(id) == [NoAttempt EXCEPT
            !.phase = "waitChallenge", !.packets = TRUE, !.sends = 1, !.wait = RetryInterval,
            !.ttl = Min({Lifetime, e.dial.ttl}),
            !.owner = IF scenario.mode = "prepared" THEN 0 ELSE id]
        filled == [e EXCEPT
            !.att = [id \in Ids |-> IF id \in new THEN fresh(id) ELSE e.att[id]],
            !.res = [o \in Owners |-> IF scenario.mode # "prepared" /\ o \in new
                                      THEN Reserved ELSE e.res[o]],
            !.pending = @ + Cardinality(new),
            !.dial.next = @ + Cardinality(new),
            !.dial.running = @ + Cardinality(new)]
    IN  [filled EXCEPT !.out = @ \cup {Packet(filled, "HELLO", id) : id \in new}]

\* fillDial, of which starts attempts begin before one fails to, and then the
\* end of a dial that has no attempt left.
FillDials(e, starts) ==
    IF e.dial.phase # "open" THEN e ELSE
    LET room == IF e.dial.ttl = 0 THEN 0 ELSE
                Min({starts, scenario.concurrent - e.dial.running, scenario.carriers - e.dial.next,
                     IF scenario.mode = "prepared" THEN 1 ELSE Capacity(e)})
        filled == StartAttempts(e, (e.dial.next + 1)..(e.dial.next + room))
    IN  IF filled.dial.running > 0 THEN filled
        ELSE IF scenario.mode = "prepared" THEN Retire(DropDial(filled), {0}) ELSE DropDial(filled)

\* Engine.install after Promote: the installer succeeds, or fails and returns a
\* disposer or none.  A synchronous installer's disposer runs before it returns.
Outcomes == {"ok", "failed", "failedWithDisposer"}

Install(e, id, outcome) ==
    LET o == e.att[id].owner
        promoted == [e EXCEPT !.res[o].scope = "open"]
        owned == [promoted EXCEPT !.res[o].disposer = TRUE, !.res[o].given = TRUE]
    IN  CASE outcome = "ok" ->
               [owned EXCEPT !.att[id].phase = "established", !.pending = @ - 1]
          [] outcome = "failed" -> FailAttempt(promoted, id, TRUE)
          [] outcome = "failedWithDisposer" ->
               FailAttempt(IF scenario.mode = "sync"
                           THEN [promoted EXCEPT !.res[o].given = TRUE, !.res[o].called = @ + 1]
                           ELSE owned, id, TRUE)

\* Engine.reject: one REJECT per HELLO and cache entry, and none when it is full.
Reject(e, id) ==
    LET cached == {i \in DOMAIN e.rejections : e.rejections[i] > 0}
    IN  IF id \in cached \/ Cardinality(cached) >= MaxRejections THEN e ELSE
    [e EXCEPT !.rejections = [i \in {id} \cup DOMAIN e.rejections |->
                                 IF i = id THEN Lifetime ELSE e.rejections[i]],
              !.out = @ \cup {Packet(e, "REJECT", id)}]

----------------------------------------------------------------------------
(* Actions.                                                                *)

\* A call on an open engine that turns it into e.
Commit(new) == \E e \in {new} :
    /\ ~engine[e.side].closed
    /\ e # engine[e.side]
    /\ engine' = [engine EXCEPT ![e.side] = [e EXCEPT !.out = {}]]
    /\ msgs' = msgs \cup e.out
    /\ installed' = installed \cup
         {<<e.side, id, e.att[id].nonce>> : id \in {i \in Ids : e.att[i].phase = "established"}}
    /\ UNCHANGED <<scenario, restarted>>

Silent == UNCHANGED nonces
I == engine["initiator"]
R == engine["responder"]

\* How many attempts a call may start: what the dial has left.
Starts(side) ==
    IF side = "responder" \/ I.dial.phase = "over" THEN {0}
    ELSE 0..Min({scenario.concurrent, scenario.carriers - I.dial.next})

OpenDial(e) == [e EXCEPT !.dial = [phase |-> "open", next |-> 0, running |-> 0,
                                   ttl |-> scenario.deadline]]

BeginDial(starts) ==
    /\ scenario.mode # "prepared" /\ I.dial.phase = "none"
    /\ Commit(FillDials(OpenDial(I), starts)) /\ Silent

PrepareDial ==
    /\ scenario.mode = "prepared" /\ I.prepared = "none" /\ Capacity(I) > 0
    /\ Commit([I EXCEPT !.prepared = "waiting",
                        !.res[0] = [Reserved EXCEPT !.disposer = TRUE, !.given = TRUE]])
    /\ Silent

BeginPreparedDial(starts) ==
    /\ I.prepared = "waiting"
    /\ Commit(FillDials(OpenDial([I EXCEPT !.prepared = "adopted"]), starts))
    /\ Silent

AbortPreparedDial ==
    /\ I.prepared = "waiting"
    /\ Commit(Retire([I EXCEPT !.prepared = "aborted"], {0})) /\ Silent

\* The contract of the attempt on a carrier, whose number is its bootstrap path.
Contracts == [c \in Scenarios |->
    [id \in Ids |-> Select(Profiles[c.client], id, Profiles[c.server])]]
Contract(id) == Contracts[scenario][id]

\* Engine.receiveHello.  An expired attempt makes way for a new one; admit says
\* whether the offers agree and the ledger grants the new attempt its reservation.
NewResponder(e, id, admit) ==
    IF ~admit THEN Reject(e, id) ELSE
    LET n == nonces + 1
    IN  Send(WithKeys([e EXCEPT !.att[id] = [NoAttempt EXCEPT
                                    !.phase = "waitFinish", !.ttl = Lifetime,
                                    !.packets = TRUE, !.owner = n],
                                !.res[n] = Reserved, !.pending = @ + 1], id, n),
             id, "CHALLENGE", TRUE)

ReceiveHello(id, admit) ==
    LET a == R.att[id]
        over == IF a.phase = "waitFinish" THEN FailAttempt(R, id, TRUE) ELSE R
    IN  /\ \E m \in msgs : m.type = "HELLO" /\ m.id = id
        /\ a.phase # "established"
        /\ IF a.phase = "waitFinish" /\ a.ttl > 0
           THEN ~admit /\ Commit(Send(R, id, "CHALLENGE", FALSE)) /\ Silent
           ELSE /\ admit => nonces < MaxNonce /\ Capacity(over) > 0 /\ Contract(id).valid
                /\ Commit(NewResponder(over, id, admit))
                /\ nonces' = IF admit THEN nonces + 1 ELSE nonces

\* Engine.Receive: the packets an attempt still expects; those with keys of their
\* own must have been made with the attempt's.
Expects(side, m) ==
    LET a == engine[side].att[m.id]
    IN  \/ /\ m.type \in {"CHALLENGE", "REJECT"} /\ side = "initiator"
           /\ a.phase \in {"waitChallenge", "waitReady"}
        \/ m.type = "FINISH" /\ side = "responder" /\ a.packets /\ Authentic(a, m)
        \/ m.type = "READY" /\ side = "initiator" /\ a.phase = "waitReady" /\ Authentic(a, m)
        \/ m.type = "CLOSE" /\ m.from # side /\ Authentic(a, m)

\* The common tail of Engine.Receive: an expired attempt fails, or gives up its
\* retry packets; then the dial is filled.
Receive(e, id, handled, starts) ==
    LET a == e.att[id]
    IN  /\ Commit(IF a.ttl > 0 THEN FillDials(handled, starts)
                  ELSE IF a.phase = "established" THEN ReleasePackets(e, {id})
                  ELSE FillDials(FailAttempt(e, id, TRUE), starts))
        /\ Silent

ReceiveChallenge(m, starts) ==
    LET a == I.att[m.id]
        keyed == [WithKeys(I, m.id, m.nonce) EXCEPT !.att[m.id].phase = "waitReady"]
    IN  /\ m.type = "CHALLENGE" /\ Expects("initiator", m)
        /\ Receive(I, m.id,
                   IF a.phase = "waitChallenge"
                   THEN IF Contract(m.id).valid THEN Send(keyed, m.id, "FINISH", TRUE) ELSE I
                   ELSE IF Authentic(a, m) THEN Send(I, m.id, "FINISH", FALSE)
                   ELSE I, starts)

ReceiveReject(m, starts) ==
    LET a == I.att[m.id]
    IN  /\ m.type = "REJECT" /\ Expects("initiator", m)
        /\ Receive(I, m.id,
                   IF a.phase = "waitChallenge" THEN FailAttempt(I, m.id, FALSE) ELSE I,
                   starts)

ReceiveFinish(m, outcome) ==
    LET a == R.att[m.id]
        done == Install(R, m.id, outcome)
    IN  /\ m.type = "FINISH" /\ Expects("responder", m)
        /\ Receive(R, m.id,
                   IF a.phase = "established" THEN Send(R, m.id, "READY", FALSE)
                   ELSE IF outcome = "ok" THEN Send(done, m.id, "READY", TRUE)
                   ELSE done, 0)

\* Mutant: the attempts that lost the race go on.
MutantLosersStay(m, outcome, starts) ==
    LET done == Install(I, m.id, outcome)
    IN  /\ m.type = "READY" /\ Expects("initiator", m)
        /\ Receive(I, m.id, IF outcome = "ok" THEN ReleasePackets(DropDial(done), {m.id}) ELSE done,
                   starts)

\* The first installed READY ends the dial and cancels its other attempts.
ReceiveReady(m, outcome, starts) ==
    LET done == Install(I, m.id, outcome)
        won == FailAttempts(DropDial(done), Live(done) \ {m.id}, TRUE)
    IN  /\ m.type = "READY" /\ Expects("initiator", m)
        /\ Receive(I, m.id, IF outcome = "ok" THEN ReleasePackets(won, {m.id}) ELSE done, starts)

ReceiveClose(m, side, starts) ==
    LET e == engine[side]
    IN  /\ m.type = "CLOSE" /\ Expects(side, m)
        /\ Commit(FillDials(FailAttempt(e, m.id, FALSE), starts)) /\ Silent

\* Mutant: an attempt without transmissions left has no deadline either.
MutantExhaustedForgotten(a) ==
    /\ a.phase # "none" /\ (a.phase = "established" => a.packets)
    /\ CanSend(a) /\ (a.ttl = 0 \/ a.wait = 0)

\* NextDeadline: is the engine's timer due?
AttemptDue(a) ==
    /\ a.phase # "none" /\ (a.phase = "established" => a.packets)
    /\ a.ttl = 0 \/ (CanSend(a) /\ a.wait = 0)

NextDeadline(e) ==
    \/ \E id \in Ids : AttemptDue(e.att[id])
    \/ \E id \in DOMAIN e.rejections : e.rejections[id] = 0

\* Each attempt repeats its packet.
Retransmit(e, S) ==
    [e EXCEPT
        !.att = [id \in Ids |-> IF id \notin S THEN e.att[id] ELSE
                   [e.att[id] EXCEPT !.sends = @ + 1, !.wait = RetryInterval]],
        !.out = @ \cup {Packet(e, Retransmission(e.att[id]), id) : id \in S}]

\* Expired attempts fail or give up their packets, the others send what is due.
AdvanceAttempts(e) ==
    LET late == {id \in Live(e) : e.att[id].ttl = 0}
        lapsed == {id \in late : e.att[id].phase = "established"}
        due == {id \in Live(e) \ late : /\ e.att[id].packets /\ CanSend(e.att[id])
                                        /\ e.att[id].wait = 0}
    IN  Retransmit(ReleasePackets(FailAttempts(e, late \ lapsed, TRUE), lapsed), due)

\* Engine.Advance, called when the timer is due.
Advance(side, starts) ==
    LET e == engine[side]
        kept == {id \in DOMAIN e.rejections : e.rejections[id] > 0}
    IN  /\ NextDeadline(e)
        /\ \E done \in {AdvanceAttempts([e EXCEPT !.rejections = Restrict(@, kept)])} :
             Commit(FillDials(done, starts))
        /\ Silent

CancelDial ==
    /\ I.dial.phase = "open"
    /\ Commit(FailAttempts(DropDial(I), {id \in Live(I) : I.att[id].phase # "established"}, TRUE))
    /\ Silent

CloseSession(side, id, starts) ==
    /\ id \in Live(engine[side])
    /\ Commit(FillDials(FailAttempt(engine[side], id, TRUE), starts)) /\ Silent

\* Engine.Close.
CloseEngine(side) ==
    LET e == [engine[side] EXCEPT !.closed = TRUE, !.rejections = [id \in {} |-> 0]]
        aborted == IF e.prepared = "waiting"
                   THEN Retire([e EXCEPT !.prepared = "aborted"], {0}) ELSE e
    IN  Commit(FailAttempts(DropDial(aborted), Live(e), TRUE)) /\ Silent

\* The adapter has cleared what the disposer gave it: retiredStorage.release.
ReleaseStorage(side, o) ==
    /\ engine[side].res[o].storage = "retiring"
    /\ engine' = [engine EXCEPT ![side].res[o].storage = "released"]
    /\ UNCHANGED <<scenario, msgs, nonces, restarted, installed>>

\* External: the responder's process dies and starts again, without its state.
Restart ==
    /\ restarted < scenario.restarts
    /\ engine' = [engine EXCEPT !["responder"] = NewEngine("responder")]
    /\ restarted' = restarted + 1
    /\ UNCHANGED <<scenario, msgs, nonces, installed>>

\* Time passes on both sides.
Earlier(t) == Max({t - 1, 0})
AgeAttempt(a) == [a EXCEPT !.ttl = Earlier(@), !.wait = Earlier(@)]
Age(e) == [e EXCEPT !.att = [id \in Ids |-> AgeAttempt(@[id])],
                    !.dial.ttl = Earlier(@),
                    !.rejections = [id \in DOMAIN @ |-> Earlier(@[id])]]

Tick ==
    /\ engine' = [side \in Sides |-> Age(engine[side])]
    /\ engine' # engine
    /\ UNCHANGED <<scenario, msgs, nonces, restarted, installed>>

Next ==
    \/ \E k \in Starts("initiator") : BeginDial(k) \/ BeginPreparedDial(k)
    \/ PrepareDial \/ AbortPreparedDial \/ CancelDial
    \/ \E id \in Ids, admit \in BOOLEAN : ReceiveHello(id, admit)
    \/ \E m \in msgs, k \in Starts("initiator") : ReceiveChallenge(m, k) \/ ReceiveReject(m, k)
    \/ \E m \in msgs, o \in Outcomes : ReceiveFinish(m, o)
    \/ \E m \in msgs, o \in Outcomes, k \in Starts("initiator") : ReceiveReady(m, o, k)
    \/ \E m \in msgs, side \in Sides : \E k \in Starts(side) : ReceiveClose(m, side, k)
    \/ \E side \in Sides : \E k \in Starts(side) : Advance(side, k)
    \/ \E side \in Sides, id \in Ids : \E k \in Starts(side) : CloseSession(side, id, k)
    \/ \E side \in Sides : CloseEngine(side)
    \/ \E side \in Sides, o \in Owners : ReleaseStorage(side, o)
    \/ Restart \/ Tick

Spec == Init /\ [][Next]_vars

\* Weak fairness of Advance, whose guard TimerDue stands for ENABLED: the
\* runtime's timer goroutine calls it when NextDeadline is due.
TimerDue(side) == NextDeadline(engine[side]) /\ ~engine[side].closed
TimerServed(side) ==
    []<>(~TimerDue(side)) \/ []<><<\E k \in Starts(side) : Advance(side, k)>>_vars

\* Time passes and timers are served.  Nothing is assumed of the network, of
\* the other side or of the callers.
FairSpec ==
    /\ Spec
    /\ WF_vars(Tick)
    /\ \A side \in Sides : TimerServed(side)

----------------------------------------------------------------------------
(* Properties.                                                             *)

Attempts == [phase : Phases, nonce : 0..MaxNonce, ttl : 0..Lifetime, wait : 0..RetryInterval,
             sends : 0..scenario.maxSends, packets : BOOLEAN, owner : Owners]
Holdings == [scope : {"none", "pending", "open", "closed"}, packet : BOOLEAN,
             storage : {"none", "held", "retiring", "released"},
             disposer : BOOLEAN, given : BOOLEAN, called : Nat]

TypeOK ==
    /\ scenario \in Scenarios /\ nonces \in 0..MaxNonce /\ restarted \in 0..scenario.restarts
    /\ \A side \in Sides :
         /\ engine[side].att \in [Ids -> Attempts]
         /\ engine[side].res \in [Owners -> Holdings]
         /\ engine[side].out = {}

\* Both sides mean the same Session: an initiator installs only a transcript the
\* responder installed before it, a responder installs a SessionID at most once
\* whatever is replayed to it and even across its restart, and the carriers a
\* dial raced yield one Session.  And the send budget always leaves the decisive
\* packet: a side that moved on has told the other so, however many retries its
\* first phase spent.
Agreement ==
    /\ \A s \in installed : s[1] = "initiator" => <<"responder", s[2], s[3]>> \in installed
    /\ \A s, t \in installed : s[1] = t[1] /\ s[2] = t[2] => s = t
    /\ Cardinality({s \in installed : s[1] = "initiator"}) <= 1
    /\ \A id \in Ids : I.att[id].phase = "waitReady" =>
         \E m \in msgs : m.type = "FINISH" /\ m.id = id /\ m.nonce = I.att[id].nonce
    /\ \A id \in Ids : R.att[id].phase = "established" =>
         \E m \in msgs : m.type = "READY" /\ m.id = id /\ m.nonce = R.att[id].nonce

\* The types, and the books of an engine are exact: pending counts the
\* unestablished attempts and never passes its limit, running counts those of
\* the open dial, a dial that has none is over, and a closed engine has no
\* attempt at all.
BooksExact == TypeOK /\
    \A side \in Sides :
        LET e == engine[side]
            waiting == {id \in Live(e) : e.att[id].phase # "established"}
        IN  /\ e.pending = Cardinality(waiting) /\ Capacity(e) >= 0
            /\ e.dial.phase = "open" =>
                   /\ e.dial.running = Cardinality(waiting) /\ waiting # {}
                   /\ Live(e) = waiting
            /\ side = "initiator" /\ e.dial.phase # "open" => waiting = {}
            /\ e.closed => Live(e) = {}

\* Every reservation has one owner and is given back once: the books are exact,
\* storage is held exactly by a live attempt or a preparation, its scope is promoted
\* exactly when the attempt is established and closed before its disposer runs, retry
\* packets are held only while they can be sent, and the disposer of every
\* preparation and installation runs once, never twice.
ResourcesOwned == BooksExact /\
    \A side \in Sides : \A o \in Owners :
        LET e == engine[side]
            r == e.res[o]
            users == {id \in Live(e) : e.att[id].owner = o}
            preparation == o = 0 /\ side = "initiator" /\ e.prepared = "waiting"
        IN  /\ Cardinality(users) <= 1
            /\ r.storage = "held" <=> users # {} \/ preparation
            /\ r.storage = "held" <=> r.scope \in {"pending", "open"}
            /\ \A id \in users :
                 r.scope = IF e.att[id].phase = "established" THEN "open" ELSE "pending"
            /\ r.packet <=> preparation \/ \E id \in users : e.att[id].packets
            /\ r.storage = "held" => r.called = 0 /\ r.disposer = r.given
            /\ r.storage \in {"retiring", "released"} => r.called = IF r.given THEN 1 ELSE 0

\* Whether two sides can speak, said without the steps of the negotiation: one
\* policy, what each requires the other offers, and a path both know.
Compatible(client, path, server) ==
    /\ \A f \in {"protocol", "data", "parity", "mux", "probes", "perCarrier"} :
         client[f] = server[f]
    /\ client.required \subseteq server.offered /\ server.required \subseteq client.offered
    /\ path <= client.paths /\ path <= server.paths
    /\ client.perCarrier /\ ~client.probes => client.paths <= server.paths

\* What a sender derives from the contract its receiver accepts.
Understands(receiver, sender) ==
    LET direction == EffectiveSend(sender, receiver)
    IN  /\ AcceptsBudget(receiver, sender, direction.udp)
        /\ AcceptsContext(receiver, sender, direction.udp, Context(sender, receiver))
        /\ direction.bytes <= receiver.limits.bytes
        /\ direction.fragments <= receiver.limits.fragments

\* Negotiation refuses exactly the pairs that cannot speak, and a Session is
\* installed only with a contract.  Between two sides of this version, which
\* offer the same capabilities, the controllers of both accept the contract, and
\* each accepts the budget and the encoding context the other derives from it,
\* so no Session comes up whose first packets are protocol errors.
ContractsKept ==
    LET client == Profiles[scenario.client]
        server == Profiles[scenario.server]
    IN  /\ \A id \in 1..scenario.carriers : Contract(id).valid <=> Compatible(client, id, server)
        /\ \A s \in installed : LET c == Contract(s[2]) IN
             /\ c.valid
             /\ Supported(client) /\ Supported(server) /\ client.offered = server.offered =>
                  /\ Constructs(c, client, c.client) /\ Constructs(c, server, c.server)
                  /\ Understands(c.server, c.client) /\ Understands(c.client, c.server)

\* Nothing waits for ever: with the timer set by NextDeadline, every attempt is
\* established or gone in the end, and the dial over, whatever the network does.
\* (Dials and responder attempts are bounded, so the end exists.)
Settled ==
    /\ \A side \in Sides, id \in Ids :
         engine[side].att[id].phase \in {"none", "established"}
    /\ I.dial.phase # "open"
Settles == <>[]Settled

============================================================================
