------------------------- MODULE HandshakeV2Proofs --------------------------
(***************************************************************************)
(* Proofs about HandshakeV2, for every set of scenarios and profiles and   *)
(* every limit: the two engines agree on the Session they install, a       *)
(* Session is installed only with a contract that both ends accept, and    *)
(* every reservation has one owner and is given back once.                 *)
(*                                                                         *)
(* The argument for agreement is about FINISH.  An initiator is on one     *)
(* carrier once, so all FINISH packets of a SessionID have the nonce of    *)
(* the first CHALLENGE that was answered; a responder installs only what a *)
(* FINISH says and sends READY only for what it installed; and the first   *)
(* READY that is installed leaves the initiator nothing else to install.   *)
(*                                                                         *)
(* The last part is about what an engine reserves.  Between two calls its  *)
(* books are Balanced: every live attempt has a reservation of its own, in *)
(* the state its phase says, and every other reservation was given back.   *)
(* Inside a call they may be off by the dial that has no attempt at the    *)
(* moment, or by the attempt whose installer has just failed: Booked is    *)
(* what every operator keeps, and FillDials balances the books again.      *)
(***************************************************************************)
EXTENDS HandshakeV2, FiniteSetTheorems, TLAPS

----------------------------------------------------------------------------
(* Types.                                                                  *)

PacketTypes == {"HELLO", "CHALLENGE", "FINISH", "READY", "REJECT", "CLOSE"}
Packets == [from : Sides, type : PacketTypes, id : Ids, nonce : 0..MaxNonce]
Dials == [phase : {"none", "open", "over"}, next : Nat, running : Int, ttl : Nat]
Rejections == UNION {[D -> 0..Lifetime] : D \in SUBSET Ids}
Engines ==
    [side : Sides, closed : BOOLEAN, pending : Int, att : [Ids -> Attempts], dial : Dials,
     prepared : {"none", "waiting", "adopted", "aborted"}, rejections : Rejections,
     res : [Owners -> Holdings], out : SUBSET Packets]

TypesInv ==
    /\ scenario \in Scenarios /\ nonces \in 0..MaxNonce /\ restarted \in 0..scenario.restarts
    /\ engine \in [Sides -> Engines]
    /\ \A side \in Sides : engine[side].side = side /\ engine[side].out = {}
    /\ msgs \in SUBSET Packets
    /\ installed \in SUBSET (Sides \X Ids \X (0..MaxNonce))

----------------------------------------------------------------------------
(* The inductive invariant.                                                *)

Finishes(sent, id) == {m \in sent : m.type = "FINISH" /\ m.id = id}

\* Of an attempt of the initiator, of whose SessionID the FINISH packets in F
\* have been sent: a carrier is tried once, and all its FINISH packets have one
\* nonce.
IAttempt(id, a, next, F) ==
    /\ a.phase \in {"none", "waitChallenge", "waitReady", "established"}
    /\ a.phase # "none" => id <= next
    /\ a.phase = "waitChallenge" => F = {} /\ a.sends < scenario.maxSends
    /\ a.phase = "waitReady" =>
         Contract(id).valid /\ F # {} /\ \A m \in F : m.nonce = a.nonce
    /\ a.phase = "established" => ~a.packets
    /\ F # {} => id <= next
    /\ \A m, n \in F : m.nonce = n.nonce

\* A prepared dial that has not begun.
Unopened(e) ==
    /\ scenario.mode = "prepared"
    /\ e.prepared = "waiting" \/ (e.prepared = "none" /\ ~e.closed)

InitiatorInv(e, sent) ==
    /\ e.dial.phase = "none" => e.dial.next = 0
    /\ e.prepared = "waiting" => scenario.mode = "prepared"
    /\ Unopened(e) => e.dial.phase = "none"
    /\ \A id \in Ids : IAttempt(id, e.att[id], e.dial.next, Finishes(sent, id))

\* Of an attempt of the responder: it has a contract, and once established it
\* has told the initiator so.
RAttempt(id, a, sent) ==
    /\ a.phase \in {"none", "waitFinish", "established"}
    /\ a.phase # "none" => Contract(id).valid
    /\ a.phase = "waitFinish" => a.sends < scenario.maxSends
    /\ a.phase = "established" =>
         \E m \in sent : m.type = "READY" /\ m.id = id /\ m.nonce = a.nonce

ResponderInv(e, sent) ==
    /\ e.dial.phase # "open"
    /\ \A id \in Ids : RAttempt(id, e.att[id], sent)

\* The dial has ended and left nothing that could still be installed.
Finished(e) ==
    e.dial.phase = "over" /\ \A id \in Ids : e.att[id].phase \in {"none", "established"}

\* Of what was installed.
InstalledInv ==
    /\ \A s \in installed : s[1] = "initiator" =>
         <<"responder", s[2], s[3]>> \in installed /\ Finished(I)
    /\ \A s, t \in installed : s[1] = "initiator" /\ t[1] = "initiator" => s = t
    /\ \A s \in installed : s[1] = "responder" =>
         Contract(s[2]).valid /\ \E m \in Finishes(msgs, s[2]) : m.nonce = s[3]
    /\ \A m \in msgs : m.type = "READY" => <<"responder", m.id, m.nonce>> \in installed
    /\ \A side \in Sides, id \in Ids : engine[side].att[id].phase = "established" =>
         <<side, id, engine[side].att[id].nonce>> \in installed

HandshakeInv ==
    /\ TypesInv
    /\ InitiatorInv(I, msgs) /\ ResponderInv(R, msgs)
    /\ InstalledInv

----------------------------------------------------------------------------
(* Constants and types.                                                    *)

LEMMA ScenarioFacts ==
    ASSUME NEW c \in Scenarios
    PROVE  /\ c.maxSends \in Nat /\ c.maxSends >= 2 /\ c.restarts \in Nat
           /\ c.carriers \in 1..MaxPaths /\ c.concurrent \in Nat /\ c.deadline \in Nat
           /\ \A n \in 1..c.carriers : n \in Ids
           /\ c.client \in DOMAIN Profiles /\ c.server \in DOMAIN Profiles
<1>1. c \in Scenario
  BY ScenariosAssumption
<1>2. /\ c.maxSends \in Nat \ {0, 1} /\ c.restarts \in Nat /\ c.carriers \in Nat \ {0}
      /\ c.concurrent \in Nat /\ c.deadline \in Nat
      /\ c.client \in DOMAIN Profiles /\ c.server \in DOMAIN Profiles
  BY <1>1 DEF Scenario
<1>3. Profiles[c.client].paths \in 1..MaxPaths /\ c.carriers <= Profiles[c.client].paths
  <2>1. Validate(Profiles[c.client]) /\ c.carriers <= Profiles[c.client].paths
    BY <1>2, ProfilesAssumption
  <2>2. ASSUME NEW p, Validate(p) PROVE p.paths \in 1..MaxPaths
    BY <2>2 DEF Validate
  <2>3. QED
    BY <2>1, <2>2
<1>4. c.carriers \in 1..MaxPaths
  BY <1>2, <1>3 DEF MaxPaths
<1>5. \A n \in 1..c.carriers : n \in Ids
  BY <1>2, <1>4 DEF Ids, MaxPaths
<1>6. QED
  BY <1>2, <1>4, <1>5

LEMMA IdsFinite ==
    /\ IsFiniteSet(Ids) /\ Ids \subseteq Nat /\ Ids \subseteq Owners /\ 0 \in Owners
    /\ \A S : S \subseteq Ids => IsFiniteSet(S) /\ Cardinality(S) \in Nat
<1>1. Ids \subseteq 1..MaxPaths
  BY DEF Ids
<1>2. IsFiniteSet(1..MaxPaths)
  <2>1. 1 \in Int /\ MaxPaths \in Int
    BY DEF MaxPaths
  <2>2. QED
    BY <2>1, FS_Interval, Zenon
<1>3. IsFiniteSet(Ids)
  BY <1>1, <1>2, FS_Subset
<1>4. \A S : S \subseteq Ids => IsFiniteSet(S) /\ Cardinality(S) \in Nat
  BY <1>3, FS_Subset, FS_CardinalityType
<1>5. 0 \in Owners /\ Ids \subseteq Owners
  BY LimitsAssumption DEF Owners
<1>6. QED
  BY <1>1, <1>3, <1>4, <1>5

LEMMA NoneTypes ==
    ASSUME scenario \in Scenarios
    PROVE  NoAttempt \in Attempts /\ Nothing \in Holdings /\ Reserved \in Holdings
<1>1. /\ 0 \in 0..MaxNonce /\ 0 \in 0..Lifetime /\ 0 \in 0..RetryInterval
      /\ 0 \in 0..scenario.maxSends /\ 0 \in Owners
  BY ScenarioFacts, IdsFinite, TimesAssumption, LimitsAssumption
<1>2. NoAttempt \in Attempts
  BY <1>1 DEF NoAttempt, Attempts, Phases
<1>3. Nothing \in Holdings /\ Reserved \in Holdings
  BY DEF Nothing, Reserved, Holdings
<1>4. QED
  BY <1>2, <1>3

\* What an engine has.
LEMMA EngineFields ==
    ASSUME NEW e \in Engines
    PROVE  /\ e.side \in Sides /\ e.closed \in BOOLEAN /\ e.pending \in Int
           /\ e.att \in [Ids -> Attempts] /\ e.dial \in Dials
           /\ e.prepared \in {"none", "waiting", "adopted", "aborted"}
           /\ e.rejections \in Rejections /\ e.res \in [Owners -> Holdings]
           /\ e.out \in SUBSET Packets
           /\ e.dial.phase \in {"none", "open", "over"} /\ e.dial.next \in Nat
           /\ e.dial.running \in Int /\ e.dial.ttl \in Nat
  BY DEF Engines, Dials

LEMMA AttemptFields ==
    ASSUME NEW a \in Attempts, scenario \in Scenarios
    PROVE  /\ a.phase \in Phases /\ a.nonce \in 0..MaxNonce /\ a.ttl \in 0..Lifetime
           /\ a.wait \in 0..RetryInterval /\ a.sends \in 0..scenario.maxSends
           /\ a.packets \in BOOLEAN /\ a.owner \in Owners
           /\ a.sends \in Nat /\ a.nonce \in Nat
           /\ CanSend(a) => a.sends + 1 \in 0..scenario.maxSends
<1>1. /\ a.phase \in Phases /\ a.nonce \in 0..MaxNonce /\ a.ttl \in 0..Lifetime
      /\ a.wait \in 0..RetryInterval /\ a.sends \in 0..scenario.maxSends
      /\ a.packets \in BOOLEAN /\ a.owner \in Owners
  BY DEF Attempts
<1>2. CanSend(a) => a.sends + 1 \in 0..scenario.maxSends
  BY <1>1, ScenarioFacts DEF CanSend
<1>3. QED
  BY <1>1, <1>2, ScenarioFacts, LimitsAssumption

LEMMA PacketTyped ==
    ASSUME NEW e \in Engines, NEW type \in PacketTypes, NEW id \in Ids, scenario \in Scenarios
    PROVE  /\ Packet(e, type, id) \in Packets
           /\ Packet(e, type, id).type = type /\ Packet(e, type, id).id = id
           /\ Packet(e, type, id).nonce = e.att[id].nonce
<1>1. e.att[id] \in Attempts /\ e.side \in Sides
  BY EngineFields
<1>2. e.att[id].nonce \in 0..MaxNonce
  BY <1>1, AttemptFields
<1>3. QED
  BY <1>1, <1>2 DEF Packet, Packets

----------------------------------------------------------------------------
(* What the operations make of an engine.                                  *)

\* disposeAttempt touches holdings only.
LEMMA RetireShape ==
    ASSUME NEW e \in Engines, NEW owners
    PROVE  /\ Retire(e, owners) \in Engines
           /\ Retire(e, owners) = [e EXCEPT !.res = Retire(e, owners).res]
<1> DEFINE res == [o \in Owners |-> IF o \in owners THEN Retired(e.res[o]) ELSE e.res[o]]
<1>1. ASSUME NEW r \in Holdings PROVE Retired(r) \in Holdings
  <2>1. r.called \in Nat /\ r.called + 1 \in Nat
    BY DEF Holdings
  <2>2. QED
    BY <2>1 DEF Retired, Holdings
<1>2. res \in [Owners -> Holdings]
  BY <1>1, EngineFields
<1>3. Retire(e, owners) = [e EXCEPT !.res = res]
  BY DEF Retire
<1> HIDE DEF res
<1>4. QED
  BY <1>2, <1>3 DEF Engines

LEMMA DropDialShape ==
    ASSUME NEW e \in Engines
    PROVE  /\ DropDial(e) \in Engines
           /\ DropDial(e) = [e EXCEPT !.dial = DropDial(e).dial]
           /\ DropDial(e).dial.phase = "over" /\ DropDial(e).dial.next = e.dial.next
<1> DEFINE d == [phase |-> "over", next |-> e.dial.next, running |-> 0, ttl |-> 0]
<1>1. d \in Dials /\ d.phase = "over" /\ d.next = e.dial.next
  BY EngineFields DEF Dials
<1>2. DropDial(e) = [e EXCEPT !.dial = d]
  BY DEF DropDial
<1> HIDE DEF d
<1>3. QED
  BY <1>1, <1>2 DEF Engines

\* Two engines with the same attempts, dial, preparation and packets.
SameTalk(e, n) ==
    /\ n \in Engines /\ n.side = e.side /\ n.att = e.att /\ n.dial = e.dial
    /\ n.prepared = e.prepared /\ n.closed = e.closed /\ n.out = e.out

LEMMA RetireTalk ==
    ASSUME NEW e \in Engines, NEW owners
    PROVE  SameTalk(e, Retire(e, owners))
<1> DEFINE n == Retire(e, owners)
           res == n.res
<1>1. n \in Engines /\ n = [e EXCEPT !.res = res]
  BY RetireShape
<1> HIDE DEF n, res
<1>2. SameTalk(e, n)
  BY <1>1 DEF Engines, SameTalk
<1>3. QED
  BY <1>2 DEF n

\* failAttempt: the attempts are gone, whoever has keys is told, and a dial may
\* end with them.
LEMMA FailShape ==
    ASSUME scenario \in Scenarios, NEW e \in Engines, NEW S \in SUBSET Ids, NEW notify \in BOOLEAN
    PROVE  LET n == FailAttempts(e, S, notify)
           IN  /\ n \in Engines /\ n.side = e.side /\ n.prepared = e.prepared /\ n.closed = e.closed
               /\ n.att = [id \in Ids |-> IF id \in S THEN NoAttempt ELSE e.att[id]]
               /\ e.out \subseteq n.out /\ \A m \in n.out : m \in e.out \/ m.type = "CLOSE"
               /\ n.dial.next = e.dial.next
               /\ n.dial.phase = e.dial.phase
                    \/ (n.dial.phase = "over" /\ \E id \in S : TRUE)
<1> DEFINE unfinished == {id \in S : e.att[id].phase # "established"}
           att == [id \in Ids |-> IF id \in S THEN NoAttempt ELSE e.att[id]]
           closes == {Packet(e, "CLOSE", id) : id \in {i \in S : notify /\ e.att[i].nonce # 0}}
           gone == [e EXCEPT
               !.att = [id \in Ids |-> IF id \in S THEN NoAttempt ELSE e.att[id]],
               !.out = @ \cup {Packet(e, "CLOSE", id) : id \in {i \in S : notify /\ e.att[i].nonce # 0}},
               !.pending = @ - Cardinality(unfinished),
               !.dial.running = IF e.dial.phase = "open" THEN @ - Cardinality(unfinished) ELSE @]
           over == {id \in S : ~Recyclable(gone, e.att[id])}
           ended == IF \E id \in over : OfPrepared(e, e.att[id]) THEN DropDial(gone) ELSE gone
           owners == {e.att[id].owner : id \in over}
           n == FailAttempts(e, S, notify)
           less == IF e.dial.phase = "open" THEN e.dial.running - Cardinality(unfinished)
                                            ELSE e.dial.running
           dial == [e.dial EXCEPT !.running = less]
           out == e.out \cup closes
           left == e.pending - Cardinality(unfinished)
<1>1. n = Retire(ended, owners)
  BY DEF FailAttempts
<1>2. Cardinality(unfinished) \in Nat
  BY IdsFinite
<1>3. att \in [Ids -> Attempts]
  BY NoneTypes, EngineFields
<1>4. closes \in SUBSET Packets /\ \A m \in closes : m.type = "CLOSE"
  BY PacketTyped DEF PacketTypes
<1>5. less \in Int /\ left \in Int
  BY <1>2, EngineFields
<1> HIDE DEF less, left, closes, att, unfinished
<1>6. dial \in Dials /\ dial.phase = e.dial.phase /\ dial.next = e.dial.next
  BY <1>5, EngineFields DEF Dials
<1>7. out \in SUBSET Packets
  BY <1>4, EngineFields
<1>8. gone = [e EXCEPT !.att = att, !.out = out, !.pending = left, !.dial = dial]
  BY EngineFields DEF Engines, att, less, left, closes
<1> HIDE DEF gone, out, dial
<1>9. gone \in Engines
  BY <1>3, <1>5, <1>6, <1>7, <1>8 DEF Engines
<1>10. /\ gone.side = e.side /\ gone.prepared = e.prepared /\ gone.closed = e.closed
       /\ gone.att = att
       /\ gone.out = out /\ gone.dial = dial
  BY <1>8 DEF Engines
<1>11. /\ ended \in Engines /\ ended.side = e.side /\ ended.prepared = e.prepared
       /\ ended.closed = e.closed
       /\ ended.att = att /\ ended.out = out /\ ended.dial.next = e.dial.next
       /\ ended.dial.phase = e.dial.phase \/ (ended.dial.phase = "over" /\ \E id \in S : TRUE)
  <2>1. CASE ended = gone
    BY <1>6, <1>9, <1>10, <2>1
  <2>2. CASE ended = DropDial(gone) /\ \E id \in over : TRUE
    <3> DEFINE x == DropDial(gone)
               d == x.dial
    <3>1. /\ x \in Engines /\ x = [gone EXCEPT !.dial = d]
          /\ d.phase = "over" /\ d.next = gone.dial.next
      BY <1>9, DropDialShape
    <3> HIDE DEF d, x
    <3>2. x.side = gone.side /\ x.prepared = gone.prepared /\ x.closed = gone.closed
      /\ x.att = gone.att /\ x.out = gone.out
      BY <1>9, <3>1 DEF Engines
    <3>3. x.dial = d
      BY <1>9, <3>1 DEF Engines
    <3>4. ended = x /\ \E id \in S : TRUE
      BY <2>2 DEF x
    <3> HIDE DEF ended
    <3>5. QED
      BY <1>6, <1>10, <3>1, <3>2, <3>3, <3>4
  <2>3. QED
    BY <2>1, <2>2
<1> HIDE DEF ended, owners, over
<1>12. SameTalk(ended, n)
  BY <1>1, <1>11, RetireTalk
<1> HIDE DEF n
<1>13. /\ n \in Engines /\ n.side = e.side /\ n.prepared = e.prepared /\ n.closed = e.closed
       /\ n.att = att
       /\ n.out = out /\ n.dial.next = e.dial.next
       /\ n.dial.phase = e.dial.phase \/ (n.dial.phase = "over" /\ \E id \in S : TRUE)
  BY <1>11, <1>12 DEF SameTalk
<1>14. e.out \subseteq n.out /\ \A m \in n.out : m \in e.out \/ m.type = "CLOSE"
  BY <1>4, <1>13 DEF out
<1>15. QED
  BY <1>13, <1>14 DEF n, att

----------------------------------------------------------------------------
(* Packets repeated and given up: Send, Retransmit and ReleasePackets.     *)

\* A packet that an attempt repeats while it waits.
Says(e, m) ==
    /\ m \in Packets /\ e.att[m.id].phase # "none"
    /\ m.type = Retransmission(e.att[m.id]) /\ m.nonce = e.att[m.id].nonce
    /\ e.att[m.id].phase = "established" => e.att[m.id].packets

\* An attempt that stays where it is.
Kept(a, b) ==
    /\ b.phase = a.phase /\ b.nonce = a.nonce /\ (b.packets => a.packets)
    /\ a.phase \in {"waitChallenge", "waitFinish"} /\ a.sends < scenario.maxSends =>
         b.sends < scenario.maxSends

Repeats(e, n) ==
    /\ n \in Engines /\ n.side = e.side /\ n.prepared = e.prepared /\ n.closed = e.closed
    /\ n.dial = e.dial
    /\ \A id \in Ids : Kept(e.att[id], n.att[id])
    /\ e.out \subseteq n.out /\ \A m \in n.out : m \in e.out \/ Says(e, m)

LEMMA RetransmissionType ==
    ASSUME NEW a, a.phase \in Phases, a.phase # "none"
    PROVE  /\ Retransmission(a) \in PacketTypes
           /\ Retransmission(a) = "FINISH" => a.phase = "waitReady"
           /\ Retransmission(a) = "READY" => a.phase = "established"
           /\ a.phase = "waitReady" => Retransmission(a) = "FINISH"
           /\ a.phase = "established" => Retransmission(a) = "READY"
           /\ a.phase = "waitFinish" => Retransmission(a) = "CHALLENGE"
  BY DEF Retransmission, PacketTypes, Phases

\* The attempt after one more transmission.
LEMMA AnotherSend ==
    ASSUME scenario \in Scenarios, NEW a \in Attempts, CanSend(a)
    PROVE  LET b == [a EXCEPT !.sends = @ + 1, !.wait = RetryInterval]
           IN  b \in Attempts /\ Kept(a, b)
<1> DEFINE b == [a EXCEPT !.sends = @ + 1, !.wait = RetryInterval]
<1>1. a.sends + 1 \in 0..scenario.maxSends /\ RetryInterval \in 0..RetryInterval
  BY AttemptFields, TimesAssumption
<1>2. b \in Attempts
  BY <1>1 DEF Attempts
<1>3. b.phase = a.phase /\ b.nonce = a.nonce /\ b.packets = a.packets /\ b.sends = a.sends + 1
  BY DEF Attempts
<1>4. scenario.maxSends \in Nat /\ a.sends \in Nat
  BY ScenarioFacts, AttemptFields
<1>5. a.phase \in {"waitChallenge", "waitFinish"} => a.sends < scenario.maxSends - 1
  BY DEF CanSend
<1>6. a.phase \in {"waitChallenge", "waitFinish"} => b.sends < scenario.maxSends
  BY <1>3, <1>4, <1>5
<1> HIDE DEF b
<1>7. b \in Attempts /\ Kept(a, b)
  BY <1>2, <1>3, <1>6 DEF Kept
<1>8. QED
  BY <1>7 DEF b

LEMMA SendRepeats ==
    ASSUME scenario \in Scenarios, NEW e \in Engines, NEW id \in Ids, NEW type, NEW transition,
           e.att[id].phase # "none", type = Retransmission(e.att[id]),
           e.att[id].phase = "established" => e.att[id].packets
    PROVE  /\ Repeats(e, Send(e, id, type, transition))
           /\ CanSend(e.att[id]) /\ transition =>
                Packet(e, type, id) \in Send(e, id, type, transition).out
<1> DEFINE n == Send(e, id, type, transition)
           a == e.att[id]
           b == [a EXCEPT !.sends = @ + 1, !.wait = RetryInterval]
           att == [e.att EXCEPT ![id] = b]
           m == Packet(e, type, id)
           out == e.out \cup {m}
<1>1. a \in Attempts /\ a.phase \in Phases
  BY EngineFields, AttemptFields
<1>2. type \in PacketTypes
  BY <1>1, RetransmissionType
<1>3. m \in Packets /\ m.type = type /\ m.id = id /\ m.nonce = a.nonce
  BY <1>2, PacketTyped
<1>4. CASE CanSend(a) /\ (transition \/ a.wait = 0)
  <2>1. n = [e EXCEPT !.att = att, !.out = out]
    BY <1>4, EngineFields DEF Send, Engines
  <2>2. b \in Attempts /\ Kept(a, b)
    BY <1>1, <1>4, AnotherSend
  <2>3. Says(e, m)
    BY <1>3 DEF Says
  <2> HIDE DEF b, m, n
  <2>4. att \in [Ids -> Attempts] /\ att[id] = b /\ \A i \in Ids : i # id => att[i] = e.att[i]
    BY <2>2, EngineFields
  <2>5. out \in SUBSET Packets
    BY <1>3, EngineFields
  <2> HIDE DEF att, out
  <2>6. /\ n \in Engines /\ n.side = e.side /\ n.prepared = e.prepared /\ n.closed = e.closed
        /\ n.dial = e.dial
        /\ n.att = att /\ n.out = out
    BY <2>1, <2>4, <2>5 DEF Engines
  <2>7. \A i \in Ids : Kept(e.att[i], n.att[i])
    BY <2>2, <2>4, <2>6 DEF Kept
  <2>8. Repeats(e, n) /\ m \in n.out
    BY <2>3, <2>6, <2>7 DEF Repeats, out
  <2>9. QED
    BY <2>8 DEF n, m
<1>5. CASE ~(CanSend(a) /\ (transition \/ a.wait = 0))
  <2>1. n = e
    BY <1>5 DEF Send
  <2>2. Repeats(e, e)
    BY DEF Repeats, Kept
  <2>3. QED
    BY <1>5, <2>1, <2>2
<1>6. QED
  BY <1>4, <1>5

LEMMA RetransmitRepeats ==
    ASSUME scenario \in Scenarios, NEW e \in Engines, NEW S \in SUBSET Ids,
           \A id \in S : e.att[id].phase # "none" /\ e.att[id].packets /\ CanSend(e.att[id])
    PROVE  Repeats(e, Retransmit(e, S))
<1> DEFINE n == Retransmit(e, S)
           sent(id) == [e.att[id] EXCEPT !.sends = @ + 1, !.wait = RetryInterval]
           att == [id \in Ids |-> IF id \notin S THEN e.att[id] ELSE sent(id)]
           said == {Packet(e, Retransmission(e.att[id]), id) : id \in S}
           out == e.out \cup said
<1>1. ASSUME NEW id \in S PROVE sent(id) \in Attempts /\ Kept(e.att[id], sent(id))
  BY AnotherSend, EngineFields
<1>2. ASSUME NEW id \in S
      PROVE  LET m == Packet(e, Retransmission(e.att[id]), id) IN m \in Packets /\ Says(e, m)
  <2> DEFINE type == Retransmission(e.att[id])
             m == Packet(e, type, id)
  <2>1. e.att[id].phase \in Phases
    BY EngineFields, AttemptFields
  <2>2. type \in PacketTypes
    BY <2>1, RetransmissionType
  <2> HIDE DEF type
  <2>3. m \in Packets /\ m.type = type /\ m.id = id /\ m.nonce = e.att[id].nonce
    BY <2>2, PacketTyped
  <2> HIDE DEF m
  <2>4. m \in Packets /\ Says(e, m)
    BY <2>3 DEF Says, type
  <2>5. QED
    BY <2>4 DEF m, type
<1>3. n = [e EXCEPT !.att = att, !.out = out]
  BY DEF Retransmit
<1>4. said \subseteq Packets /\ \A m \in said : Says(e, m)
  BY <1>2
<1> HIDE DEF sent, said, n
<1>5. att \in [Ids -> Attempts]
  BY <1>1, EngineFields
<1>6. out \in SUBSET Packets
  BY <1>4, EngineFields
<1>7. \A id \in Ids : Kept(e.att[id], att[id])
  BY <1>1 DEF Kept
<1> HIDE DEF att, out
<1>8. /\ n \in Engines /\ n.side = e.side /\ n.prepared = e.prepared /\ n.closed = e.closed
      /\ n.dial = e.dial
      /\ n.att = att /\ n.out = out
  BY <1>3, <1>5, <1>6 DEF Engines
<1>9. Repeats(e, n)
  BY <1>4, <1>7, <1>8 DEF Repeats, out
<1>10. QED
  BY <1>9 DEF n

LEMMA ReleaseRepeats ==
    ASSUME scenario \in Scenarios, NEW e \in Engines, NEW S \in SUBSET Ids
    PROVE  /\ Repeats(e, ReleasePackets(e, S))
           /\ ReleasePackets(e, S).out = e.out
           /\ \A id \in S : ~ReleasePackets(e, S).att[id].packets
           /\ \A id \in Ids \ S : ReleasePackets(e, S).att[id] = e.att[id]
<1> DEFINE n == ReleasePackets(e, S)
           bare(id) == [e.att[id] EXCEPT !.packets = FALSE, !.ttl = 0, !.wait = 0, !.sends = 0]
           att == [id \in Ids |-> IF id \notin S THEN e.att[id] ELSE bare(id)]
           res == [o \in Owners |-> IF \E id \in S : e.att[id].owner = o
                                    THEN [e.res[o] EXCEPT !.packet = FALSE] ELSE e.res[o]]
<1>1. /\ 0 \in 0..Lifetime /\ 0 \in 0..RetryInterval /\ 0 \in 0..scenario.maxSends
      /\ 0 < scenario.maxSends
  BY ScenarioFacts, TimesAssumption
<1>2. ASSUME NEW id \in Ids
      PROVE  bare(id) \in Attempts /\ Kept(e.att[id], bare(id)) /\ ~bare(id).packets
  <2>1. e.att[id] \in Attempts
    BY EngineFields
  <2>2. ASSUME NEW a \in Attempts, NEW f \in BOOLEAN, NEW zero,
               zero \in 0..Lifetime, zero \in 0..RetryInterval, zero \in 0..scenario.maxSends
        PROVE  LET b == [a EXCEPT !.packets = f, !.ttl = zero, !.wait = zero, !.sends = zero]
               IN  /\ b \in Attempts /\ b.phase = a.phase /\ b.nonce = a.nonce
                   /\ b.packets = f /\ b.sends = zero
    BY <2>2 DEF Attempts
  <2>3. LET b == bare(id) IN
        /\ b \in Attempts /\ b.phase = e.att[id].phase /\ b.nonce = e.att[id].nonce
        /\ b.packets = FALSE /\ b.sends = 0
    BY <1>1, <2>1, <2>2
  <2> HIDE DEF bare
  <2>4. QED
    BY <1>1, <2>3 DEF Kept
<1>3. n = [e EXCEPT !.att = att, !.res = res]
  BY DEF ReleasePackets
<1> HIDE DEF bare, n
<1>4. att \in [Ids -> Attempts]
  BY <1>2, EngineFields
<1>5. res \in [Owners -> Holdings]
  <2>1. \A r \in Holdings : [r EXCEPT !.packet = FALSE] \in Holdings
    BY DEF Holdings
  <2>2. QED
    BY <2>1, EngineFields
<1>6. \A id \in Ids : Kept(e.att[id], att[id]) /\ (id \in S => ~att[id].packets)
  BY <1>2 DEF Kept
<1>10. \A id \in Ids \ S : att[id] = e.att[id]
  OBVIOUS
<1> HIDE DEF att, res
<1>7. /\ n \in Engines /\ n.side = e.side /\ n.prepared = e.prepared /\ n.closed = e.closed
      /\ n.dial = e.dial
      /\ n.att = att /\ n.out = e.out
  BY <1>3, <1>4, <1>5 DEF Engines
<1>8. Repeats(e, n) /\ n.out = e.out /\ \A id \in S : ~n.att[id].packets
  BY <1>6, <1>7 DEF Repeats
<1>9. QED
  BY <1>7, <1>8, <1>10 DEF n

----------------------------------------------------------------------------
(* The initiator's engine during a call.                                   *)

IGood(e) == e \in Engines /\ InitiatorInv(e, msgs \cup e.out)

\* A step of an engine that installs nothing.
Goes(e, n) ==
    /\ n \in Engines /\ n.side = e.side
    /\ \A id \in Ids : n.att[id].phase = "established" =>
         e.att[id].phase = "established" /\ n.att[id].nonce = e.att[id].nonce
    /\ Finished(e) => Finished(n)
    /\ e.out \subseteq n.out /\ \A m \in n.out : m \in e.out \/ m.type # "READY"

LEMMA GoesOn ==
    ASSUME NEW e, NEW x, NEW n, Goes(e, x), Goes(x, n)
    PROVE  Goes(e, n)
  BY DEF Goes

LEMMA SameFinishes ==
    ASSUME NEW e, NEW n, e.out \subseteq n.out, \A m \in n.out : m \in e.out \/ m.type # "FINISH"
    PROVE  \A id : Finishes(msgs \cup n.out, id) = Finishes(msgs \cup e.out, id)
  BY DEF Finishes

LEMMA IRepeatsOne ==
    ASSUME scenario \in Scenarios, NEW e \in Engines, NEW n, Repeats(e, n), NEW id \in Ids,
           IAttempt(id, e.att[id], e.dial.next, Finishes(msgs \cup e.out, id))
    PROVE  IAttempt(id, n.att[id], n.dial.next, Finishes(msgs \cup n.out, id))
<1> DEFINE F == Finishes(msgs \cup e.out, id)
           G == Finishes(msgs \cup n.out, id)
           a == e.att[id]
           b == n.att[id]
<1>1. IAttempt(id, a, e.dial.next, F) /\ n.dial = e.dial
  BY DEF Repeats
<1>2. Kept(a, b)
  BY DEF Repeats
<1>3. a.phase \in Phases
  BY EngineFields, AttemptFields
<1>4. F \subseteq G
  BY DEF Finishes, Repeats
<1>5. ASSUME NEW m \in G, m \notin F PROVE a.phase = "waitReady" /\ m.nonce = a.nonce
  <2>1. m.type = "FINISH" /\ m.id = id /\ Says(e, m)
    BY <1>5 DEF Finishes, Repeats
  <2>2. QED
    BY <1>3, <2>1, RetransmissionType DEF Says
<1> HIDE DEF F, G, a, b
<1>6. a.phase = "waitChallenge" => G = {}
  BY <1>1, <1>5 DEF IAttempt
<1>7. a.phase = "waitReady" => \A m \in G : m.nonce = a.nonce
  BY <1>1, <1>5 DEF IAttempt
<1>8. a.phase # "waitReady" => G = F
  BY <1>4, <1>5
<1>9. IAttempt(id, b, e.dial.next, G)
  BY <1>1, <1>2, <1>4, <1>6, <1>7, <1>8 DEF IAttempt, Kept
<1>10. QED
  BY <1>1, <1>9 DEF b, G

LEMMA IRepeats ==
    ASSUME scenario \in Scenarios, NEW e, IGood(e), NEW n, Repeats(e, n)
    PROVE  IGood(n) /\ Goes(e, n)
<1>1. e \in Engines /\ InitiatorInv(e, msgs \cup e.out)
  BY DEF IGood
<1>2. ASSUME NEW id \in Ids
      PROVE  IAttempt(id, n.att[id], n.dial.next, Finishes(msgs \cup n.out, id))
  BY <1>1, IRepeatsOne DEF InitiatorInv
<1>3. IGood(n)
  BY <1>1, <1>2 DEF IGood, InitiatorInv, Repeats, Unopened
<1>4. ASSUME NEW m \in n.out, m \notin e.out PROVE m.type # "READY"
  <2>1. Says(e, m)
    BY <1>4 DEF Repeats
  <2>2. m.id \in Ids
    BY <2>1 DEF Says, Packets
  <2>3. e.att[m.id].phase \in Phases
    BY <1>1, <2>2, EngineFields, AttemptFields
  <2>4. e.att[m.id].phase # "established"
    BY <1>1, <2>1, <2>2 DEF InitiatorInv, IAttempt, Says
  <2>5. QED
    BY <2>1, <2>3, <2>4, RetransmissionType DEF Says
<1>5. Goes(e, n)
  BY <1>4 DEF Goes, Repeats, Kept, Finished
<1>6. QED
  BY <1>3, <1>5

LEMMA IFails ==
    ASSUME scenario \in Scenarios, NEW e, IGood(e), NEW S \in SUBSET Ids, S \subseteq Live(e),
           NEW notify \in BOOLEAN
    PROVE  LET n == FailAttempts(e, S, notify)
           IN  IGood(n) /\ Goes(e, n)
<1> DEFINE n == FailAttempts(e, S, notify)
<1>1. e \in Engines /\ InitiatorInv(e, msgs \cup e.out)
  BY DEF IGood
<1>2. /\ n \in Engines /\ n.side = e.side /\ n.prepared = e.prepared /\ n.closed = e.closed
      /\ n.att = [id \in Ids |-> IF id \in S THEN NoAttempt ELSE e.att[id]]
      /\ e.out \subseteq n.out /\ \A m \in n.out : m \in e.out \/ m.type = "CLOSE"
      /\ n.dial.next = e.dial.next
      /\ n.dial.phase = e.dial.phase \/ (n.dial.phase = "over" /\ \E id \in S : TRUE)
  BY <1>1, FailShape
<1> HIDE DEF n
<1>3. \A id : Finishes(msgs \cup n.out, id) = Finishes(msgs \cup e.out, id)
  BY <1>2, SameFinishes
<1>4. NoAttempt.phase = "none"
  BY DEF NoAttempt
<1>5. ASSUME NEW id \in Ids
      PROVE  IAttempt(id, n.att[id], n.dial.next, Finishes(msgs \cup n.out, id))
  <2>1. IAttempt(id, e.att[id], e.dial.next, Finishes(msgs \cup e.out, id))
    BY <1>1 DEF InitiatorInv
  <2>2. n.att[id] = NoAttempt \/ n.att[id] = e.att[id]
    BY <1>2
  <2> DEFINE a == e.att[id]
             b == n.att[id]
             next == e.dial.next
             F == Finishes(msgs \cup e.out, id)
  <2>3. IAttempt(id, a, next, F) /\ (b.phase = "none" \/ b = a)
    BY <1>4, <2>1, <2>2
  <2> HIDE DEF a, b, next, F
  <2>4. IAttempt(id, b, next, F)
    BY <2>3 DEF IAttempt
  <2>5. QED
    BY <1>2, <1>3, <2>4 DEF b, next, F
<1>6. Unopened(e) => S = {}
  <2>1. SUFFICES ASSUME Unopened(e), NEW id \in S PROVE FALSE
    OBVIOUS
  <2>2. e.dial.next = 0
    BY <1>1, <2>1 DEF InitiatorInv
  <2>3. id \in Ids /\ e.att[id].phase # "none"
    BY DEF Live
  <2>4. id <= 0
    BY <1>1, <2>2, <2>3 DEF InitiatorInv, IAttempt
  <2>5. QED
    BY <2>3, <2>4 DEF Ids
<1>7. InitiatorInv(n, msgs \cup n.out)
  BY <1>1, <1>2, <1>5, <1>6 DEF InitiatorInv, Unopened
<1>8. Goes(e, n)
  BY <1>2, <1>4 DEF Goes, Finished
<1>9. QED
  BY <1>2, <1>7, <1>8 DEF n, IGood

LEMMA IFailsOne ==
    ASSUME scenario \in Scenarios, NEW e, IGood(e), NEW id, NEW notify \in BOOLEAN
    PROVE  LET n == FailAttempt(e, id, notify)
           IN  IGood(n) /\ Goes(e, n)
<1>1. {id} \cap Live(e) \in SUBSET Ids /\ {id} \cap Live(e) \subseteq Live(e)
  BY DEF Live
<1>2. QED
  BY <1>1, IFails DEF FailAttempt

LEMMA ITalks ==
    ASSUME NEW e, IGood(e), NEW n, SameTalk(e, n)
    PROVE  IGood(n) /\ Goes(e, n)
<1>1. e \in Engines /\ InitiatorInv(e, msgs \cup e.out)
  BY DEF IGood
<1>2. IGood(n)
  BY <1>1 DEF IGood, SameTalk, InitiatorInv, Unopened
<1>3. Goes(e, n)
  BY DEF SameTalk, Goes, Finished
<1>4. QED
  BY <1>2, <1>3

LEMMA IDrops ==
    ASSUME NEW e, IGood(e), ~Unopened(e)
    PROVE  LET n == DropDial(e)
           IN  /\ IGood(n) /\ Goes(e, n) /\ n.dial.phase = "over"
               /\ n.att = e.att /\ n.out = e.out /\ n.prepared = e.prepared /\ n.closed = e.closed
<1> DEFINE n == DropDial(e)
           d == n.dial
<1>1. e \in Engines /\ InitiatorInv(e, msgs \cup e.out)
  BY DEF IGood
<1>2. n \in Engines /\ n = [e EXCEPT !.dial = d] /\ d.phase = "over" /\ d.next = e.dial.next
  BY <1>1, DropDialShape
<1> HIDE DEF n, d
<1>3. /\ n.side = e.side /\ n.att = e.att /\ n.out = e.out /\ n.prepared = e.prepared
      /\ n.closed = e.closed
      /\ n.dial = d
  BY <1>1, <1>2 DEF Engines
<1>4. IGood(n)
  BY <1>1, <1>2, <1>3 DEF IGood, InitiatorInv, Unopened
<1>5. Goes(e, n)
  BY <1>2, <1>3 DEF Goes, Finished
<1>6. QED
  BY <1>2, <1>3, <1>4, <1>5 DEF n

----------------------------------------------------------------------------
(* Filling the dial.                                                       *)

LEMMA MinTwo ==
    ASSUME NEW a \in Int, NEW b \in Int
    PROVE  Min({a, b}) \in {a, b} /\ Min({a, b}) <= a /\ Min({a, b}) <= b
<1>1. \E x \in {a, b} : \A y \in {a, b} : x <= y
  OBVIOUS
<1>2. QED
  BY <1>1 DEF Min

LEMMA MinFour ==
    ASSUME NEW a \in Int, NEW b \in Int, NEW c \in Int, NEW d \in Int
    PROVE  Min({a, b, c, d}) \in Int /\ Min({a, b, c, d}) <= a /\ Min({a, b, c, d}) <= b
           /\ Min({a, b, c, d}) <= c /\ Min({a, b, c, d}) <= d
<1>1. \E x \in {a, b, c, d} : \A y \in {a, b, c, d} : x <= y
  OBVIOUS
<1>2. QED
  BY <1>1 DEF Min

LEMMA IStarts ==
    ASSUME scenario \in Scenarios, NEW e, IGood(e), e.dial.phase = "open", NEW k \in Int,
           k > 0 => k <= scenario.carriers - e.dial.next
    PROVE  LET n == StartAttempts(e, (e.dial.next + 1)..(e.dial.next + k))
           IN  IGood(n) /\ Goes(e, n) /\ ~Unopened(n)
<1> DEFINE new == (e.dial.next + 1)..(e.dial.next + k)
           ttl == Min({Lifetime, e.dial.ttl})
           owner(id) == IF scenario.mode = "prepared" THEN 0 ELSE id
           waits == "waitChallenge"
           yes == TRUE
           one == 1
           fresh(id) == [NoAttempt EXCEPT
               !.phase = waits, !.packets = yes, !.sends = one, !.wait = RetryInterval,
               !.ttl = ttl, !.owner = owner(id)]
           att == [id \in Ids |-> IF id \in new THEN fresh(id) ELSE e.att[id]]
           res == [o \in Owners |-> IF scenario.mode # "prepared" /\ o \in new
                                    THEN Reserved ELSE e.res[o]]
           size == Cardinality(new)
           next == e.dial.next + size
           running == e.dial.running + size
           dial == [e.dial EXCEPT !.next = next, !.running = running]
           filled == [e EXCEPT !.att = [id \in Ids |-> IF id \in new THEN fresh(id) ELSE e.att[id]],
                               !.res = [o \in Owners |-> IF scenario.mode # "prepared" /\ o \in new
                                                         THEN Reserved ELSE e.res[o]],
                               !.pending = @ + Cardinality(new),
                               !.dial.next = @ + Cardinality(new),
                               !.dial.running = @ + Cardinality(new)]
           hellos == {Packet(filled, "HELLO", id) : id \in new}
           n == StartAttempts(e, new)
<1>1. e \in Engines /\ InitiatorInv(e, msgs \cup e.out)
  BY DEF IGood
<1>2. e.dial.next \in Nat /\ e.dial.running \in Int /\ e.dial.ttl \in Nat /\ e.pending \in Int
  BY <1>1, EngineFields
<1>3. scenario.carriers \in Nat /\ scenario.maxSends \in Nat /\ scenario.maxSends >= 2
  BY ScenarioFacts DEF MaxPaths
<1>4. \A id \in new : id \in Ids /\ id \in Int /\ id > e.dial.next
  BY <1>2, <1>3, ScenarioFacts
<1>5. size \in Nat /\ \A id \in new : id <= e.dial.next + size
  <2>1. e.dial.next + 1 \in Int /\ e.dial.next + k \in Int
    BY <1>2
  <2>2. size = IF e.dial.next + 1 > e.dial.next + k THEN 0
               ELSE (e.dial.next + k) - (e.dial.next + 1) + 1
    BY <2>1, FS_Interval
  <2> HIDE DEF size
  <2>3. QED
    BY <1>2, <2>2
<1>6. \A id \in new : fresh(id) \in Attempts /\ fresh(id).phase = "waitChallenge"
      /\ fresh(id).sends = 1
  <2>1. ttl \in 0..Lifetime
    <3>1. Lifetime \in Int /\ e.dial.ttl \in Int
      BY <1>2, TimesAssumption
    <3>2. ttl \in {Lifetime, e.dial.ttl} /\ ttl <= Lifetime
      BY <3>1, MinTwo
    <3> HIDE DEF ttl
    <3>3. QED
      BY <1>2, <3>2, TimesAssumption
  <2>2. /\ waits \in Phases /\ yes \in BOOLEAN /\ RetryInterval \in 0..RetryInterval
        /\ one \in 0..scenario.maxSends
    BY <1>3, TimesAssumption DEF Phases
  <2>3. \A id \in new : owner(id) \in Owners
    BY <1>4, IdsFinite
  <2>4. NoAttempt \in Attempts
    BY NoneTypes
  <2> HIDE DEF new, ttl, owner, waits, yes, one
  <2>5. \A id \in new : fresh(id) \in Attempts /\ fresh(id).phase = waits /\ fresh(id).sends = one
    BY <2>1, <2>2, <2>3, <2>4 DEF Attempts
  <2> HIDE DEF fresh
  <2>6. QED
    BY <2>5 DEF waits, one
<1> HIDE DEF fresh, new, size, ttl, owner, waits, yes, one
<1>7. att \in [Ids -> Attempts] /\ res \in [Owners -> Holdings]
  BY <1>1, <1>6, EngineFields, NoneTypes
<1>8. dial \in Dials /\ dial.phase = "open" /\ dial.next = e.dial.next + size
  <2>1. e.dial \in Dials /\ next \in Nat /\ running \in Int
    BY <1>1, <1>2, <1>5, EngineFields
  <2> HIDE DEF next, running
  <2>3. dial \in Dials /\ dial.phase = e.dial.phase /\ dial.next = next
    BY <2>1 DEF Dials
  <2>4. QED
    BY <2>3 DEF next
<1>9. e.pending + size \in Int
  BY <1>2, <1>5
<1>10. filled = [e EXCEPT !.att = att, !.res = res, !.pending = e.pending + size, !.dial = dial]
  BY <1>1, EngineFields DEF Engines, size
<1> HIDE DEF att, res, dial, filled
<1>11. /\ filled \in Engines /\ filled.side = e.side /\ filled.prepared = e.prepared
       /\ filled.closed = e.closed
       /\ filled.att = att /\ filled.out = e.out /\ filled.dial = dial
  BY <1>1, <1>7, <1>8, <1>9, <1>10 DEF Engines
<1>12. hellos \in SUBSET Packets /\ \A m \in hellos : m.type = "HELLO"
  BY <1>4, <1>11, PacketTyped DEF PacketTypes
<1>13. n = [filled EXCEPT !.out = filled.out \cup hellos]
  BY DEF StartAttempts, filled, fresh, ttl, owner, waits, yes, one
<1> HIDE DEF hellos, n
<1>14. /\ n \in Engines /\ n.side = e.side /\ n.prepared = e.prepared /\ n.closed = e.closed
       /\ n.att = att /\ n.out = e.out \cup hellos /\ n.dial = dial
  <2>1. filled.out \cup hellos \in SUBSET Packets
    BY <1>11, <1>12, EngineFields
  <2>2. QED
    BY <1>11, <1>13, <2>1 DEF Engines
<1>15. \A id : Finishes(msgs \cup n.out, id) = Finishes(msgs \cup e.out, id)
  BY <1>12, <1>14, SameFinishes
<1>16. ASSUME NEW id \in Ids
       PROVE  IAttempt(id, n.att[id], n.dial.next, Finishes(msgs \cup n.out, id))
  <2> DEFINE F == Finishes(msgs \cup e.out, id)
  <2>1. IAttempt(id, e.att[id], e.dial.next, F)
    BY <1>1 DEF InitiatorInv
  <2>6. id \in Int
    BY IdsFinite
  <2>2. n.dial.next = e.dial.next + size /\ Finishes(msgs \cup n.out, id) = F
    BY <1>8, <1>14, <1>15
  <2> HIDE DEF F
  <2>3. CASE id \in new
    <3>1. n.att[id] = fresh(id) /\ id <= e.dial.next + size
      BY <1>5, <1>14, <2>3 DEF att
    <3>2. F = {}
      BY <1>2, <1>4, <2>1, <2>3 DEF IAttempt
    <3> DEFINE a == n.att[id]
    <3>3. a.phase = "waitChallenge" /\ a.sends < scenario.maxSends
      BY <1>3, <1>6, <2>3, <3>1
    <3> HIDE DEF a
    <3>4. IAttempt(id, a, e.dial.next + size, F)
      BY <3>1, <3>2, <3>3 DEF IAttempt
    <3>5. QED
      BY <2>2, <3>4 DEF a
  <2>4. CASE id \notin new
    <3>1. n.att[id] = e.att[id]
      BY <1>14, <2>4 DEF att
    <3>2. \A x \in Int : x <= e.dial.next => x <= e.dial.next + size
      BY <1>2, <1>5
    <3>3. QED
      BY <2>1, <2>2, <2>6, <3>1, <3>2 DEF IAttempt
  <2>5. QED
    BY <2>3, <2>4
<1>17. ~Unopened(n) /\ (n.prepared = "waiting" => scenario.mode = "prepared")
  BY <1>1, <1>14 DEF InitiatorInv, Unopened
<1>18. IGood(n)
  BY <1>8, <1>14, <1>16, <1>17 DEF IGood, InitiatorInv
<1>19. \A id \in Ids : n.att[id].phase = "established" => n.att[id] = e.att[id]
  BY <1>6, <1>14 DEF att
<1>20. Goes(e, n)
  BY <1>12, <1>14, <1>19 DEF Goes, Finished
<1>21. QED
  BY <1>17, <1>18, <1>20 DEF n, new

LEMMA IFills ==
    ASSUME scenario \in Scenarios, NEW e, IGood(e), NEW starts \in Nat
    PROVE  LET n == FillDials(e, starts)
           IN  IGood(n) /\ Goes(e, n) /\ (e.dial.phase # "open" => n = e)
<1> DEFINE room == IF e.dial.ttl = 0 THEN 0 ELSE
                   Min({starts, scenario.concurrent - e.dial.running, scenario.carriers - e.dial.next,
                        IF scenario.mode = "prepared" THEN 1 ELSE Capacity(e)})
           filled == StartAttempts(e, (e.dial.next + 1)..(e.dial.next + room))
           dropped == DropDial(filled)
           retired == Retire(dropped, {0})
           n == FillDials(e, starts)
<1>1. e \in Engines /\ Goes(e, e)
  BY DEF IGood, Goes
<1>2. CASE e.dial.phase # "open"
  BY <1>1, <1>2 DEF FillDials
<1>3. CASE e.dial.phase = "open"
  <2>1. /\ e.dial.running \in Int /\ e.dial.next \in Nat /\ e.pending \in Int
        /\ scenario.concurrent \in Int /\ scenario.carriers \in Int /\ starts \in Int
    BY <1>1, EngineFields, ScenarioFacts DEF MaxPaths
  <2>2. Capacity(e) \in Int
    BY <2>1, LimitsAssumption DEF Capacity
  <2>3. room \in Int /\ (room > 0 => room <= scenario.carriers - e.dial.next)
    <3> DEFINE b == scenario.concurrent - e.dial.running
               c == scenario.carriers - e.dial.next
               d == IF scenario.mode = "prepared" THEN 1 ELSE Capacity(e)
    <3>1. b \in Int /\ c \in Int /\ d \in Int
      BY <2>1, <2>2
    <3> HIDE DEF b, c, d
    <3>2. Min({starts, b, c, d}) \in Int /\ Min({starts, b, c, d}) <= c
      BY <2>1, <3>1, MinFour
    <3>3. QED
      BY <3>2 DEF b, c, d
  <2> HIDE DEF room
  <2>4. IGood(filled) /\ Goes(e, filled) /\ ~Unopened(filled)
    BY <1>3, <2>3, IStarts
  <2>5. n \in {filled, dropped, retired}
    BY <1>3 DEF FillDials, room
  <2> HIDE DEF filled
  <2>6. IGood(dropped) /\ Goes(filled, dropped)
    BY <2>4, IDrops
  <2> HIDE DEF dropped
  <2>7. IGood(retired) /\ Goes(dropped, retired)
    <3>1. dropped \in Engines
      BY <2>6 DEF IGood
    <3>2. SameTalk(dropped, retired)
      BY <3>1, RetireTalk
    <3> HIDE DEF retired
    <3>3. QED
      BY <2>6, <3>2, ITalks
  <2> HIDE DEF retired, n
  <2>8. Goes(e, dropped) /\ Goes(e, retired)
    BY <2>4, <2>6, <2>7, GoesOn
  <2>9. IGood(n) /\ Goes(e, n)
    BY <2>4, <2>5, <2>6, <2>7, <2>8
  <2>10. QED
    BY <1>3, <2>9 DEF n
<1>4. QED
  BY <1>2, <1>3

----------------------------------------------------------------------------
(* Installing.                                                             *)

\* Holdings apart, an engine says and waits for the same.
LEMMA HoldingsTalk ==
    ASSUME NEW e \in Engines, NEW res \in [Owners -> Holdings]
    PROVE  SameTalk(e, [e EXCEPT !.res = res])
<1> DEFINE n == [e EXCEPT !.res = res]
<1>1. n \in Engines
  BY DEF Engines
<1>2. n.side = e.side /\ n.att = e.att /\ n.dial = e.dial /\ n.prepared = e.prepared
      /\ n.closed = e.closed
      /\ n.out = e.out
  BY DEF Engines
<1> HIDE DEF n
<1>3. SameTalk(e, n)
  BY <1>1, <1>2 DEF SameTalk
<1>4. QED
  BY <1>3 DEF n

\* Engine.install moves leases between the engine and the installer, and then
\* establishes the attempt or fails it.
LEMMA InstallShape ==
    ASSUME scenario \in Scenarios, NEW e \in Engines, NEW id \in Ids, NEW outcome \in Outcomes
    PROVE  \E x : /\ SameTalk(e, x)
                  /\ \/ /\ outcome = "ok"
                        /\ Install(e, id, outcome) =
                             [x EXCEPT !.att[id].phase = "established", !.pending = @ - 1]
                     \/ outcome # "ok" /\ Install(e, id, outcome) = FailAttempt(x, id, TRUE)
<1> DEFINE o == e.att[id].owner
           r == e.res[o]
           promoted == [e EXCEPT !.res[o].scope = "open"]
           owned == [promoted EXCEPT !.res[o].disposer = TRUE, !.res[o].given = TRUE]
           spent == [promoted EXCEPT !.res[o].given = TRUE, !.res[o].called = @ + 1]
<1>1. o \in Owners
  BY EngineFields, AttemptFields
<1> HIDE DEF o
<1>2. e.res \in [Owners -> Holdings] /\ r \in Holdings
  BY <1>1, EngineFields
<1>3. SameTalk(e, promoted)
  <2> DEFINE r1 == [r EXCEPT !.scope = "open"]
             res == [e.res EXCEPT ![o] = r1]
  <2>1. r1 \in Holdings
    BY <1>2 DEF Holdings
  <2> HIDE DEF r1
  <2>2. res \in [Owners -> Holdings]
    BY <1>2, <2>1
  <2>3. promoted = [e EXCEPT !.res = res]
    BY DEF Engines, r1
  <2> HIDE DEF res, promoted
  <2>4. QED
    BY <2>2, <2>3, HoldingsTalk
<1> HIDE DEF promoted
<1>4. promoted \in Engines /\ promoted.res \in [Owners -> Holdings] /\ promoted.res[o] \in Holdings
  BY <1>1, <1>3, EngineFields DEF SameTalk
<1>5. SameTalk(promoted, owned)
  <2> DEFINE q == promoted.res[o]
             yes == TRUE
             r1 == [q EXCEPT !.disposer = yes, !.given = yes]
             res == [promoted.res EXCEPT ![o] = r1]
  <2>1. q \in Holdings /\ yes \in BOOLEAN
    BY <1>4
  <2> HIDE DEF q, yes
  <2>2. r1 \in Holdings
    BY <2>1 DEF Holdings
  <2> HIDE DEF r1
  <2>3. res \in [Owners -> Holdings]
    BY <1>4, <2>2
  <2>4. owned = [promoted EXCEPT !.res = res]
    BY <1>4, ZenonT(30) DEF Engines, r1, q, yes
  <2> HIDE DEF res, owned
  <2>5. QED
    BY <1>4, <2>3, <2>4, HoldingsTalk
<1>6. SameTalk(promoted, spent)
  <2> DEFINE q == promoted.res[o]
             yes == TRUE
             more == q.called + 1
             r1 == [q EXCEPT !.given = yes, !.called = more]
             res == [promoted.res EXCEPT ![o] = r1]
  <2>1. q \in Holdings /\ yes \in BOOLEAN
    BY <1>4
  <2>2. more \in Nat
    BY <2>1 DEF Holdings
  <2> HIDE DEF q, yes, more
  <2>3. r1 \in Holdings
    BY <2>1, <2>2 DEF Holdings
  <2> HIDE DEF r1
  <2>4. res \in [Owners -> Holdings]
    BY <1>4, <2>3
  <2>5. spent = [promoted EXCEPT !.res = res]
    BY <1>4, ZenonT(30) DEF Engines, r1, q, yes, more
  <2> HIDE DEF res, spent
  <2>6. QED
    BY <1>4, <2>4, <2>5, HoldingsTalk
<1>7. SameTalk(e, owned) /\ SameTalk(e, spent)
  BY <1>3, <1>5, <1>6 DEF SameTalk
<1>8. CASE outcome = "ok"
  <2>1. Install(e, id, outcome) = [owned EXCEPT !.att[id].phase = "established", !.pending = @ - 1]
    BY <1>8 DEF Install, promoted, o
  <2> HIDE DEF owned
  <2>2. QED
    BY <1>7, <1>8, <2>1
<1>9. CASE outcome = "failed"
  <2>1. Install(e, id, outcome) = FailAttempt(promoted, id, TRUE)
    BY <1>9 DEF Install, promoted, o
  <2>2. QED
    BY <1>3, <1>9, <2>1
<1>10. CASE outcome = "failedWithDisposer"
  <2>1. \/ Install(e, id, outcome) = FailAttempt(spent, id, TRUE)
        \/ Install(e, id, outcome) = FailAttempt(owned, id, TRUE)
    BY <1>10 DEF Install, promoted, o
  <2> HIDE DEF owned, spent
  <2>2. QED
    BY <1>7, <1>10, <2>1
<1>11. QED
  BY <1>8, <1>9, <1>10 DEF Outcomes

LEMMA EstablishShape ==
    ASSUME scenario \in Scenarios, NEW e \in Engines, NEW id \in Ids
    PROVE  LET n == [e EXCEPT !.att[id].phase = "established", !.pending = @ - 1]
           IN  /\ n \in Engines /\ n.side = e.side /\ n.prepared = e.prepared /\ n.closed = e.closed
               /\ n.dial = e.dial /\ n.out = e.out
               /\ \A i \in Ids : i # id => n.att[i] = e.att[i]
               /\ n.att[id].phase = "established" /\ n.att[id].nonce = e.att[id].nonce
               /\ n.att[id].packets = e.att[id].packets /\ n.att[id].sends = e.att[id].sends
<1> DEFINE n == [e EXCEPT !.att[id].phase = "established", !.pending = @ - 1]
           a == e.att[id]
           b == [a EXCEPT !.phase = "established"]
           att == [e.att EXCEPT ![id] = b]
           less == e.pending - 1
<1>1. n = [e EXCEPT !.att = att, !.pending = less]
  BY EngineFields DEF Engines
<1>2. a \in Attempts /\ less \in Int
  BY EngineFields
<1>3. b \in Attempts
  BY <1>2 DEF Attempts, Phases
<1>4. b.phase = "established" /\ b.nonce = a.nonce /\ b.packets = a.packets /\ b.sends = a.sends
  BY <1>2 DEF Attempts
<1> HIDE DEF b, n, less
<1>5. att \in [Ids -> Attempts] /\ att[id] = b /\ \A i \in Ids : i # id => att[i] = e.att[i]
  BY <1>3, EngineFields
<1> HIDE DEF att
<1>6. /\ n \in Engines /\ n.side = e.side /\ n.prepared = e.prepared /\ n.closed = e.closed
      /\ n.dial = e.dial
      /\ n.out = e.out /\ n.att = att
  BY <1>1, <1>2, <1>5 DEF Engines
<1>7. QED
  BY <1>4, <1>5, <1>6 DEF n

\* The step that installs the attempt of id, and leaves nothing else to install.
Installs(e, n, id) ==
    /\ n \in Engines /\ n.side = e.side /\ Finished(n)
    /\ \A i \in Ids : n.att[i].phase = "established" =>
         i = id /\ n.att[i].nonce = e.att[i].nonce
    /\ \A m \in n.out : m \in e.out \/ m.type # "READY"

\* An installer that fails.
LEMMA IInstallFails ==
    ASSUME scenario \in Scenarios, NEW e, IGood(e), NEW id \in Ids, NEW outcome \in Outcomes,
           outcome # "ok"
    PROVE  LET n == Install(e, id, outcome)
           IN  IGood(n) /\ Goes(e, n)
<1>1. e \in Engines
  BY DEF IGood
<1>2. PICK x : SameTalk(e, x) /\ Install(e, id, outcome) = FailAttempt(x, id, TRUE)
  <2>1. PICK x : /\ SameTalk(e, x)
                 /\ \/ /\ outcome = "ok"
                       /\ Install(e, id, outcome) =
                            [x EXCEPT !.att[id].phase = "established", !.pending = @ - 1]
                    \/ outcome # "ok" /\ Install(e, id, outcome) = FailAttempt(x, id, TRUE)
    BY <1>1, InstallShape
  <2>2. QED
    BY <2>1
<1>3. IGood(x) /\ Goes(e, x)
  BY <1>2, ITalks
<1> DEFINE n == Install(e, id, outcome)
<1>4. n = FailAttempt(x, id, TRUE)
  BY <1>2
<1>5. IGood(n) /\ Goes(x, n)
  BY <1>3, <1>4, IFailsOne
<1> HIDE DEF n
<1>6. IGood(n) /\ Goes(e, n)
  BY <1>3, <1>5, GoesOn
<1>7. QED
  BY <1>6 DEF n

\* An installer that succeeds: the dial ends, and its other attempts with it.
LEMMA IInstalls ==
    ASSUME scenario \in Scenarios, NEW e, IGood(e), NEW id \in Ids, e.att[id].phase = "waitReady"
    PROVE  LET done == Install(e, id, "ok")
               n == ReleasePackets(FailAttempts(DropDial(done), Live(done) \ {id}, TRUE), {id})
           IN  IGood(n) /\ Installs(e, n, id) /\ n.dial.phase = "over"
<1> DEFINE done == Install(e, id, "ok")
           dropped == DropDial(done)
           S == Live(done) \ {id}
           won == FailAttempts(dropped, S, TRUE)
           n == ReleasePackets(won, {id})
<1>1. e \in Engines /\ InitiatorInv(e, msgs \cup e.out)
  BY DEF IGood
<1>2. PICK x : /\ SameTalk(e, x)
               /\ done = [x EXCEPT !.att[id].phase = "established", !.pending = @ - 1]
  BY <1>1, InstallShape, ZenonT(30) DEF Outcomes
<1>3. x \in Engines
  BY <1>2 DEF SameTalk
<1>4. /\ done \in Engines /\ done.side = x.side /\ done.prepared = x.prepared
      /\ done.closed = x.closed
      /\ done.dial = x.dial /\ done.out = x.out
      /\ done.att[id].phase = "established" /\ done.att[id].nonce = x.att[id].nonce
  <2> DEFINE y == [x EXCEPT !.att[id].phase = "established", !.pending = @ - 1]
  <2>1. /\ y \in Engines /\ y.side = x.side /\ y.prepared = x.prepared /\ y.closed = x.closed
        /\ y.dial = x.dial /\ y.out = x.out
        /\ y.att[id].phase = "established" /\ y.att[id].nonce = x.att[id].nonce
    BY <1>3, EstablishShape
  <2> HIDE DEF y, done
  <2>2. done = y
    BY <1>2 DEF y
  <2>3. QED
    BY <2>1, <2>2
<1> HIDE DEF done
<1>5. /\ dropped \in Engines /\ dropped.side = done.side /\ dropped.prepared = done.prepared
      /\ dropped.closed = done.closed
      /\ dropped.att = done.att /\ dropped.out = done.out
      /\ dropped.dial.phase = "over" /\ dropped.dial.next = done.dial.next
  <2> DEFINE d == dropped.dial
  <2>1. /\ dropped \in Engines /\ dropped = [done EXCEPT !.dial = d]
        /\ d.phase = "over" /\ d.next = done.dial.next
    BY <1>4, DropDialShape
  <2> HIDE DEF dropped, d
  <2>2. /\ dropped.side = done.side /\ dropped.prepared = done.prepared
        /\ dropped.closed = done.closed
        /\ dropped.att = done.att /\ dropped.out = done.out
    BY <1>4, <2>1 DEF Engines
  <2>3. QED
    BY <2>1, <2>2 DEF d
<1> HIDE DEF dropped
<1>6. S \in SUBSET Ids /\ \A i \in Ids : i \notin S /\ i # id => done.att[i].phase = "none"
  BY DEF Live
<1> HIDE DEF S
<1>7. /\ won \in Engines /\ won.side = dropped.side /\ won.prepared = dropped.prepared
      /\ won.closed = dropped.closed
      /\ won.att = [i \in Ids |-> IF i \in S THEN NoAttempt ELSE dropped.att[i]]
      /\ dropped.out \subseteq won.out /\ \A m \in won.out : m \in dropped.out \/ m.type = "CLOSE"
      /\ won.dial.next = dropped.dial.next /\ won.dial.phase = "over"
  <2> DEFINE yes == TRUE
  <2>1. /\ yes \in BOOLEAN /\ dropped \in Engines /\ S \in SUBSET Ids
        /\ won = FailAttempts(dropped, S, yes)
    BY <1>5, <1>6
  <2> HIDE DEF yes, won
  <2>2. /\ won \in Engines /\ won.side = dropped.side /\ won.prepared = dropped.prepared
        /\ won.closed = dropped.closed
        /\ won.att = [i \in Ids |-> IF i \in S THEN NoAttempt ELSE dropped.att[i]]
        /\ dropped.out \subseteq won.out /\ \A m \in won.out : m \in dropped.out \/ m.type = "CLOSE"
        /\ won.dial.next = dropped.dial.next
        /\ won.dial.phase = dropped.dial.phase \/ (won.dial.phase = "over" /\ \E i \in S : TRUE)
    BY <2>1, FailShape, SMTT(30)
  <2>3. QED
    BY <1>5, <2>2
<1>8. id \notin S
  BY DEF S
<1>9. Repeats(won, n) /\ n.out = won.out /\ ~n.att[id].packets
  BY <1>7, ReleaseRepeats
<1> HIDE DEF won, n
<1>10. /\ n \in Engines /\ n.side = e.side /\ n.prepared = e.prepared /\ n.closed = e.closed
       /\ n.dial.phase = "over" /\ n.dial.next = e.dial.next
       /\ e.out \subseteq n.out /\ \A m \in n.out : m \in e.out \/ m.type = "CLOSE"
  BY <1>2, <1>4, <1>5, <1>7, <1>9 DEF Repeats, SameTalk
<1>11. n.att[id].phase = "established" /\ n.att[id].nonce = e.att[id].nonce
  <2>1. won.att[id] = done.att[id] /\ Kept(won.att[id], n.att[id])
    BY <1>5, <1>7, <1>8, <1>9 DEF Repeats
  <2>2. QED
    BY <1>2, <1>4, <2>1 DEF Kept, SameTalk
<1>12. ASSUME NEW i \in Ids, i # id PROVE n.att[i].phase = "none"
  <2>1. Kept(won.att[i], n.att[i])
    BY <1>9 DEF Repeats
  <2>2. won.att[i].phase = "none"
    BY <1>5, <1>6, <1>7, <1>12 DEF NoAttempt
  <2>3. QED
    BY <2>1, <2>2 DEF Kept
<1>13. \A i : Finishes(msgs \cup n.out, i) = Finishes(msgs \cup e.out, i)
  BY <1>10, SameFinishes
<1>14. ASSUME NEW i \in Ids
       PROVE  IAttempt(i, n.att[i], n.dial.next, Finishes(msgs \cup n.out, i))
  <2>1. IAttempt(i, e.att[i], e.dial.next, Finishes(msgs \cup e.out, i))
    BY <1>1 DEF InitiatorInv
  <2>2. CASE i = id
    <3> DEFINE F == Finishes(msgs \cup e.out, i)
               a == e.att[i]
               b == n.att[i]
    <3>1. a.phase = "waitReady" /\ b.phase = "established" /\ ~b.packets
      BY <1>9, <1>11, <2>2
    <3>2. n.dial.next = e.dial.next /\ Finishes(msgs \cup n.out, i) = F
      BY <1>10, <1>13
    <3> HIDE DEF F, b
    <3>3. IAttempt(i, b, e.dial.next, F)
      BY <2>1, <3>1 DEF IAttempt, F
    <3>4. QED
      BY <3>2, <3>3 DEF b
  <2>3. CASE i # id
    <3> DEFINE F == Finishes(msgs \cup e.out, i)
               a == e.att[i]
               b == n.att[i]
               next == e.dial.next
    <3>1. IAttempt(i, a, next, F) /\ b.phase = "none"
      BY <1>12, <2>1, <2>3
    <3>2. n.dial.next = next /\ Finishes(msgs \cup n.out, i) = F
      BY <1>10, <1>13
    <3> HIDE DEF F, a, b, next
    <3>3. IAttempt(i, b, next, F)
      BY <3>1 DEF IAttempt
    <3>4. QED
      BY <3>2, <3>3 DEF b
  <2>4. QED
    BY <2>2, <2>3
<1>15. ~Unopened(n) /\ (n.prepared = "waiting" => scenario.mode = "prepared")
  <2>1. SUFFICES ASSUME Unopened(e) PROVE FALSE
    BY <1>1, <1>10 DEF InitiatorInv, Unopened
  <2>2. e.dial.next = 0 /\ IAttempt(id, e.att[id], e.dial.next, Finishes(msgs \cup e.out, id))
    BY <1>1, <2>1 DEF InitiatorInv
  <2>3. id <= 0
    BY <2>2 DEF IAttempt
  <2>4. QED
    BY <2>3 DEF Ids
<1>16. IGood(n)
  BY <1>10, <1>14, <1>15 DEF IGood, InitiatorInv
<1>17. Installs(e, n, id)
  BY <1>10, <1>11, <1>12 DEF Installs, Finished
<1>18. QED
  BY <1>10, <1>16, <1>17 DEF n, won, dropped, S, done

----------------------------------------------------------------------------
(* A CHALLENGE that is answered.                                           *)

LEMMA IAnswers ==
    ASSUME scenario \in Scenarios, NEW e, IGood(e), NEW id \in Ids, NEW nonce \in 0..MaxNonce,
           e.att[id].phase = "waitChallenge", Contract(id).valid
    PROVE  LET keyed == [WithKeys(e, id, nonce) EXCEPT !.att[id].phase = "waitReady"]
               n == Send(keyed, id, "FINISH", TRUE)
           IN  IGood(n) /\ Goes(e, n)
<1> DEFINE keyed == [WithKeys(e, id, nonce) EXCEPT !.att[id].phase = "waitReady"]
           n == Send(keyed, id, "FINISH", TRUE)
           a == e.att[id]
           waits == "waitReady"
           b == [a EXCEPT !.nonce = nonce, !.phase = waits]
           att == [e.att EXCEPT ![id] = b]
           F(i) == Finishes(msgs \cup e.out, i)
           G(i) == Finishes(msgs \cup n.out, i)
<1>1. e \in Engines /\ InitiatorInv(e, msgs \cup e.out)
  BY DEF IGood
<1>2. a \in Attempts
  BY <1>1, EngineFields
<1>3. IAttempt(id, a, e.dial.next, F(id))
  BY <1>1 DEF InitiatorInv
<1>4. F(id) = {} /\ a.sends < scenario.maxSends /\ id <= e.dial.next
  BY <1>3 DEF IAttempt
<1>5. keyed = [e EXCEPT !.att = att]
  BY <1>1, EngineFields DEF Engines, WithKeys
<1>6. waits \in Phases /\ waits = "waitReady"
  BY DEF Phases
<1> HIDE DEF waits
<1>7. b \in Attempts /\ b.phase = waits /\ b.nonce = nonce /\ b.sends = a.sends
  BY <1>2, <1>6 DEF Attempts
<1> HIDE DEF b
<1>8. att \in [Ids -> Attempts] /\ att[id] = b /\ \A i \in Ids : i # id => att[i] = e.att[i]
  BY <1>1, <1>7, EngineFields
<1> HIDE DEF att, keyed
<1>9. /\ keyed \in Engines /\ keyed.side = e.side /\ keyed.prepared = e.prepared
      /\ keyed.closed = e.closed
      /\ keyed.dial = e.dial /\ keyed.out = e.out /\ keyed.att = att
  BY <1>1, <1>5, <1>8 DEF Engines
<1>10. CanSend(b)
  BY <1>4, <1>6, <1>7 DEF CanSend
<1>11. Repeats(keyed, n) /\ Packet(keyed, "FINISH", id) \in n.out
  <2>1. /\ keyed.att[id] = b /\ b.phase # "none" /\ b.phase # "established" /\ b.phase \in Phases
        /\ Retransmission(b) = "FINISH"
    BY <1>6, <1>7, <1>8, <1>9, RetransmissionType
  <2>2. QED
    BY <1>9, <1>10, <2>1, SendRepeats
<1>12. /\ Packet(keyed, "FINISH", id).type = "FINISH" /\ Packet(keyed, "FINISH", id).id = id
  BY <1>9, PacketTyped DEF PacketTypes
<1> HIDE DEF n
<1>13. \A i \in Ids : Kept(att[i], n.att[i])
  BY <1>9, <1>11 DEF Repeats
<1>14. ASSUME NEW m \in G(id) PROVE m.nonce = nonce
  <2>1. m \notin msgs \cup e.out
    BY <1>4 DEF Finishes
  <2>2. m \in n.out /\ m \notin keyed.out /\ m.id = id
    BY <1>9, <2>1 DEF Finishes
  <2>3. Says(keyed, m)
    BY <1>11, <2>2 DEF Repeats
  <2>4. QED
    BY <1>7, <1>8, <1>9, <2>2, <2>3 DEF Says
<1>15. G(id) # {}
  BY <1>11, <1>12 DEF Finishes
<1>16. n.dial = e.dial /\ n.prepared = e.prepared /\ n.closed = e.closed
       /\ n.side = e.side /\ n \in Engines
  BY <1>9, <1>11 DEF Repeats
<1>17. ASSUME NEW i \in Ids PROVE IAttempt(i, n.att[i], n.dial.next, G(i))
  <2>1. CASE i = id
    <3> DEFINE c == n.att[id]
               H == G(id)
    <3>1. c.phase = "waitReady" /\ c.nonce = nonce
      BY <1>6, <1>7, <1>8, <1>13 DEF Kept
    <3> HIDE DEF c
    <3>2. H # {} /\ \A m \in H : m.nonce = nonce
      BY <1>14, <1>15
    <3> HIDE DEF H
    <3>3. IAttempt(id, c, e.dial.next, H)
      BY <1>4, <3>1, <3>2 DEF IAttempt
    <3>4. QED
      BY <1>16, <2>1, <3>3 DEF c, H
  <2>2. CASE i # id
    <3>1. IAttempt(i, e.att[i], e.dial.next, F(i))
      BY <1>1 DEF InitiatorInv
    <3>2. IAttempt(i, keyed.att[i], keyed.dial.next, Finishes(msgs \cup keyed.out, i))
      BY <1>8, <1>9, <2>2, <3>1
    <3>3. QED
      BY <1>9, <1>11, <3>2, IRepeatsOne
  <2>3. QED
    BY <2>1, <2>2
<1>18. IGood(n)
  BY <1>1, <1>16, <1>17 DEF IGood, InitiatorInv, Unopened
<1>19. ASSUME NEW i \in Ids, n.att[i].phase = "established"
       PROVE  e.att[i].phase = "established" /\ n.att[i].nonce = e.att[i].nonce
  BY <1>6, <1>7, <1>8, <1>13, <1>19 DEF Kept
<1>20. ASSUME NEW m \in n.out, m \notin e.out PROVE m.type # "READY"
  <2>1. Says(keyed, m)
    BY <1>9, <1>11, <1>20 DEF Repeats
  <2>2. m.id \in Ids
    BY <2>1 DEF Says, Packets
  <2>3. att[m.id].phase \in Phases
    BY <1>8, <2>2, AttemptFields
  <2>4. att[m.id].phase = "established" => att[m.id] = e.att[m.id] /\ ~e.att[m.id].packets
    BY <1>1, <1>6, <1>7, <1>8, <2>2 DEF InitiatorInv, IAttempt
  <2>5. QED
    BY <1>9, <2>1, <2>3, <2>4, RetransmissionType DEF Says
<1>21. Finished(e) => FALSE
  BY DEF Finished
<1>22. e.out \subseteq n.out
  BY <1>9, <1>11 DEF Repeats
<1>23. Goes(e, n)
  BY <1>16, <1>19, <1>20, <1>21, <1>22 DEF Goes
<1>24. QED
  BY <1>18, <1>23 DEF n, keyed

----------------------------------------------------------------------------
(* The actions of the initiator.                                           *)

\* What a call makes of the initiator's engine.
IMoves(n) ==
    /\ n.side = "initiator" /\ IGood(n)
    /\ \/ Goes(I, n)
       \/ \E m \in msgs : /\ m.type = "READY" /\ I.att[m.id].phase = "waitReady"
                          /\ I.att[m.id].nonce = m.nonce /\ Installs(I, n, m.id)

LEMMA InvFacts ==
    ASSUME HandshakeInv
    PROVE  /\ scenario \in Scenarios /\ nonces \in 0..MaxNonce /\ msgs \in SUBSET Packets
           /\ IGood(I) /\ I \in Engines /\ I.side = "initiator" /\ I.out = {}
           /\ R \in Engines /\ R.side = "responder" /\ R.out = {}
           /\ \A m \in msgs : m.id \in Ids /\ m.nonce \in 0..MaxNonce /\ m.type \in PacketTypes
<1>1. /\ scenario \in Scenarios /\ nonces \in 0..MaxNonce /\ msgs \in SUBSET Packets
      /\ I \in Engines /\ I.side = "initiator" /\ I.out = {}
      /\ R \in Engines /\ R.side = "responder" /\ R.out = {}
  BY DEF HandshakeInv, TypesInv, I, R, Sides
<1>2. IGood(I)
  <2>1. msgs \cup I.out = msgs
    BY <1>1
  <2>2. QED
    BY <1>1, <2>1 DEF IGood, HandshakeInv
<1>3. \A m \in msgs : m.id \in Ids /\ m.nonce \in 0..MaxNonce /\ m.type \in PacketTypes
  BY <1>1 DEF Packets
<1>4. QED
  BY <1>1, <1>2, <1>3

LEMMA StartsNat ==
    ASSUME HandshakeInv, NEW side, NEW k \in Starts(side)
    PROVE  k \in Nat
<1> DEFINE most == Min({scenario.concurrent, scenario.carriers - I.dial.next})
<1>2. most \in Int
  <2> DEFINE a == scenario.concurrent
             b == scenario.carriers - I.dial.next
  <2>1. scenario \in Scenarios /\ I \in Engines
    BY InvFacts
  <2>2. a \in Int /\ scenario.carriers \in Int
    BY <2>1, ScenarioFacts DEF MaxPaths
  <2>3. I.dial.next \in Int
    BY <2>1, EngineFields
  <2>4. b \in Int
    BY <2>2, <2>3
  <2> HIDE DEF a, b
  <2>5. Min({a, b}) \in {a, b}
    BY <2>2, <2>4, MinTwo
  <2>6. QED
    BY <2>2, <2>4, <2>5 DEF a, b
<1>3. k = 0 \/ k \in 0..most
  BY DEF Starts
<1> HIDE DEF most
<1>4. QED
  BY <1>2, <1>3

LEMMA IGoes ==
    ASSUME HandshakeInv, NEW n, IGood(n), Goes(I, n)
    PROVE  IMoves(n)
  BY InvFacts DEF IMoves, Goes

LEMMA IMovesFills ==
    ASSUME HandshakeInv, NEW h, IMoves(h), NEW starts \in Nat
    PROVE  IMoves(FillDials(h, starts))
<1> DEFINE n == FillDials(h, starts)
<1>1. IGood(n) /\ Goes(h, n) /\ (h.dial.phase # "open" => n = h)
  BY InvFacts, IFills DEF IMoves
<1> HIDE DEF n
<1>2. CASE Goes(I, h)
  <2>1. Goes(I, n)
    BY <1>1, <1>2, GoesOn
  <2>2. IMoves(n)
    BY <1>1, <2>1, IGoes
  <2>3. QED
    BY <2>2 DEF n
<1>3. CASE ~Goes(I, h)
  <2>1. h.dial.phase = "over"
    BY <1>3 DEF IMoves, Installs, Finished
  <2>2. n = h
    BY <1>1, <2>1
  <2>3. QED
    BY <2>2 DEF n
<1>4. QED
  BY <1>2, <1>3

\* The tail of Engine.Receive.
LEMMA IReceives ==
    ASSUME HandshakeInv, NEW id \in Ids, NEW starts \in Nat, NEW h, IMoves(h),
           Receive(I, id, h, starts)
    PROVE  \E n : Commit(n) /\ IMoves(n) /\ Silent
<1> DEFINE a == I.att[id]
           filled == FillDials(h, starts)
           bare == ReleasePackets(I, {id})
           failed == FailAttempt(I, id, TRUE)
           refilled == FillDials(failed, starts)
<1>1. IMoves(filled)
  BY IMovesFills
<1>2. IMoves(bare)
  <2>1. Repeats(I, bare)
    BY InvFacts, ReleaseRepeats
  <2> HIDE DEF bare
  <2>2. IGood(bare) /\ Goes(I, bare)
    BY <2>1, InvFacts, IRepeats
  <2>3. QED
    BY <2>2, IGoes
<1>3. IMoves(refilled)
  <2>1. IGood(failed) /\ Goes(I, failed)
    BY InvFacts, IFailsOne
  <2> HIDE DEF failed
  <2>2. IMoves(failed)
    BY <2>1, IGoes
  <2>3. QED
    BY <2>2, IMovesFills
<1>4. \/ Commit(filled) \/ Commit(bare) \/ Commit(refilled)
  BY DEF Receive
<1>5. Silent
  BY DEF Receive
<1> HIDE DEF filled, bare, refilled
<1>6. QED
  BY <1>1, <1>2, <1>3, <1>4, <1>5

LEMMA IStays ==
    ASSUME HandshakeInv
    PROVE  IMoves(I)
<1>1. Goes(I, I)
  BY InvFacts DEF Goes
<1>2. QED
  BY <1>1, InvFacts, IGoes

LEMMA IChallenge ==
    ASSUME HandshakeInv, NEW m \in msgs, NEW k \in Nat, ReceiveChallenge(m, k)
    PROVE  \E n : Commit(n) /\ IMoves(n) /\ Silent
<1> DEFINE a == I.att[m.id]
           keyed == [WithKeys(I, m.id, m.nonce) EXCEPT !.att[m.id].phase = "waitReady"]
           first == Send(keyed, m.id, "FINISH", TRUE)
           again == Send(I, m.id, "FINISH", FALSE)
           h == IF a.phase = "waitChallenge"
                THEN IF Contract(m.id).valid THEN first ELSE I
                ELSE IF Authentic(a, m) THEN again
                ELSE I
<1>1. m.id \in Ids /\ m.nonce \in 0..MaxNonce /\ m.type \in PacketTypes
  BY InvFacts
<1>2. m.type = "CHALLENGE" /\ Expects("initiator", m) /\ Receive(I, m.id, h, k)
  BY DEF ReceiveChallenge
<1>3. a.phase \in {"waitChallenge", "waitReady"}
  BY <1>2 DEF Expects, I
<1>4. a.phase = "waitChallenge" /\ Contract(m.id).valid => IMoves(first)
  <2>1. SUFFICES ASSUME a.phase = "waitChallenge", Contract(m.id).valid PROVE IMoves(first)
    OBVIOUS
  <2>2. IGood(first) /\ Goes(I, first)
    BY <1>1, <2>1, InvFacts, IAnswers
  <2> HIDE DEF first
  <2>3. QED
    BY <2>2, IGoes
<1>5. a.phase = "waitReady" => IMoves(again)
  <2>1. SUFFICES ASSUME a.phase = "waitReady" PROVE IMoves(again)
    OBVIOUS
  <2>2. Retransmission(a) = "FINISH" /\ a.phase # "none" /\ a.phase # "established"
    BY <2>1, RetransmissionType DEF Phases
  <2>3. Repeats(I, again)
    BY <1>1, <2>2, InvFacts, SendRepeats
  <2> HIDE DEF again
  <2>4. IGood(again) /\ Goes(I, again)
    BY <2>3, InvFacts, IRepeats
  <2>5. QED
    BY <2>4, IGoes
<1> HIDE DEF first, again, a
<1>6. IMoves(h)
  BY <1>3, <1>4, <1>5, IStays
<1> HIDE DEF h
<1>7. QED
  BY <1>1, <1>2, <1>6, IReceives

LEMMA IRejected ==
    ASSUME HandshakeInv, NEW m \in msgs, NEW k \in Nat, ReceiveReject(m, k)
    PROVE  \E n : Commit(n) /\ IMoves(n) /\ Silent
<1> DEFINE failed == FailAttempt(I, m.id, FALSE)
           h == IF I.att[m.id].phase = "waitChallenge" THEN failed ELSE I
<1>1. m.id \in Ids
  BY InvFacts
<1>2. Receive(I, m.id, h, k)
  BY DEF ReceiveReject
<1>3. IGood(failed) /\ Goes(I, failed)
  BY InvFacts, IFailsOne
<1> HIDE DEF failed
<1>4. IMoves(failed)
  BY <1>3, IGoes
<1>5. IMoves(h)
  BY <1>4, IStays
<1> HIDE DEF h
<1>6. QED
  BY <1>1, <1>2, <1>5, IReceives

LEMMA IReady ==
    ASSUME HandshakeInv, NEW m \in msgs, NEW outcome \in Outcomes, NEW k \in Nat,
           ReceiveReady(m, outcome, k)
    PROVE  \E n : Commit(n) /\ IMoves(n) /\ Silent
<1> DEFINE done == Install(I, m.id, outcome)
           won == ReleasePackets(FailAttempts(DropDial(done), Live(done) \ {m.id}, TRUE), {m.id})
           h == IF outcome = "ok" THEN won ELSE done
<1>1. m.id \in Ids
  BY InvFacts
<1>2. m.type = "READY" /\ Expects("initiator", m) /\ Receive(I, m.id, h, k)
  BY DEF ReceiveReady
<1>3. I.att[m.id].phase = "waitReady" /\ I.att[m.id].nonce = m.nonce
  BY <1>2 DEF Expects, Authentic, I
<1>4. CASE outcome = "ok"
  <2>1. IGood(won) /\ Installs(I, won, m.id)
    BY <1>1, <1>3, <1>4, InvFacts, IInstalls
  <2>2. h = won
    BY <1>4
  <2> HIDE DEF won, h
  <2>3. IMoves(h)
    BY <1>2, <1>3, <2>1, <2>2, InvFacts DEF IMoves, Installs
  <2>4. QED
    BY <1>1, <1>2, <2>3, IReceives
<1>5. CASE outcome # "ok"
  <2>1. IGood(done) /\ Goes(I, done)
    BY <1>1, <1>5, InvFacts, IInstallFails
  <2>2. h = done
    BY <1>5
  <2> HIDE DEF done, h
  <2>3. IMoves(h)
    BY <2>1, <2>2, IGoes
  <2>4. QED
    BY <1>1, <1>2, <2>3, IReceives
<1>6. QED
  BY <1>4, <1>5

LEMMA IOpens ==
    ASSUME scenario \in Scenarios, NEW e, IGood(e), e.dial.phase = "none", ~Unopened(e)
    PROVE  IGood(OpenDial(e)) /\ Goes(e, OpenDial(e))
<1> DEFINE d == [phase |-> "open", next |-> 0, running |-> 0, ttl |-> scenario.deadline]
           n == OpenDial(e)
<1>1. e \in Engines /\ InitiatorInv(e, msgs \cup e.out)
  BY DEF IGood
<1>2. d \in Dials /\ d.phase = "open" /\ d.next = 0
  BY ScenarioFacts DEF Dials
<1>3. n = [e EXCEPT !.dial = d]
  BY DEF OpenDial
<1> HIDE DEF d, n
<1>4. /\ n \in Engines /\ n.side = e.side /\ n.prepared = e.prepared /\ n.closed = e.closed
      /\ n.att = e.att /\ n.out = e.out /\ n.dial = d
  BY <1>1, <1>2, <1>3 DEF Engines
<1>5. e.dial.next = 0
  BY <1>1 DEF InitiatorInv
<1>6. IGood(n)
  BY <1>1, <1>2, <1>4, <1>5 DEF IGood, InitiatorInv, Unopened
<1>7. Goes(e, n)
  BY <1>4 DEF Goes, Finished
<1>8. QED
  BY <1>6, <1>7 DEF n

\* The prepared dial moves on, and its reservation may.
LEMMA IPrepares ==
    ASSUME NEW e, IGood(e), NEW n \in Engines,
           n.side = e.side, n.closed = e.closed, n.att = e.att, n.out = e.out, n.dial = e.dial,
           n.prepared # "none",
           n.prepared = "waiting" => scenario.mode = "prepared" /\ e.dial.phase = "none"
    PROVE  IGood(n) /\ Goes(e, n)
<1>1. e \in Engines /\ InitiatorInv(e, msgs \cup e.out)
  BY DEF IGood
<1>2. InitiatorInv(n, msgs \cup n.out)
  BY <1>1 DEF InitiatorInv, Unopened
<1>3. Goes(e, n)
  BY DEF Goes, Finished
<1>4. QED
  BY <1>2, <1>3 DEF IGood

LEMMA IBegins ==
    ASSUME HandshakeInv, NEW k \in Nat, BeginDial(k) \/ BeginPreparedDial(k)
    PROVE  \E n : Commit(n) /\ IMoves(n) /\ Silent
<1>1. CASE BeginDial(k)
  <2> DEFINE opened == OpenDial(I)
  <2>1. scenario.mode # "prepared" /\ I.dial.phase = "none" /\ Commit(FillDials(opened, k))
        /\ Silent
    BY <1>1 DEF BeginDial
  <2>2. IGood(opened) /\ Goes(I, opened)
    BY <2>1, InvFacts, IOpens DEF Unopened
  <2> HIDE DEF opened
  <2>3. IMoves(opened)
    BY <2>2, IGoes
  <2>4. IMoves(FillDials(opened, k))
    BY <2>3, IMovesFills
  <2>5. QED
    BY <2>1, <2>4
<1>2. CASE BeginPreparedDial(k)
  <2> DEFINE taken == [I EXCEPT !.prepared = "adopted"]
             opened == OpenDial(taken)
             n == FillDials(opened, k)
  <2>1. I.prepared = "waiting" /\ Commit(n) /\ Silent
    BY <1>2 DEF BeginPreparedDial
  <2>2. I.dial.phase = "none"
    BY <2>1, InvFacts DEF IGood, InitiatorInv, Unopened
  <2>3. IGood(taken) /\ Goes(I, taken) /\ taken.prepared = "adopted" /\ taken.dial = I.dial
    <3>1. /\ taken \in Engines /\ taken.side = I.side /\ taken.closed = I.closed
          /\ taken.att = I.att
          /\ taken.out = I.out /\ taken.dial = I.dial /\ taken.prepared = "adopted"
      BY InvFacts DEF Engines
    <3> HIDE DEF taken
    <3>2. QED
      BY <3>1, InvFacts, IPrepares
  <2> HIDE DEF taken
  <2>4. IGood(opened) /\ Goes(taken, opened)
    BY <2>2, <2>3, InvFacts, IOpens DEF Unopened
  <2> HIDE DEF opened
  <2>5. IMoves(opened)
    BY <2>3, <2>4, GoesOn, IGoes
  <2>6. IMoves(n)
    BY <2>5, IMovesFills
  <2>7. QED
    BY <2>1, <2>6
<1>3. QED
  BY <1>1, <1>2

LEMMA IPrepare ==
    ASSUME HandshakeInv, PrepareDial
    PROVE  \E n : Commit(n) /\ IMoves(n) /\ Silent
<1> DEFINE r == [Reserved EXCEPT !.disposer = TRUE, !.given = TRUE]
           res == [I.res EXCEPT ![0] = r]
           n == [I EXCEPT !.prepared = "waiting",
                          !.res[0] = [Reserved EXCEPT !.disposer = TRUE, !.given = TRUE]]
<1>1. scenario.mode = "prepared" /\ I.prepared = "none" /\ Commit(n) /\ Silent
  BY DEF PrepareDial
<1>2. r \in Holdings
  BY DEF Reserved, Nothing, Holdings
<1>3. n = [I EXCEPT !.prepared = "waiting", !.res = res]
  BY InvFacts DEF Engines
<1> HIDE DEF r, n
<1>4. res \in [Owners -> Holdings]
  BY <1>2, InvFacts, EngineFields
<1> HIDE DEF res
<1>5. /\ n \in Engines /\ n.side = I.side /\ n.closed = I.closed /\ n.att = I.att
      /\ n.out = I.out /\ n.dial = I.dial /\ n.prepared = "waiting"
  BY <1>3, <1>4, InvFacts DEF Engines
<1>6. ~I.closed
  BY <1>1, <1>5, InvFacts DEF Commit, I
<1>7. I.dial.phase = "none"
  BY <1>1, <1>6, InvFacts DEF IGood, InitiatorInv, Unopened
<1>8. IGood(n) /\ Goes(I, n)
  BY <1>1, <1>5, <1>7, InvFacts, IPrepares
<1>9. QED
  BY <1>1, <1>8, IGoes

\* AbortPreparedDial, and the abort of Engine.Close.
LEMMA IAborts ==
    ASSUME NEW e, IGood(e)
    PROVE  LET n == Retire([e EXCEPT !.prepared = "aborted"], {0})
           IN  IGood(n) /\ Goes(e, n) /\ n.prepared = "aborted" /\ n.closed = e.closed
<1> DEFINE x == [e EXCEPT !.prepared = "aborted"]
           n == Retire(x, {0})
<1>1. e \in Engines
  BY DEF IGood
<1>2. /\ x \in Engines /\ x.side = e.side /\ x.closed = e.closed /\ x.att = e.att
      /\ x.out = e.out /\ x.dial = e.dial /\ x.prepared = "aborted"
  BY <1>1 DEF Engines
<1> HIDE DEF x
<1>4. IGood(x) /\ Goes(e, x)
  BY <1>2, IPrepares
<1>5. SameTalk(x, n)
  BY <1>2, RetireTalk
<1> HIDE DEF n
<1>6. IGood(n) /\ Goes(x, n)
  BY <1>4, <1>5, ITalks
<1>7. Goes(e, n)
  BY <1>4, <1>6, GoesOn
<1>8. n.prepared = "aborted" /\ n.closed = e.closed
  BY <1>2, <1>5 DEF SameTalk
<1>9. QED
  BY <1>6, <1>7, <1>8 DEF n, x

LEMMA IAbort ==
    ASSUME HandshakeInv, AbortPreparedDial
    PROVE  \E n : Commit(n) /\ IMoves(n) /\ Silent
<1> DEFINE n == Retire([I EXCEPT !.prepared = "aborted"], {0})
<1>1. Commit(n) /\ Silent
  BY DEF AbortPreparedDial
<1>2. IGood(n) /\ Goes(I, n)
  BY InvFacts, IAborts
<1> HIDE DEF n
<1>3. QED
  BY <1>1, <1>2, IGoes

LEMMA ICancels ==
    ASSUME HandshakeInv, CancelDial
    PROVE  \E n : Commit(n) /\ IMoves(n) /\ Silent
<1> DEFINE S == {id \in Live(I) : I.att[id].phase # "established"}
           dropped == DropDial(I)
           n == FailAttempts(dropped, S, TRUE)
<1>1. I.dial.phase = "open" /\ Commit(n) /\ Silent
  BY DEF CancelDial
<1>2. ~Unopened(I)
  BY <1>1, InvFacts DEF IGood, InitiatorInv
<1>3. IGood(dropped) /\ Goes(I, dropped) /\ dropped.att = I.att
  BY <1>2, InvFacts, IDrops
<1> HIDE DEF dropped
<1>4. S \in SUBSET Ids /\ S \subseteq Live(dropped)
  BY <1>3 DEF Live
<1> HIDE DEF S
<1>5. TRUE \in BOOLEAN
  OBVIOUS
<1>6. IGood(n) /\ Goes(dropped, n)
  BY <1>3, <1>4, <1>5, InvFacts, IFails
<1> HIDE DEF n
<1>7. QED
  BY <1>1, <1>3, <1>6, GoesOn, IGoes

LEMMA IEnds ==
    ASSUME HandshakeInv, NEW id, NEW k \in Nat, NEW notify \in BOOLEAN,
           Commit(FillDials(FailAttempt(I, id, notify), k))
    PROVE  \E n : Commit(n) /\ IMoves(n)
<1> DEFINE failed == FailAttempt(I, id, notify)
<1>1. IGood(failed) /\ Goes(I, failed)
  BY InvFacts, IFailsOne
<1>2. Commit(FillDials(failed, k))
  OBVIOUS
<1> HIDE DEF failed
<1>3. IMoves(FillDials(failed, k))
  BY <1>1, IGoes, IMovesFills
<1>4. QED
  BY <1>2, <1>3

----------------------------------------------------------------------------
(* The timer, on both sides.                                               *)

LEMMA RejectionsTalk ==
    ASSUME NEW e \in Engines, NEW rejections \in Rejections
    PROVE  SameTalk(e, [e EXCEPT !.rejections = rejections])
<1> DEFINE n == [e EXCEPT !.rejections = rejections]
<1>1. n \in Engines
  BY DEF Engines
<1>2. /\ n.side = e.side /\ n.att = e.att /\ n.dial = e.dial /\ n.prepared = e.prepared
      /\ n.closed = e.closed /\ n.out = e.out
  BY DEF Engines
<1> HIDE DEF n
<1>3. SameTalk(e, n)
  BY <1>1, <1>2 DEF SameTalk
<1>4. QED
  BY <1>3 DEF n

LEMMA RestrictedRejections ==
    ASSUME NEW r \in Rejections, NEW S, S \subseteq DOMAIN r
    PROVE  Restrict(r, S) \in Rejections
<1>1. PICK D \in SUBSET Ids : r \in [D -> 0..Lifetime]
  BY DEF Rejections
<1>2. Restrict(r, S) \in [S -> 0..Lifetime]
  BY <1>1 DEF Restrict
<1>3. S \in SUBSET Ids
  BY <1>1
<1>4. QED
  BY <1>2, <1>3 DEF Rejections

\* Engine.Advance fails attempts, takes packets from others and repeats others.
LEMMA AdvanceSteps ==
    ASSUME scenario \in Scenarios, NEW e \in Engines
    PROVE  \E S \in SUBSET Ids : \E b :
             /\ S \subseteq Live(e) /\ Repeats(FailAttempts(e, S, TRUE), b)
             /\ Repeats(b, AdvanceAttempts(e))
<1> DEFINE late == {id \in Live(e) : e.att[id].ttl = 0}
           lapsed == {id \in late : e.att[id].phase = "established"}
           due == {id \in Live(e) \ late : /\ e.att[id].packets /\ CanSend(e.att[id])
                                           /\ e.att[id].wait = 0}
           S == late \ lapsed
           f == FailAttempts(e, S, TRUE)
           b == ReleasePackets(f, lapsed)
           n == Retransmit(b, due)
<1>1. n = AdvanceAttempts(e)
  BY DEF AdvanceAttempts
<1>2. /\ S \in SUBSET Ids /\ S \subseteq Live(e) /\ lapsed \in SUBSET Ids /\ due \in SUBSET Ids
      /\ \A id \in due : id \notin S /\ id \notin lapsed
      /\ \A id \in due : e.att[id].phase # "none" /\ e.att[id].packets /\ CanSend(e.att[id])
  BY DEF Live
<1> HIDE DEF S, lapsed, due
<1>3. f \in Engines /\ f.att = [id \in Ids |-> IF id \in S THEN NoAttempt ELSE e.att[id]]
  <2>1. TRUE \in BOOLEAN
    OBVIOUS
  <2>2. QED
    BY <1>2, <2>1, FailShape
<1> HIDE DEF f
<1>4. Repeats(f, b) /\ \A id \in Ids \ lapsed : b.att[id] = f.att[id]
  BY <1>2, <1>3, ReleaseRepeats
<1> HIDE DEF b
<1>5. b \in Engines /\ \A id \in due : b.att[id] = e.att[id]
  BY <1>2, <1>3, <1>4 DEF Repeats
<1>6. Repeats(b, n)
  BY <1>2, <1>5, RetransmitRepeats
<1>7. QED
  BY <1>1, <1>2, <1>4, <1>6 DEF f

LEMMA IAdvances ==
    ASSUME HandshakeInv, NEW k \in Nat, Advance("initiator", k)
    PROVE  \E n : Commit(n) /\ IMoves(n) /\ Silent
<1> DEFINE kept == {id \in DOMAIN I.rejections : I.rejections[id] > 0}
           r == Restrict(I.rejections, kept)
           e == [I EXCEPT !.rejections = Restrict(@, kept)]
           n == AdvanceAttempts(e)
<1>1. Commit(FillDials(n, k)) /\ Silent
  BY DEF Advance, I
<1>2. r \in Rejections
  BY InvFacts, EngineFields, RestrictedRejections
<1>3. e = [I EXCEPT !.rejections = r]
  OBVIOUS
<1> HIDE DEF r, e
<1>4. SameTalk(I, e)
  BY <1>2, <1>3, InvFacts, RejectionsTalk
<1>5. IGood(e) /\ Goes(I, e)
  BY <1>4, InvFacts, ITalks
<1>6. PICK S \in SUBSET Ids : \E b :
        /\ S \subseteq Live(e) /\ Repeats(FailAttempts(e, S, TRUE), b) /\ Repeats(b, n)
  BY <1>5, InvFacts, AdvanceSteps DEF IGood
<1>7. PICK b : S \subseteq Live(e) /\ Repeats(FailAttempts(e, S, TRUE), b) /\ Repeats(b, n)
  BY <1>6
<1> DEFINE f == FailAttempts(e, S, TRUE)
<1>8. IGood(f) /\ Goes(e, f) /\ Repeats(f, b)
  <2>1. TRUE \in BOOLEAN
    OBVIOUS
  <2>2. QED
    BY <1>5, <1>7, <2>1, InvFacts, IFails
<1> HIDE DEF f, n
<1>9. IGood(b) /\ Goes(f, b)
  BY <1>8, InvFacts, IRepeats
<1>10. IGood(n) /\ Goes(b, n)
  BY <1>7, <1>9, InvFacts, IRepeats
<1>11. IMoves(n)
  BY <1>5, <1>8, <1>9, <1>10, GoesOn, IGoes
<1>12. IMoves(FillDials(n, k))
  BY <1>11, IMovesFills
<1>13. QED
  BY <1>1, <1>12

LEMMA ICloses ==
    ASSUME HandshakeInv, CloseEngine("initiator")
    PROVE  \E n : Commit(n) /\ IMoves(n) /\ Silent
<1> DEFINE none == [id \in {} |-> 0]
           e == [I EXCEPT !.closed = TRUE, !.rejections = [id \in {} |-> 0]]
           retired == Retire([e EXCEPT !.prepared = "aborted"], {0})
           aborted == IF e.prepared = "waiting" THEN retired ELSE e
           dropped == DropDial(aborted)
           S == Live(e)
           n == FailAttempts(dropped, S, TRUE)
<1>1. Commit(n) /\ Silent
  BY DEF CloseEngine, I
<1>2. none \in Rejections
  <2>1. none \in [{} -> 0..Lifetime] /\ {} \in SUBSET Ids
    OBVIOUS
  <2>2. QED
    BY <2>1 DEF Rejections
<1> HIDE DEF none
<1>3. e = [I EXCEPT !.closed = TRUE, !.rejections = none]
  BY DEF none
<1> HIDE DEF e
<1>4. /\ e \in Engines /\ e.closed /\ e.side = I.side /\ e.att = I.att /\ e.out = I.out
      /\ e.dial = I.dial /\ e.prepared = I.prepared
  BY <1>2, <1>3, InvFacts DEF Engines
<1>5. IGood(e) /\ Goes(I, e)
  <2>1. InitiatorInv(I, msgs \cup I.out)
    BY InvFacts DEF IGood
  <2>2. IGood(e)
    BY <1>4, <2>1 DEF IGood, InitiatorInv, Unopened
  <2>3. Goes(I, e)
    BY <1>4 DEF Goes, Finished
  <2>4. QED
    BY <2>2, <2>3
<1>6. IGood(retired) /\ Goes(e, retired) /\ retired.prepared = "aborted"
      /\ retired.closed = e.closed
  BY <1>5, IAborts
<1> HIDE DEF retired
<1>7. IGood(aborted) /\ Goes(I, aborted) /\ ~Unopened(aborted)
  BY <1>4, <1>5, <1>6, GoesOn DEF Unopened
<1> HIDE DEF aborted
<1>8. IGood(dropped) /\ Goes(aborted, dropped) /\ dropped.att = aborted.att
  BY <1>7, IDrops
<1>9. aborted.att = e.att
  <2>1. SameTalk([e EXCEPT !.prepared = "aborted"], retired)
    <3>1. [e EXCEPT !.prepared = "aborted"] \in Engines
      BY <1>4 DEF Engines
    <3>2. QED
      BY <3>1, RetireTalk DEF retired
  <2>2. QED
    BY <1>4, <2>1 DEF SameTalk, aborted, Engines
<1> HIDE DEF dropped
<1>10. S \in SUBSET Ids /\ S \subseteq Live(dropped)
  BY <1>8, <1>9 DEF Live
<1> HIDE DEF S
<1>11. IGood(n) /\ Goes(dropped, n)
  <2>1. TRUE \in BOOLEAN
    OBVIOUS
  <2>2. QED
    BY <1>8, <1>10, <2>1, InvFacts, IFails
<1> HIDE DEF n
<1>12. QED
  BY <1>1, <1>7, <1>8, <1>11, GoesOn, IGoes

----------------------------------------------------------------------------
(* The responder's engine during a call.                                   *)

RGood(e) ==
    /\ e \in Engines /\ ResponderInv(e, msgs \cup e.out)
    /\ \A m \in e.out : m.type # "FINISH"
    /\ \A m \in e.out : m.type = "READY" =>
         e.att[m.id].phase = "established" /\ e.att[m.id].nonce = m.nonce

\* A step that installs nothing.
RGoes(e, n) ==
    /\ n.side = e.side
    /\ \A id \in Ids : n.att[id].phase = "established" =>
         e.att[id].phase = "established" /\ n.att[id].nonce = e.att[id].nonce

NoReady(e) == \A m \in e.out : m.type # "READY"

LEMMA RRepeats ==
    ASSUME scenario \in Scenarios, NEW e, RGood(e), NEW n, Repeats(e, n)
    PROVE  RGood(n) /\ RGoes(e, n)
<1>1. e \in Engines /\ ResponderInv(e, msgs \cup e.out)
  BY DEF RGood
<1>2. \A id \in Ids : RAttempt(id, e.att[id], msgs \cup e.out) /\ Kept(e.att[id], n.att[id])
  BY <1>1 DEF ResponderInv, Repeats
<1>3. ASSUME NEW id \in Ids PROVE RAttempt(id, n.att[id], msgs \cup n.out)
  <2>1. e.out \subseteq n.out
    BY DEF Repeats
  <2>2. QED
    BY <1>2, <2>1 DEF RAttempt, Kept
<1>4. ASSUME NEW m \in n.out
      PROVE  /\ m.type # "FINISH"
             /\ m.type = "READY" => n.att[m.id].phase = "established" /\ n.att[m.id].nonce = m.nonce
  <2>1. n.out \in SUBSET Packets
    BY EngineFields DEF Repeats
  <2>2. m.id \in Ids
    BY <2>1 DEF Packets
  <2>3. Kept(e.att[m.id], n.att[m.id])
    BY <1>2, <2>2
  <2>4. CASE m \in e.out
    BY <2>3, <2>4 DEF RGood, Kept
  <2>5. CASE Says(e, m)
    <3>1. e.att[m.id].phase \in {"waitFinish", "established"}
      BY <1>2, <2>2, <2>5 DEF RAttempt, Says
    <3>2. e.att[m.id].phase \in Phases /\ e.att[m.id].phase # "none"
      BY <3>1 DEF Phases
    <3>3. QED
      BY <2>3, <2>5, <3>1, <3>2, RetransmissionType DEF Says, Kept
  <2>6. QED
    BY <2>4, <2>5 DEF Repeats
<1>5. RGood(n)
  BY <1>1, <1>3, <1>4 DEF RGood, ResponderInv, Repeats
<1>6. RGoes(e, n)
  BY <1>2 DEF RGoes, Repeats, Kept
<1>7. QED
  BY <1>5, <1>6

LEMMA RTalks ==
    ASSUME NEW e, RGood(e), NEW n, SameTalk(e, n)
    PROVE  RGood(n) /\ RGoes(e, n) /\ n.out = e.out
  BY DEF RGood, ResponderInv, SameTalk, RGoes

LEMMA RFails ==
    ASSUME scenario \in Scenarios, NEW e, RGood(e), NoReady(e), NEW S \in SUBSET Ids,
           NEW notify \in BOOLEAN
    PROVE  LET n == FailAttempts(e, S, notify)
           IN  RGood(n) /\ RGoes(e, n) /\ NoReady(n)
<1> DEFINE n == FailAttempts(e, S, notify)
<1>1. e \in Engines /\ ResponderInv(e, msgs \cup e.out)
  BY DEF RGood
<1>2. /\ n \in Engines /\ n.side = e.side
      /\ n.att = [id \in Ids |-> IF id \in S THEN NoAttempt ELSE e.att[id]]
      /\ e.out \subseteq n.out /\ \A m \in n.out : m \in e.out \/ m.type = "CLOSE"
      /\ n.dial.phase = e.dial.phase \/ (n.dial.phase = "over" /\ \E id \in S : TRUE)
  BY <1>1, FailShape
<1> HIDE DEF n
<1>3. NoAttempt.phase = "none"
  BY DEF NoAttempt
<1>4. ASSUME NEW id \in Ids PROVE RAttempt(id, n.att[id], msgs \cup n.out)
  <2>1. RAttempt(id, e.att[id], msgs \cup e.out)
    BY <1>1 DEF ResponderInv
  <2>2. n.att[id] = NoAttempt \/ n.att[id] = e.att[id]
    BY <1>2
  <2>3. QED
    BY <1>2, <1>3, <2>1, <2>2 DEF RAttempt
<1>5. \A m \in n.out : m.type # "FINISH" /\ m.type # "READY"
  BY <1>2 DEF RGood, NoReady
<1>6. n.dial.phase # "open"
  BY <1>1, <1>2 DEF ResponderInv
<1>7. RGood(n) /\ NoReady(n)
  BY <1>2, <1>4, <1>5, <1>6 DEF RGood, ResponderInv, NoReady
<1>8. RGoes(e, n)
  BY <1>2, <1>3 DEF RGoes
<1>9. QED
  BY <1>7, <1>8 DEF n

LEMMA RFailsOne ==
    ASSUME scenario \in Scenarios, NEW e, RGood(e), NoReady(e), NEW id, NEW notify \in BOOLEAN
    PROVE  LET n == FailAttempt(e, id, notify)
           IN  RGood(n) /\ RGoes(e, n) /\ NoReady(n)
<1>1. {id} \cap Live(e) \in SUBSET Ids
  BY DEF Live
<1>2. QED
  BY <1>1, RFails DEF FailAttempt

\* fillDial finds no open dial.
LEMMA RFills ==
    ASSUME NEW e, RGood(e), NEW k
    PROVE  FillDials(e, k) = e
  BY DEF RGood, ResponderInv, FillDials

\* Engine.reject.
LEMMA RRejects ==
    ASSUME scenario \in Scenarios, NEW e, RGood(e), NEW id \in Ids
    PROVE  RGood(Reject(e, id)) /\ RGoes(e, Reject(e, id))
<1> DEFINE m == Packet(e, "REJECT", id)
           r == [i \in {id} \cup DOMAIN e.rejections |->
                    IF i = id THEN Lifetime ELSE e.rejections[i]]
           out == e.out \cup {m}
           n == Reject(e, id)
<1>1. e \in Engines /\ RGoes(e, e)
  BY DEF RGood, RGoes
<1>2. m \in Packets /\ m.type = "REJECT"
  BY <1>1, PacketTyped DEF PacketTypes
<1>3. r \in Rejections
  <2>1. PICK D \in SUBSET Ids : e.rejections \in [D -> 0..Lifetime]
    BY <1>1, EngineFields DEF Rejections
  <2>2. Lifetime \in 0..Lifetime
    BY TimesAssumption
  <2>3. r \in [{id} \cup D -> 0..Lifetime]
    BY <2>1, <2>2
  <2>4. {id} \cup D \in SUBSET Ids
    OBVIOUS
  <2>5. QED
    BY <2>3, <2>4 DEF Rejections
<1> HIDE DEF m, r
<1>4. out \in SUBSET Packets
  BY <1>1, <1>2, EngineFields
<1>5. CASE n = e
  BY <1>1, <1>5
<1>6. CASE n = [e EXCEPT !.rejections = r, !.out = out]
  <2> HIDE DEF out, n
  <2>1. /\ n \in Engines /\ n.side = e.side /\ n.att = e.att /\ n.dial = e.dial
        /\ n.out = out
    BY <1>1, <1>3, <1>4, <1>6 DEF Engines
  <2>2. ResponderInv(n, msgs \cup n.out)
    BY <2>1 DEF RGood, ResponderInv, RAttempt, out
  <2>3. RGood(n)
    BY <1>2, <2>1, <2>2 DEF RGood, out
  <2>4. RGoes(e, n)
    BY <2>1 DEF RGoes
  <2>5. QED
    BY <2>3, <2>4 DEF n
<1>7. n = e \/ n = [e EXCEPT !.rejections = r, !.out = out]
  BY DEF Reject, r, m
<1>8. QED
  BY <1>5, <1>6, <1>7

\* receiveHello: a new attempt and its CHALLENGE.
LEMMA ROpens ==
    ASSUME scenario \in Scenarios, NEW e, RGood(e), NoReady(e), NEW id \in Ids,
           nonces \in 0..MaxNonce, nonces < MaxNonce, Contract(id).valid
    PROVE  LET n == NewResponder(e, id, TRUE)
           IN  RGood(n) /\ RGoes(e, n)
<1> DEFINE fresh == nonces + 1
           waits == "waitFinish"
           yes == TRUE
           a == [NoAttempt EXCEPT !.phase = waits, !.ttl = Lifetime, !.packets = yes, !.owner = fresh]
           b == [a EXCEPT !.nonce = fresh]
           att == [e.att EXCEPT ![id] = b]
           res == [e.res EXCEPT ![fresh] = Reserved]
           more == e.pending + 1
           opened == [e EXCEPT !.att[id] = [NoAttempt EXCEPT
                                  !.phase = waits, !.ttl = Lifetime, !.packets = yes, !.owner = fresh],
                               !.res[fresh] = Reserved, !.pending = @ + 1]
           x == WithKeys(opened, id, fresh)
           n == Send(x, id, "CHALLENGE", TRUE)
<1>1. e \in Engines /\ ResponderInv(e, msgs \cup e.out)
  BY DEF RGood
<1>2. fresh \in 0..MaxNonce /\ fresh \in Owners
  BY LimitsAssumption DEF Owners
<1>3. NoAttempt \in Attempts /\ Reserved \in Holdings
  BY NoneTypes
<1>4. waits \in Phases /\ yes \in BOOLEAN /\ Lifetime \in 0..Lifetime
  BY TimesAssumption DEF Phases
<1>5. x = [e EXCEPT !.att = att, !.res = res, !.pending = more]
  <2>1. opened = [e EXCEPT !.att = [e.att EXCEPT ![id] = a], !.res = res, !.pending = more]
    BY <1>1, EngineFields DEF Engines
  <2>2. e.att \in [Ids -> Attempts]
    BY <1>1, EngineFields
  <2> HIDE DEF opened, a, res, more
  <2>3. opened.att = [e.att EXCEPT ![id] = a]
    BY <1>1, <2>1 DEF Engines
  <2>4. x = [opened EXCEPT !.att = att]
    BY <1>1, <2>1, <2>2, <2>3 DEF WithKeys, Engines
  <2>5. QED
    BY <1>1, <2>1, <2>4 DEF Engines
<1>6. n = NewResponder(e, id, TRUE)
  BY DEF NewResponder
<1> HIDE DEF fresh, waits, yes, x, opened
<1>7. a \in Attempts /\ a.phase = waits /\ a.sends = 0
  <2>1. NoAttempt.sends = 0
    BY DEF NoAttempt
  <2>2. QED
    BY <1>2, <1>3, <1>4, <2>1 DEF Attempts
<1> HIDE DEF a
<1>8. b \in Attempts /\ b.phase = waits /\ b.sends = 0
  BY <1>2, <1>7 DEF Attempts
<1> HIDE DEF b
<1>9. att \in [Ids -> Attempts] /\ att[id] = b /\ \A i \in Ids : i # id => att[i] = e.att[i]
  BY <1>1, <1>8, EngineFields
<1>10. res \in [Owners -> Holdings] /\ more \in Int
  <2>1. e.res \in [Owners -> Holdings] /\ e.pending \in Int
    BY <1>1, EngineFields
  <2>2. res \in [Owners -> Holdings]
    BY <1>3, <2>1
  <2>3. QED
    BY <2>1, <2>2
<1> HIDE DEF att, res, more
<1>11. /\ x \in Engines /\ x.side = e.side /\ x.out = e.out /\ x.dial = e.dial /\ x.att = att
  BY <1>1, <1>5, <1>9, <1>10 DEF Engines
<1>12. waits = "waitFinish"
  BY DEF waits
<1>13. ASSUME NEW i \in Ids PROVE RAttempt(i, x.att[i], msgs \cup x.out)
  <2>1. RAttempt(i, e.att[i], msgs \cup e.out)
    BY <1>1 DEF ResponderInv
  <2>2. 0 < scenario.maxSends
    BY ScenarioFacts
  <2>3. CASE i = id
    BY <1>8, <1>9, <1>11, <1>12, <2>2, <2>3 DEF RAttempt
  <2>4. CASE i # id
    BY <1>9, <1>11, <2>1, <2>4
  <2>5. QED
    BY <2>3, <2>4
<1>14. RGood(x)
  BY <1>1, <1>11, <1>13 DEF RGood, ResponderInv, NoReady
<1>15. Repeats(x, n)
  <2>1. /\ x.att[id].phase # "none" /\ x.att[id].phase # "established"
        /\ Retransmission(x.att[id]) = "CHALLENGE"
    BY <1>8, <1>9, <1>11, <1>12, RetransmissionType DEF Phases
  <2>2. QED
    BY <1>11, <2>1, SendRepeats
<1> HIDE DEF n
<1>16. RGood(n) /\ RGoes(x, n)
  BY <1>14, <1>15, RRepeats
<1>17. RGoes(e, x)
  BY <1>8, <1>9, <1>11, <1>12 DEF RGoes
<1>18. RGoes(e, n)
  BY <1>16, <1>17 DEF RGoes
<1>19. QED
  BY <1>6, <1>16, <1>18

----------------------------------------------------------------------------
(* The actions of the responder.                                           *)

\* What a call makes of the responder's engine.
RMoves(n) ==
    /\ n.side = "responder" /\ RGood(n)
    /\ \A id \in Ids : n.att[id].phase = "established" =>
         \/ R.att[id].phase = "established" /\ n.att[id].nonce = R.att[id].nonce
         \/ Contract(id).valid /\ \E m \in Finishes(msgs, id) : m.nonce = n.att[id].nonce

LEMMA RFacts ==
    ASSUME HandshakeInv
    PROVE  RGood(R) /\ NoReady(R) /\ RMoves(R)
<1>1. msgs \cup R.out = msgs
  BY InvFacts
<1>2. RGood(R)
  BY <1>1, InvFacts DEF RGood, HandshakeInv
<1>3. QED
  BY <1>2, InvFacts DEF NoReady, RMoves

LEMMA RGoesMoves ==
    ASSUME HandshakeInv, NEW n, RGood(n), RGoes(R, n)
    PROVE  RMoves(n)
  BY InvFacts DEF RMoves, RGoes

LEMMA RReceives ==
    ASSUME HandshakeInv, NEW id \in Ids, NEW starts, NEW h, RMoves(h), Receive(R, id, h, starts)
    PROVE  \E n : Commit(n) /\ RMoves(n) /\ Silent
<1> DEFINE filled == FillDials(h, starts)
           bare == ReleasePackets(R, {id})
           failed == FailAttempt(R, id, TRUE)
           refilled == FillDials(failed, starts)
<1>1. filled = h
  BY RFills DEF RMoves
<1>2. RMoves(bare)
  <2>1. Repeats(R, bare)
    BY InvFacts, ReleaseRepeats
  <2> HIDE DEF bare
  <2>2. RGood(bare) /\ RGoes(R, bare)
    BY <2>1, InvFacts, RFacts, RRepeats
  <2>3. QED
    BY <2>2, RGoesMoves
<1>3. RMoves(refilled)
  <2>1. RGood(failed) /\ RGoes(R, failed)
    <3>1. TRUE \in BOOLEAN
      OBVIOUS
    <3>2. QED
      BY <3>1, InvFacts, RFacts, RFailsOne
  <2> HIDE DEF failed
  <2>2. refilled = failed
    BY <2>1, RFills
  <2>3. QED
    BY <2>1, <2>2, RGoesMoves
<1>4. Silent /\ (Commit(filled) \/ Commit(bare) \/ Commit(refilled))
  BY DEF Receive
<1> HIDE DEF filled, bare, refilled
<1>5. QED
  BY <1>1, <1>2, <1>3, <1>4

LEMMA RHello ==
    ASSUME HandshakeInv, NEW id \in Ids, NEW admit \in BOOLEAN, ReceiveHello(id, admit)
    PROVE  \E n : Commit(n) /\ RMoves(n) /\ nonces' \in 0..MaxNonce
<1> DEFINE a == R.att[id]
           failed == FailAttempt(R, id, TRUE)
           over == IF a.phase = "waitFinish" THEN failed ELSE R
           again == Send(R, id, "CHALLENGE", FALSE)
           opened == NewResponder(over, id, admit)
<1>1. RGood(R) /\ NoReady(R) /\ RGoes(R, R)
  BY RFacts DEF RGoes
<1>2. CASE a.phase = "waitFinish" /\ a.ttl > 0
  <2>1. Commit(again) /\ Silent
    BY <1>2 DEF ReceiveHello
  <2>2. a.phase # "none" /\ a.phase # "established" /\ Retransmission(a) = "CHALLENGE"
    BY <1>2, RetransmissionType DEF Phases
  <2>3. Repeats(R, again)
    BY <2>2, InvFacts, SendRepeats
  <2> HIDE DEF again
  <2>4. RGood(again) /\ RGoes(R, again)
    BY <1>1, <2>3, InvFacts, RRepeats
  <2>5. RMoves(again)
    BY <2>4, RGoesMoves
  <2>6. QED
    BY <2>1, <2>5, InvFacts DEF Silent
<1>3. CASE ~(a.phase = "waitFinish" /\ a.ttl > 0)
  <2>1. /\ admit => nonces < MaxNonce /\ Contract(id).valid
        /\ Commit(opened) /\ nonces' = IF admit THEN nonces + 1 ELSE nonces
    BY <1>3 DEF ReceiveHello
  <2>2. RGood(failed) /\ RGoes(R, failed) /\ NoReady(failed)
    <3>1. TRUE \in BOOLEAN
      OBVIOUS
    <3>2. QED
      BY <1>1, <3>1, InvFacts, RFailsOne
  <2> HIDE DEF failed
  <2>3. RGood(over) /\ RGoes(R, over) /\ NoReady(over)
    BY <1>1, <2>2
  <2> HIDE DEF over
  <2>4. RGood(opened) /\ RGoes(over, opened)
    <3>1. CASE admit
      <4>1. opened = NewResponder(over, id, TRUE)
        BY <3>1
      <4>2. QED
        BY <2>1, <2>3, <3>1, <4>1, InvFacts, ROpens
    <3>2. CASE ~admit
      <4>1. opened = Reject(over, id)
        BY <3>2 DEF NewResponder
      <4>2. QED
        BY <2>3, <4>1, InvFacts, RRejects
    <3>3. QED
      BY <3>1, <3>2
  <2> HIDE DEF opened
  <2>5. RGoes(R, opened)
    BY <2>3, <2>4 DEF RGoes
  <2>6. RMoves(opened)
    BY <2>4, <2>5, RGoesMoves
  <2>7. nonces' \in 0..MaxNonce
    BY <2>1, InvFacts, LimitsAssumption
  <2>8. QED
    BY <2>1, <2>6, <2>7
<1>4. QED
  BY <1>2, <1>3

\* FINISH installs the transcript it names, and READY says so.
LEMMA RFinish ==
    ASSUME HandshakeInv, NEW m \in msgs, NEW outcome \in Outcomes, ReceiveFinish(m, outcome)
    PROVE  \E n : Commit(n) /\ RMoves(n) /\ Silent
<1> DEFINE id == m.id
           a == R.att[id]
           done == Install(R, id, outcome)
           again == Send(R, id, "READY", FALSE)
           first == Send(done, id, "READY", TRUE)
           h == IF a.phase = "established" THEN again
                ELSE IF outcome = "ok" THEN first
                ELSE done
<1>1. id \in Ids /\ m.type = "FINISH"
  BY InvFacts DEF ReceiveFinish
<1>2. Receive(R, id, h, 0)
  BY DEF ReceiveFinish
<1>3. a.packets /\ a.phase # "none" /\ a.nonce = m.nonce
  BY <1>1 DEF ReceiveFinish, Expects, Authentic, R
<1>4. RAttempt(id, a, msgs)
  BY <1>1 DEF HandshakeInv, ResponderInv
<1>5. Contract(id).valid /\ a.phase \in {"waitFinish", "established"} /\ m \in Finishes(msgs, id)
  BY <1>1, <1>3, <1>4 DEF RAttempt, Finishes
<1>6. CASE a.phase = "established"
  <2>1. Retransmission(a) = "READY" /\ a.phase # "none"
    BY <1>6, RetransmissionType DEF Phases
  <2>2. Repeats(R, again)
    BY <1>1, <1>3, <2>1, InvFacts, SendRepeats
  <2> HIDE DEF again
  <2>3. RGood(again) /\ RGoes(R, again)
    BY <2>2, InvFacts, RFacts, RRepeats
  <2>4. h = again
    BY <1>6
  <2> HIDE DEF h
  <2>5. RMoves(h)
    BY <2>3, <2>4, RGoesMoves
  <2>6. QED
    BY <1>1, <1>2, <2>5, RReceives
<1>7. CASE a.phase # "established" /\ outcome # "ok"
  <2>1. PICK x : /\ SameTalk(R, x)
                 /\ \/ /\ outcome = "ok"
                       /\ Install(R, id, outcome) =
                            [x EXCEPT !.att[id].phase = "established", !.pending = @ - 1]
                    \/ outcome # "ok" /\ Install(R, id, outcome) = FailAttempt(x, id, TRUE)
    BY <1>1, InvFacts, InstallShape, ZenonT(60)
  <2>2. done = FailAttempt(x, id, TRUE)
    BY <1>7, <2>1
  <2>3. RGood(x) /\ RGoes(R, x) /\ x.out = R.out
    BY <2>1, RFacts, RTalks
  <2>4. NoReady(x)
    BY <2>3, InvFacts DEF NoReady
  <2> HIDE DEF done
  <2>5. RGood(done) /\ RGoes(x, done)
    <3>1. TRUE \in BOOLEAN
      OBVIOUS
    <3>2. QED
      BY <2>2, <2>3, <2>4, <3>1, InvFacts, RFailsOne
  <2>6. h = done /\ RGoes(R, done)
    BY <1>7, <2>3, <2>5 DEF RGoes
  <2> HIDE DEF h
  <2>7. RMoves(h)
    BY <2>5, <2>6, RGoesMoves
  <2>8. QED
    BY <1>1, <1>2, <2>7, RReceives
<1>8. CASE a.phase = "waitFinish" /\ outcome = "ok"
  <2>1. PICK x : /\ SameTalk(R, x)
                 /\ done = [x EXCEPT !.att[id].phase = "established", !.pending = @ - 1]
    <3>1. PICK x : /\ SameTalk(R, x)
                   /\ \/ /\ outcome = "ok"
                         /\ Install(R, id, outcome) =
                              [x EXCEPT !.att[id].phase = "established", !.pending = @ - 1]
                      \/ outcome # "ok" /\ Install(R, id, outcome) = FailAttempt(x, id, TRUE)
      BY <1>1, InvFacts, InstallShape, ZenonT(60)
    <3>2. QED
      BY <1>8, <3>1
  <2> DEFINE y == [x EXCEPT !.att[id].phase = "established", !.pending = @ - 1]
  <2>2. /\ y \in Engines /\ y.side = x.side /\ y.dial = x.dial /\ y.out = x.out
        /\ \A i \in Ids : i # id => y.att[i] = x.att[i]
        /\ y.att[id].phase = "established" /\ y.att[id].nonce = x.att[id].nonce
        /\ y.att[id].packets = x.att[id].packets /\ y.att[id].sends = x.att[id].sends
    <3>1. x \in Engines /\ scenario \in Scenarios
      BY <2>1, InvFacts DEF SameTalk
    <3>2. QED
      BY <1>1, <3>1, EstablishShape
  <2>3. done = y
    BY <2>1
  <2>4. first = Send(y, id, "READY", TRUE)
    BY <2>3
  <2> HIDE DEF y, done, first, id
  <2>5. /\ y.side = "responder" /\ y.dial = R.dial /\ y.out = {}
        /\ \A i \in Ids : i # id => y.att[i] = R.att[i]
        /\ y.att[id].nonce = a.nonce /\ y.att[id].packets /\ y.att[id].sends = a.sends
    BY <1>1, <1>3, <2>1, <2>2, InvFacts DEF SameTalk
  <2>6. Retransmission(y.att[id]) = "READY"
    BY <2>2, RetransmissionType DEF Phases
  <2>7. CanSend(y.att[id])
    BY <1>4, <1>8, <2>2, <2>5 DEF CanSend, RAttempt
  <2>8. Repeats(y, first) /\ Packet(y, "READY", id) \in first.out
    BY <1>1, <2>2, <2>4, <2>5, <2>6, <2>7, InvFacts, SendRepeats
  <2>9. /\ Packet(y, "READY", id).type = "READY" /\ Packet(y, "READY", id).id = id
        /\ Packet(y, "READY", id).nonce = a.nonce
    BY <1>1, <2>2, <2>5, InvFacts, PacketTyped DEF PacketTypes
  <2>10. \A i \in Ids : RAttempt(i, R.att[i], msgs) /\ Kept(y.att[i], first.att[i])
    BY <2>8 DEF HandshakeInv, ResponderInv, Repeats
  <2>11. ASSUME NEW i \in Ids PROVE RAttempt(i, first.att[i], msgs \cup first.out)
    <3>1. CASE i = id
      <4>1. first.att[id].phase = "established" /\ first.att[id].nonce = a.nonce
        BY <1>1, <2>2, <2>5, <2>10 DEF Kept
      <4>2. QED
        BY <1>5, <2>8, <2>9, <3>1, <4>1 DEF RAttempt
    <3>2. CASE i # id
      <4>1. RAttempt(i, y.att[i], msgs) /\ Kept(y.att[i], first.att[i])
        BY <2>5, <2>10, <3>2
      <4>2. QED
        BY <4>1 DEF RAttempt, Kept
    <3>3. QED
      BY <3>1, <3>2
  <2>12. ASSUME NEW p \in first.out
         PROVE  /\ p.type # "FINISH"
                /\ p.type = "READY" =>
                     first.att[p.id].phase = "established" /\ first.att[p.id].nonce = p.nonce
    <3>1. Says(y, p) /\ p.id \in Ids
      BY <2>5, <2>8 DEF Repeats, Says, Packets
    <3>2. y.att[p.id].phase \in {"waitFinish", "established"}
      BY <2>2, <2>5, <2>10, <3>1 DEF RAttempt, Says
    <3>3. y.att[p.id].phase \in Phases /\ y.att[p.id].phase # "none"
      BY <3>2 DEF Phases
    <3>4. QED
      BY <2>10, <3>1, <3>2, <3>3, RetransmissionType DEF Says, Kept
  <2>13. first \in Engines /\ first.side = "responder" /\ first.dial = R.dial
    BY <2>5, <2>8 DEF Repeats
  <2>14. RGood(first)
    BY <2>11, <2>12, <2>13 DEF RGood, ResponderInv, HandshakeInv
  <2>15. ASSUME NEW i \in Ids, first.att[i].phase = "established"
         PROVE  \/ R.att[i].phase = "established" /\ first.att[i].nonce = R.att[i].nonce
                \/ Contract(i).valid /\ \E f \in Finishes(msgs, i) : f.nonce = first.att[i].nonce
    <3>1. CASE i = id
      <4>1. first.att[i].nonce = m.nonce
        BY <1>3, <2>5, <2>10, <3>1 DEF Kept
      <4>2. QED
        BY <1>5, <3>1, <4>1
    <3>2. CASE i # id
      BY <2>5, <2>10, <2>15, <3>2 DEF Kept
    <3>3. QED
      BY <3>1, <3>2
  <2>16. RMoves(first)
    BY <2>13, <2>14, <2>15 DEF RMoves
  <2>17. h = first
    BY <1>8
  <2> HIDE DEF h
  <2>18. QED
    BY <1>1, <1>2, <2>16, <2>17, RReceives
<1>9. QED
  BY <1>5, <1>6, <1>7, <1>8

LEMMA RLike ==
    ASSUME NEW e, RGood(e), NEW n \in Engines,
           n.side = e.side, n.att = e.att, n.out = e.out, n.dial = e.dial
    PROVE  RGood(n) /\ RGoes(e, n)
  BY DEF RGood, ResponderInv, RGoes

LEMMA REnds ==
    ASSUME HandshakeInv, NEW id, NEW k, NEW notify \in BOOLEAN,
           Commit(FillDials(FailAttempt(R, id, notify), k))
    PROVE  \E n : Commit(n) /\ RMoves(n)
<1> DEFINE failed == FailAttempt(R, id, notify)
<1>1. RGood(failed) /\ RGoes(R, failed)
  BY InvFacts, RFacts, RFailsOne
<1>2. Commit(FillDials(failed, k))
  OBVIOUS
<1> HIDE DEF failed
<1>3. FillDials(failed, k) = failed
  BY <1>1, RFills
<1>4. RMoves(failed)
  BY <1>1, RGoesMoves
<1>5. QED
  BY <1>2, <1>3, <1>4

LEMMA RAdvances ==
    ASSUME HandshakeInv, NEW k, Advance("responder", k)
    PROVE  \E n : Commit(n) /\ RMoves(n) /\ Silent
<1> DEFINE kept == {id \in DOMAIN R.rejections : R.rejections[id] > 0}
           r == Restrict(R.rejections, kept)
           e == [R EXCEPT !.rejections = Restrict(@, kept)]
           n == AdvanceAttempts(e)
<1>1. Commit(FillDials(n, k)) /\ Silent
  BY DEF Advance, R
<1>2. r \in Rejections
  BY InvFacts, EngineFields, RestrictedRejections
<1>3. e = [R EXCEPT !.rejections = r]
  OBVIOUS
<1> HIDE DEF r, e
<1>4. SameTalk(R, e)
  BY <1>2, <1>3, InvFacts, RejectionsTalk
<1>5. RGood(e) /\ RGoes(R, e) /\ e.out = R.out
  BY <1>4, RFacts, RTalks
<1>6. NoReady(e)
  BY <1>5, InvFacts DEF NoReady
<1>7. PICK S \in SUBSET Ids : \E b :
        /\ S \subseteq Live(e) /\ Repeats(FailAttempts(e, S, TRUE), b) /\ Repeats(b, n)
  BY <1>5, InvFacts, AdvanceSteps DEF RGood
<1>8. PICK b : Repeats(FailAttempts(e, S, TRUE), b) /\ Repeats(b, n)
  BY <1>7
<1> DEFINE f == FailAttempts(e, S, TRUE)
<1>9. RGood(f) /\ RGoes(e, f) /\ Repeats(f, b)
  <2>1. TRUE \in BOOLEAN
    OBVIOUS
  <2>2. QED
    BY <1>5, <1>6, <1>8, <2>1, InvFacts, RFails
<1> HIDE DEF f, n
<1>10. RGood(b) /\ RGoes(f, b)
  BY <1>9, InvFacts, RRepeats
<1>11. RGood(n) /\ RGoes(b, n)
  BY <1>8, <1>10, InvFacts, RRepeats
<1>12. RGoes(R, n)
  BY <1>5, <1>9, <1>10, <1>11 DEF RGoes
<1>13. FillDials(n, k) = n
  BY <1>11, RFills
<1>14. QED
  BY <1>1, <1>11, <1>12, <1>13, RGoesMoves

LEMMA RCloses ==
    ASSUME HandshakeInv, CloseEngine("responder")
    PROVE  \E n : Commit(n) /\ RMoves(n) /\ Silent
<1> DEFINE none == [id \in {} |-> 0]
           e == [R EXCEPT !.closed = TRUE, !.rejections = [id \in {} |-> 0]]
           x == [e EXCEPT !.prepared = "aborted"]
           retired == Retire(x, {0})
           aborted == IF e.prepared = "waiting" THEN retired ELSE e
           dropped == DropDial(aborted)
           S == Live(e)
           n == FailAttempts(dropped, S, TRUE)
<1>1. Commit(n) /\ Silent
  BY DEF CloseEngine, R
<1>2. none \in Rejections
  <2>1. none \in [{} -> 0..Lifetime] /\ {} \in SUBSET Ids
    OBVIOUS
  <2>2. QED
    BY <2>1 DEF Rejections
<1> HIDE DEF none
<1>3. e = [R EXCEPT !.closed = TRUE, !.rejections = none]
  BY DEF none
<1> HIDE DEF e
<1>4. e \in Engines /\ e.side = R.side /\ e.att = R.att /\ e.out = R.out /\ e.dial = R.dial
  BY <1>2, <1>3, InvFacts DEF Engines
<1>5. x \in Engines /\ x.side = e.side /\ x.att = e.att /\ x.out = e.out /\ x.dial = e.dial
  BY <1>4 DEF Engines
<1> HIDE DEF x
<1>6. SameTalk(x, retired)
  BY <1>5, RetireTalk
<1> HIDE DEF retired
<1>7. /\ aborted \in Engines /\ aborted.side = R.side /\ aborted.att = R.att
      /\ aborted.out = R.out /\ aborted.dial = R.dial
  BY <1>4, <1>5, <1>6 DEF SameTalk
<1>8. RGood(aborted) /\ RGoes(R, aborted) /\ NoReady(aborted)
  BY <1>7, RFacts, RLike DEF NoReady
<1> HIDE DEF aborted
<1>9. /\ dropped \in Engines /\ dropped.side = aborted.side /\ dropped.att = aborted.att
      /\ dropped.out = aborted.out /\ dropped.dial.phase = "over"
  <2> DEFINE d == dropped.dial
  <2>1. dropped \in Engines /\ dropped = [aborted EXCEPT !.dial = d] /\ d.phase = "over"
    BY <1>7, DropDialShape
  <2> HIDE DEF dropped, d
  <2>2. dropped.side = aborted.side /\ dropped.att = aborted.att /\ dropped.out = aborted.out
    BY <1>7, <2>1 DEF Engines
  <2>3. QED
    BY <2>1, <2>2 DEF d
<1> HIDE DEF dropped
<1>10. RGood(dropped) /\ RGoes(R, dropped) /\ NoReady(dropped)
  BY <1>8, <1>9 DEF RGood, ResponderInv, RGoes, NoReady
<1>11. S \in SUBSET Ids /\ TRUE \in BOOLEAN
  BY DEF Live
<1> HIDE DEF S
<1>12. RGood(n) /\ RGoes(dropped, n)
  BY <1>10, <1>11, InvFacts, RFails
<1> HIDE DEF n
<1>13. RGoes(R, n)
  BY <1>10, <1>12 DEF RGoes
<1>14. QED
  BY <1>1, <1>12, <1>13, RGoesMoves

----------------------------------------------------------------------------
(* What a call commits.                                                    *)

LEMMA CommitShape ==
    ASSUME TypesInv, NEW n \in Engines, NEW side \in Sides, n.side = side, Commit(n)
    PROVE  LET f == [n EXCEPT !.out = {}]
           IN  /\ f \in Engines /\ f.side = side /\ f.out = {} /\ f.att = n.att /\ f.dial = n.dial
               /\ f.prepared = n.prepared /\ f.closed = n.closed
               /\ engine' = [engine EXCEPT ![side] = f] /\ engine'[side] = f
               /\ \A s \in Sides \ {side} : engine'[s] = engine[s]
               /\ engine' \in [Sides -> Engines]
               /\ msgs' = msgs \cup n.out /\ scenario' = scenario /\ restarted' = restarted
               /\ installed' = installed \cup
                    {<<side, id, n.att[id].nonce>> : id \in {i \in Ids : n.att[i].phase = "established"}}
<1> DEFINE f == [n EXCEPT !.out = {}]
<1>1. /\ f \in Engines /\ f.side = side /\ f.out = {} /\ f.att = n.att /\ f.dial = n.dial
      /\ f.prepared = n.prepared /\ f.closed = n.closed
  BY DEF Engines
<1>2. /\ engine' = [engine EXCEPT ![side] = f] /\ msgs' = msgs \cup n.out
      /\ scenario' = scenario /\ restarted' = restarted
      /\ installed' = installed \cup
           {<<side, id, n.att[id].nonce>> : id \in {i \in Ids : n.att[i].phase = "established"}}
  <2>1. PICK e \in {n} :
          /\ engine' = [engine EXCEPT ![e.side] = [e EXCEPT !.out = {}]]
          /\ msgs' = msgs \cup e.out
          /\ installed' = installed \cup
               {<<e.side, id, e.att[id].nonce>> : id \in {i \in Ids : e.att[i].phase = "established"}}
          /\ UNCHANGED <<scenario, restarted>>
    BY Zenon DEF Commit
  <2>2. e = n /\ e.side = side
    BY <2>1
  <2>3. QED
    BY <2>1, <2>2
<1> HIDE DEF f
<1>3. engine \in [Sides -> Engines]
  BY DEF TypesInv
<1>4. /\ engine'[side] = f /\ \A s \in Sides \ {side} : engine'[s] = engine[s]
      /\ engine' \in [Sides -> Engines]
  BY <1>1, <1>2, <1>3
<1>5. QED
  BY <1>1, <1>2, <1>4 DEF f

\* The types, after a call.
LEMMA CommitTypes ==
    ASSUME HandshakeInv, NEW n \in Engines, NEW side \in Sides, n.side = side, Commit(n),
           nonces' \in 0..MaxNonce
    PROVE  TypesInv'
<1> DEFINE f == [n EXCEPT !.out = {}]
           new == {<<side, id, n.att[id].nonce>> : id \in {i \in Ids : n.att[i].phase = "established"}}
<1>1. TypesInv
  BY DEF HandshakeInv
<1>2. /\ f.side = side /\ f.out = {} /\ engine'[side] = f
      /\ \A s \in Sides \ {side} : engine'[s] = engine[s]
      /\ engine' \in [Sides -> Engines] /\ installed' = installed \cup new
      /\ msgs' = msgs \cup n.out /\ scenario' = scenario /\ restarted' = restarted
  BY <1>1, CommitShape
<1> HIDE DEF f
<1>3. \A id \in Ids : n.att[id].nonce \in 0..MaxNonce
  BY InvFacts, EngineFields, AttemptFields
<1>4. new \subseteq Sides \X Ids \X (0..MaxNonce)
  BY <1>3
<1> HIDE DEF new
<1>5. n.out \in SUBSET Packets
  BY EngineFields
<1>6. \A s \in Sides : engine'[s].side = s /\ engine'[s].out = {}
  BY <1>1, <1>2 DEF TypesInv
<1>7. installed' \in SUBSET (Sides \X Ids \X (0..MaxNonce))
  BY <1>1, <1>2, <1>4 DEF TypesInv
<1>8. msgs' \in SUBSET Packets
  BY <1>1, <1>2, <1>5 DEF TypesInv
<1>9. scenario' \in Scenarios /\ restarted' \in 0..scenario'.restarts
  BY <1>1, <1>2 DEF TypesInv
<1>10. Engines' = Engines
  BY <1>2 DEF Engines, Attempts
<1>11. QED
  BY <1>2, <1>6, <1>7, <1>8, <1>9, <1>10 DEF TypesInv

LEMMA CommitInitiator ==
    ASSUME HandshakeInv, NEW n, Commit(n), IMoves(n)
    PROVE  /\ InitiatorInv(I, msgs)' /\ ResponderInv(R, msgs)'
           /\ I'.att = n.att /\ I'.dial = n.dial /\ R' = R /\ msgs' = msgs \cup n.out
           /\ scenario' = scenario /\ \A id : Contract(id)' = Contract(id)
           /\ installed' = installed \cup {<<"initiator", id, n.att[id].nonce>> :
                                 id \in {i \in Ids : n.att[i].phase = "established"}}
<1> DEFINE f == [n EXCEPT !.out = {}]
           new == {<<"initiator", id, n.att[id].nonce>> :
                      id \in {i \in Ids : n.att[i].phase = "established"}}
           sent == msgs \cup n.out
<1>1. TypesInv /\ n \in Engines /\ n.side = "initiator" /\ InitiatorInv(n, sent)
      /\ "initiator" \in Sides /\ "responder" \in Sides \ {"initiator"}
  BY DEF HandshakeInv, IMoves, IGood, Sides
<1>2. /\ f.att = n.att /\ f.dial = n.dial /\ f.prepared = n.prepared /\ f.closed = n.closed
      /\ engine'["initiator"] = f
      /\ \A s \in Sides \ {"initiator"} : engine'[s] = engine[s]
      /\ installed' = installed \cup new
      /\ msgs' = sent /\ scenario' = scenario
  BY <1>1, CommitShape
<1> HIDE DEF f, new
<1>3. I' = f /\ R' = R
  BY <1>1, <1>2 DEF I, R
<1>4. \A id : Contract(id)' = Contract(id)
  BY <1>2 DEF Contract
<1>5. ASSUME NEW id \in Ids
      PROVE  IAttempt(id, I.att[id], I.dial.next, Finishes(msgs, id))'
  <2> DEFINE a == n.att[id]
             next == n.dial.next
             F == Finishes(sent, id)
  <2>1. IAttempt(id, a, next, F)
    BY <1>1 DEF InitiatorInv
  <2>2. I'.att[id] = a /\ I'.dial.next = next /\ Finishes(msgs, id)' = F
    BY <1>2, <1>3 DEF Finishes
  <2> HIDE DEF a, next, F
  <2>3. QED
    BY <1>2, <1>4, <2>1, <2>2 DEF IAttempt
<1>6. InitiatorInv(I, msgs)'
  <2>1. /\ n.dial.phase = "none" => n.dial.next = 0
        /\ n.prepared = "waiting" => scenario.mode = "prepared"
        /\ Unopened(n) => n.dial.phase = "none"
    BY <1>1 DEF InitiatorInv
  <2>2. /\ I'.dial.phase = "none" => I'.dial.next = 0
        /\ I'.prepared = "waiting" => scenario'.mode = "prepared"
        /\ Unopened(I)' => I'.dial.phase = "none"
    BY <1>2, <1>3, <2>1 DEF Unopened
  <2>3. QED
    BY <1>5, <2>2 DEF InitiatorInv
<1>7. ResponderInv(R, msgs)'
  <2>1. R.dial.phase # "open" /\ \A id \in Ids : RAttempt(id, R.att[id], msgs)
    BY DEF HandshakeInv, ResponderInv
  <2>2. ASSUME NEW id \in Ids PROVE RAttempt(id, R.att[id], msgs)'
    <3> DEFINE a == R.att[id]
    <3>1. RAttempt(id, a, msgs) /\ R'.att[id] = a
      BY <1>3, <2>1
    <3> HIDE DEF a
    <3>2. QED
      BY <1>2, <1>4, <3>1 DEF RAttempt
  <2>3. QED
    BY <1>3, <2>1, <2>2 DEF ResponderInv
<1>8. QED
  BY <1>2, <1>3, <1>4, <1>6, <1>7 DEF new

LEMMA ICommits ==
    ASSUME HandshakeInv, NEW n, Commit(n), IMoves(n), nonces' \in 0..MaxNonce
    PROVE  HandshakeInv'
<1> DEFINE won == {i \in Ids : n.att[i].phase = "established"}
           new == {<<"initiator", id, n.att[id].nonce>> : id \in won}
<1>1. /\ InitiatorInv(I, msgs)' /\ ResponderInv(R, msgs)'
      /\ I'.att = n.att /\ I'.dial = n.dial /\ R' = R /\ msgs' = msgs \cup n.out
      /\ scenario' = scenario /\ \A id : Contract(id)' = Contract(id)
      /\ installed' = installed \cup new
  BY CommitInitiator
<1>2. TypesInv'
  <2>1. n \in Engines /\ n.side = "initiator" /\ "initiator" \in Sides
    BY DEF IMoves, IGood, Sides
  <2>2. QED
    BY <2>1, CommitTypes
<1>3. /\ \A s \in new : s[1] = "initiator" /\ s[2] \in won /\ s[3] = n.att[s[2]].nonce
      /\ \A id \in won : <<"initiator", id, n.att[id].nonce>> \in new
  OBVIOUS
<1> HIDE DEF new
<1>4. InstalledInv
  BY DEF HandshakeInv
<1>5. /\ \A s \in installed' : s[1] = "initiator" =>
           <<"responder", s[2], s[3]>> \in installed' /\ Finished(I)'
      /\ \A s, t \in installed' : s[1] = "initiator" /\ t[1] = "initiator" => s = t
      /\ \A m \in n.out : m.type # "READY"
  <2>1. CASE Goes(I, n)
    <3>1. \A id \in won : <<"initiator", id, n.att[id].nonce>> \in installed
      BY <1>4, <2>1 DEF Goes, InstalledInv, Sides, I
    <3>2. installed' = installed
      BY <1>1, <3>1 DEF new
    <3>3. Finished(I) => Finished(I)'
      BY <1>1, <2>1 DEF Goes, Finished
    <3>4. \A m \in n.out : m.type # "READY"
      BY <2>1, InvFacts DEF Goes
    <3>5. QED
      BY <1>4, <3>2, <3>3, <3>4 DEF InstalledInv
  <2>2. CASE \E m \in msgs : /\ m.type = "READY" /\ I.att[m.id].phase = "waitReady"
                             /\ I.att[m.id].nonce = m.nonce /\ Installs(I, n, m.id)
    <3>1. PICK m \in msgs : /\ m.type = "READY" /\ I.att[m.id].phase = "waitReady"
                            /\ I.att[m.id].nonce = m.nonce /\ Installs(I, n, m.id)
      BY <2>2
    <3>2. m.id \in Ids
      BY InvFacts
    <3>3. ~Finished(I)
      BY <3>1, <3>2 DEF Finished
    <3>4. \A s \in installed : s[1] # "initiator"
      BY <1>4, <3>3 DEF InstalledInv
    <3>5. \A id \in won : id = m.id /\ n.att[id].nonce = m.nonce
      BY <3>1 DEF Installs
    <3>6. new \subseteq {<<"initiator", m.id, m.nonce>>}
      BY <3>5 DEF new
    <3>7. <<"responder", m.id, m.nonce>> \in installed
      BY <1>4, <3>1 DEF InstalledInv
    <3>8. Finished(I)'
      BY <1>1, <3>1 DEF Installs, Finished
    <3>9. \A p \in n.out : p.type # "READY"
      BY <3>1, InvFacts DEF Installs
    <3> DEFINE it == <<"initiator", m.id, m.nonce>>
    <3>10. it[1] = "initiator" /\ it[2] = m.id /\ it[3] = m.nonce
      OBVIOUS
    <3> HIDE DEF it
    <3>11. \A s \in installed' : s \in installed \/ s = it
      BY <1>1, <3>6 DEF it
    <3>12. \A s \in installed' : s[1] = "initiator" => s = it
      BY <3>4, <3>11
    <3>13. <<"responder", m.id, m.nonce>> \in installed'
      BY <1>1, <3>7
    <3>14. ASSUME NEW s \in installed', s[1] = "initiator"
           PROVE  <<"responder", s[2], s[3]>> \in installed'
      <4>1. s[2] = m.id /\ s[3] = m.nonce
        BY <3>10, <3>12, <3>14
      <4>2. QED
        BY <3>13, <4>1
    <3>15. QED
      BY <3>8, <3>9, <3>12, <3>14
  <2>3. QED
    BY <2>1, <2>2 DEF IMoves
<1>6. \A s \in installed' : s[1] = "responder" => s \in installed
  BY <1>1, <1>3
<1>7. \A s \in installed' : s[1] = "responder" =>
        Contract(s[2])'.valid /\ \E m \in Finishes(msgs, s[2])' : m.nonce = s[3]
  BY <1>1, <1>4, <1>6 DEF InstalledInv, Finishes
<1>8. \A m \in msgs' : m.type = "READY" => <<"responder", m.id, m.nonce>> \in installed'
  BY <1>1, <1>4, <1>5 DEF InstalledInv
<1>9. ASSUME NEW side \in Sides, NEW id \in Ids, engine'[side].att[id].phase = "established"
      PROVE  <<side, id, engine'[side].att[id].nonce>> \in installed'
  <2>1. CASE side = "initiator"
    <3>1. engine'[side].att[id] = n.att[id]
      BY <1>1, <2>1 DEF I
    <3>2. id \in won
      BY <1>9, <3>1
    <3>3. QED
      BY <1>1, <1>3, <2>1, <3>1, <3>2
  <2>2. CASE side = "responder"
    <3>1. engine'[side] = engine[side]
      BY <1>1, <2>2 DEF R
    <3>2. QED
      BY <1>1, <1>4, <1>9, <3>1 DEF InstalledInv
  <2>3. QED
    BY <2>1, <2>2 DEF Sides
<1>10. InstalledInv'
  BY <1>5, <1>7, <1>8, <1>9 DEF InstalledInv
<1>11. QED
  BY <1>1, <1>2, <1>10 DEF HandshakeInv

LEMMA RCommits ==
    ASSUME HandshakeInv, NEW n, Commit(n), RMoves(n), nonces' \in 0..MaxNonce
    PROVE  HandshakeInv'
<1> DEFINE f == [n EXCEPT !.out = {}]
           won == {i \in Ids : n.att[i].phase = "established"}
           new == {<<"responder", id, n.att[id].nonce>> : id \in won}
           sent == msgs \cup n.out
<1>1. /\ TypesInv /\ n \in Engines /\ n.side = "responder" /\ ResponderInv(n, sent)
      /\ "responder" \in Sides /\ "initiator" \in Sides \ {"responder"}
  BY DEF HandshakeInv, RMoves, RGood, Sides
<1>2. /\ f.att = n.att /\ f.dial = n.dial /\ engine'["responder"] = f
      /\ \A s \in Sides \ {"responder"} : engine'[s] = engine[s]
      /\ installed' = installed \cup new
      /\ msgs' = sent /\ scenario' = scenario
  BY <1>1, CommitShape
<1>3. /\ \A s \in new : s[1] = "responder" /\ s[2] \in won /\ s[3] = n.att[s[2]].nonce
      /\ \A id \in won : <<"responder", id, n.att[id].nonce>> \in new
  OBVIOUS
<1> HIDE DEF f, new
<1>4. R' = f /\ I' = I
  BY <1>1, <1>2 DEF I, R
<1>5. \A id : Contract(id)' = Contract(id)
  BY <1>2 DEF Contract
<1>6. \A m \in n.out : /\ m.type # "FINISH" /\ m.id \in Ids
                       /\ m.type = "READY" => n.att[m.id].phase = "established"
                                              /\ n.att[m.id].nonce = m.nonce
  BY <1>1, EngineFields DEF RMoves, RGood, Packets
<1>7. \A id : Finishes(msgs, id)' = Finishes(msgs, id)
  BY <1>2, <1>6 DEF Finishes
<1>8. TypesInv'
  BY <1>1, CommitTypes
<1>9. InitiatorInv(I, msgs)'
  <2>1. InitiatorInv(I, msgs)
    BY DEF HandshakeInv
  <2>2. ASSUME NEW id \in Ids
        PROVE  IAttempt(id, I.att[id], I.dial.next, Finishes(msgs, id))'
    <3> DEFINE a == I.att[id]
               next == I.dial.next
               F == Finishes(msgs, id)
    <3>1. IAttempt(id, a, next, F)
      BY <2>1 DEF InitiatorInv
    <3>2. I'.att[id] = a /\ I'.dial.next = next /\ Finishes(msgs, id)' = F
      BY <1>4, <1>7
    <3> HIDE DEF a, next, F
    <3>3. QED
      BY <1>2, <1>5, <3>1, <3>2 DEF IAttempt
  <2>3. /\ I'.dial.phase = "none" => I'.dial.next = 0
        /\ I'.prepared = "waiting" => scenario'.mode = "prepared"
        /\ Unopened(I)' => I'.dial.phase = "none"
    BY <1>2, <1>4, <2>1 DEF Unopened, InitiatorInv
  <2>4. QED
    BY <2>2, <2>3 DEF InitiatorInv
<1>10. ResponderInv(R, msgs)'
  <2>1. n.dial.phase # "open" /\ \A id \in Ids : RAttempt(id, n.att[id], sent)
    BY <1>1 DEF ResponderInv
  <2>2. ASSUME NEW id \in Ids PROVE RAttempt(id, R.att[id], msgs)'
    <3> DEFINE a == n.att[id]
    <3>1. RAttempt(id, a, sent) /\ R'.att[id] = a
      BY <1>2, <1>4, <2>1
    <3> HIDE DEF a
    <3>2. QED
      BY <1>2, <1>5, <3>1 DEF RAttempt
  <2>3. QED
    BY <1>2, <1>4, <2>1, <2>2 DEF ResponderInv
<1>11. InstalledInv'
  <2>1. InstalledInv
    BY DEF HandshakeInv
  <2>2. \A s \in installed' : s[1] = "initiator" => s \in installed
    BY <1>2, <1>3
  <2>3. Finished(I)' <=> Finished(I)
    BY <1>4 DEF Finished
  <2>4. /\ \A s \in installed' : s[1] = "initiator" =>
             <<"responder", s[2], s[3]>> \in installed' /\ Finished(I)'
        /\ \A s, t \in installed' : s[1] = "initiator" /\ t[1] = "initiator" => s = t
    BY <1>2, <2>1, <2>2, <2>3 DEF InstalledInv
  <2>5. ASSUME NEW s \in installed', s[1] = "responder"
        PROVE  Contract(s[2]).valid /\ \E m \in Finishes(msgs, s[2]) : m.nonce = s[3]
    <3>1. CASE s \in installed
      BY <2>1, <2>5, <3>1 DEF InstalledInv
    <3>2. CASE s \in new
      <4> DEFINE id == s[2]
      <4>1. id \in Ids /\ n.att[id].phase = "established" /\ s[3] = n.att[id].nonce
        BY <1>3, <3>2
      <4> HIDE DEF id
      <4>2. CASE R.att[id].phase = "established" /\ n.att[id].nonce = R.att[id].nonce
        <5> DEFINE old == <<"responder", id, n.att[id].nonce>>
        <5>1. old \in installed
          BY <1>1, <2>1, <4>1, <4>2 DEF InstalledInv, R
        <5>2. old[1] = "responder" /\ old[2] = id /\ old[3] = s[3]
          BY <4>1
        <5> HIDE DEF old
        <5>3. Contract(id).valid /\ \E m \in Finishes(msgs, id) : m.nonce = s[3]
          BY <2>1, <5>1, <5>2 DEF InstalledInv
        <5>4. QED
          BY <5>3 DEF id
      <4>3. CASE Contract(id).valid /\ \E m \in Finishes(msgs, id) : m.nonce = n.att[id].nonce
        BY <4>1, <4>3 DEF id
      <4>4. QED
        BY <4>1, <4>2, <4>3 DEF RMoves
    <3>3. QED
      BY <1>2, <3>1, <3>2
  <2>6. \A s \in installed' : s[1] = "responder" =>
          Contract(s[2])'.valid /\ \E m \in Finishes(msgs, s[2])' : m.nonce = s[3]
    BY <1>5, <1>7, <2>5
  <2>7. ASSUME NEW m \in msgs', m.type = "READY"
        PROVE  <<"responder", m.id, m.nonce>> \in installed'
    <3>1. CASE m \in msgs
      BY <1>2, <2>1, <2>7, <3>1 DEF InstalledInv
    <3>2. CASE m \in n.out
      BY <1>2, <1>3, <1>6, <2>7, <3>2
    <3>3. QED
      BY <1>2, <3>1, <3>2
  <2>8. ASSUME NEW side \in Sides, NEW id \in Ids, engine'[side].att[id].phase = "established"
        PROVE  <<side, id, engine'[side].att[id].nonce>> \in installed'
    <3>1. CASE side = "responder"
      <4>1. engine'[side].att[id] = n.att[id]
        BY <1>2, <3>1
      <4>2. id \in won
        BY <2>8, <4>1
      <4>3. QED
        BY <1>2, <1>3, <3>1, <4>1, <4>2
    <3>2. CASE side = "initiator"
      <4>1. engine'[side] = engine[side]
        BY <1>1, <1>2, <3>2
      <4>2. QED
        BY <1>2, <2>1, <2>8, <4>1 DEF InstalledInv
    <3>3. QED
      BY <3>1, <3>2 DEF Sides
  <2>9. QED
    BY <2>4, <2>6, <2>7, <2>8 DEF InstalledInv
<1>12. QED
  BY <1>8, <1>9, <1>10, <1>11 DEF HandshakeInv

----------------------------------------------------------------------------
(* The steps that say nothing.                                             *)

\* What agreement sees of an attempt.
SameAttempt(a, b) ==
    b.phase = a.phase /\ b.nonce = a.nonce /\ b.packets = a.packets /\ b.sends = a.sends

\* Nothing is sent or installed, and a responder may lose what it has.
LEMMA QuietStep ==
    ASSUME HandshakeInv, TypesInv', UNCHANGED <<scenario, msgs, installed>>,
           \A id \in Ids : SameAttempt(I.att[id], I'.att[id]),
           I'.dial.phase = I.dial.phase, I'.dial.next = I.dial.next,
           I'.prepared = I.prepared, I'.closed = I.closed,
           \A id \in Ids : R'.att[id].phase = "none" \/ SameAttempt(R.att[id], R'.att[id]),
           R'.dial.phase # "open"
    PROVE  HandshakeInv'
<1>1. \A id : Contract(id)' = Contract(id) /\ Finishes(msgs, id)' = Finishes(msgs, id)
  BY DEF Contract, Finishes
<1>2. InitiatorInv(I, msgs)'
  <2>1. InitiatorInv(I, msgs)
    BY DEF HandshakeInv
  <2>2. ASSUME NEW id \in Ids
        PROVE  IAttempt(id, I.att[id], I.dial.next, Finishes(msgs, id))'
    <3> DEFINE a == I.att[id]
               b == I'.att[id]
               next == I.dial.next
               F == Finishes(msgs, id)
    <3>1. IAttempt(id, a, next, F)
      BY <2>1 DEF InitiatorInv
    <3>2. SameAttempt(a, b) /\ I'.dial.next = next /\ Finishes(msgs, id)' = F
      BY <1>1
    <3> HIDE DEF a, next, F
    <3>3. QED
      BY <1>1, <3>1, <3>2 DEF IAttempt, SameAttempt
  <2>3. /\ I'.dial.phase = "none" => I'.dial.next = 0
        /\ I'.prepared = "waiting" => scenario'.mode = "prepared"
        /\ Unopened(I)' => I'.dial.phase = "none"
    BY <2>1 DEF Unopened, InitiatorInv
  <2>4. QED
    BY <2>2, <2>3 DEF InitiatorInv
<1>3. ResponderInv(R, msgs)'
  <2>1. ASSUME NEW id \in Ids PROVE RAttempt(id, R.att[id], msgs)'
    <3> DEFINE a == R.att[id]
               b == R'.att[id]
    <3>1. RAttempt(id, a, msgs) /\ (b.phase = "none" \/ SameAttempt(a, b))
      BY DEF HandshakeInv, ResponderInv
    <3> HIDE DEF a
    <3>2. QED
      BY <1>1, <3>1 DEF RAttempt, SameAttempt
  <2>2. QED
    BY <2>1 DEF ResponderInv
<1>4. InstalledInv'
  <2>1. InstalledInv
    BY DEF HandshakeInv
  <2>2. Finished(I) => Finished(I)'
    BY DEF Finished, SameAttempt
  <2>3. ASSUME NEW side \in Sides, NEW id \in Ids, engine'[side].att[id].phase = "established"
        PROVE  <<side, id, engine'[side].att[id].nonce>> \in installed'
    <3> DEFINE a == engine[side].att[id]
               b == engine'[side].att[id]
    <3>1. SameAttempt(a, b)
      BY <2>3 DEF I, R, Sides
    <3>2. a.phase = "established" /\ b.nonce = a.nonce
      BY <2>3, <3>1 DEF SameAttempt
    <3>3. QED
      BY <2>1, <3>2 DEF InstalledInv
  <2>4. QED
    BY <1>1, <2>1, <2>2, <2>3 DEF InstalledInv
<1>5. QED
  BY <1>2, <1>3, <1>4 DEF HandshakeInv

\* The storage that a disposer kept is released.
LEMMA StorageStep ==
    ASSUME HandshakeInv, NEW side \in Sides, NEW o \in Owners, ReleaseStorage(side, o)
    PROVE  HandshakeInv'
<1> DEFINE e == engine[side]
           r == [e.res[o] EXCEPT !.storage = "released"]
           res == [e.res EXCEPT ![o] = r]
           f == [e EXCEPT !.res = res]
<1>1. /\ engine \in [Sides -> Engines] /\ e \in Engines
      /\ \A s \in Sides : engine[s].side = s /\ engine[s].out = {}
  BY DEF HandshakeInv, TypesInv
<1>2. e.res \in [Owners -> Holdings] /\ e.res[o] \in Holdings
  BY <1>1, EngineFields
<1>3. r \in Holdings
  BY <1>2 DEF Holdings
<1> HIDE DEF r
<1>4. res \in [Owners -> Holdings]
  BY <1>2, <1>3
<1>5. engine' = [engine EXCEPT ![side].res[o].storage = "released"]
  BY DEF ReleaseStorage
<1>6. engine' = [engine EXCEPT ![side] = f]
  BY <1>1, <1>2, <1>5 DEF r, Engines, Holdings
<1> HIDE DEF res
<1>7. SameTalk(e, f)
  BY <1>1, <1>4, HoldingsTalk
<1> HIDE DEF f
<1>8. UNCHANGED <<scenario, msgs, nonces, restarted, installed>>
  BY DEF ReleaseStorage
<1>9. \A s \in Sides : SameTalk(engine[s], engine'[s])
  BY <1>1, <1>6, <1>7 DEF SameTalk
<1>10. engine' \in [Sides -> Engines]
  BY <1>1, <1>6, <1>7 DEF SameTalk
<1>11. TypesInv'
  <2>1. Engines' = Engines
    BY <1>8 DEF Engines, Attempts
  <2>2. \A s \in Sides : engine'[s].side = s /\ engine'[s].out = {}
    BY <1>1, <1>9 DEF SameTalk
  <2>3. QED
    BY <1>8, <1>10, <2>1, <2>2 DEF HandshakeInv, TypesInv
<1>12. SameTalk(I, I') /\ SameTalk(R, R')
  BY <1>9 DEF I, R, Sides
<1>13. R.dial.phase # "open"
  BY DEF HandshakeInv, ResponderInv
<1>14. QED
  BY <1>8, <1>11, <1>12, <1>13, QuietStep DEF SameTalk, SameAttempt

LEMMA NewEngineShape ==
    ASSUME scenario \in Scenarios, NEW side \in Sides
    PROVE  LET e == NewEngine(side)
           IN  /\ e \in Engines /\ e.side = side /\ e.out = {} /\ ~e.closed
               /\ e.prepared = "none" /\ e.dial.phase = "none" /\ e.dial.next = 0
               /\ \A id \in Ids : e.att[id] = NoAttempt
<1> DEFINE none == [id \in {} |-> 0]
           att == [id \in Ids |-> NoAttempt]
           res == [o \in Owners |-> Nothing]
           dial == [phase |-> "none", next |-> 0, running |-> 0, ttl |-> 0]
           e == NewEngine(side)
<1>1. none \in Rejections
  <2>1. none \in [{} -> 0..Lifetime] /\ {} \in SUBSET Ids
    OBVIOUS
  <2>2. QED
    BY <2>1 DEF Rejections
<1>2. att \in [Ids -> Attempts] /\ res \in [Owners -> Holdings]
  BY NoneTypes
<1>3. dial \in Dials /\ dial.phase = "none" /\ dial.next = 0
  BY DEF Dials
<1>4. e = [side |-> side, closed |-> FALSE, pending |-> 0, att |-> att, dial |-> dial,
           prepared |-> "none", rejections |-> none, res |-> res, out |-> {}]
  BY DEF NewEngine
<1>5. \A id \in Ids : att[id] = NoAttempt
  OBVIOUS
<1> HIDE DEF none, att, res, dial, e
<1>6. e \in Engines
  BY <1>1, <1>2, <1>3, <1>4 DEF Engines
<1>7. /\ e.side = side /\ e.out = {} /\ ~e.closed /\ e.prepared = "none"
      /\ e.dial = dial /\ e.att = att
  BY <1>4
<1>8. QED
  BY <1>3, <1>5, <1>6, <1>7 DEF e

LEMMA InitHolds ==
    ASSUME Init
    PROVE  HandshakeInv
<1>1. /\ scenario \in Scenarios /\ msgs = {} /\ nonces = 0 /\ restarted = 0 /\ installed = {}
      /\ engine = [side \in Sides |-> NewEngine(side)]
  BY DEF Init
<1>2. \A side \in Sides :
        LET e == engine[side]
        IN  /\ e \in Engines /\ e.side = side /\ e.out = {} /\ ~e.closed
            /\ e.prepared = "none" /\ e.dial.phase = "none" /\ e.dial.next = 0
            /\ \A id \in Ids : e.att[id] = NoAttempt
  BY <1>1, NewEngineShape
<1>3. engine \in [Sides -> Engines]
  BY <1>1, <1>2
<1>4. TypesInv
  <2>1. nonces \in 0..MaxNonce /\ restarted \in 0..scenario.restarts
    BY <1>1, ScenarioFacts, LimitsAssumption
  <2>2. QED
    BY <1>1, <1>2, <1>3, <2>1 DEF TypesInv
<1>5. NoAttempt.phase = "none"
  BY DEF NoAttempt
<1>6. \A id \in Ids : I.att[id].phase = "none" /\ R.att[id].phase = "none"
  BY <1>2, <1>5 DEF I, R, Sides
<1>7. I.dial.phase = "none" /\ I.dial.next = 0 /\ I.prepared = "none" /\ R.dial.phase = "none"
  BY <1>2 DEF I, R, Sides
<1>8. \A id : Finishes(msgs, id) = {}
  BY <1>1 DEF Finishes
<1>9. InitiatorInv(I, msgs)
  BY <1>6, <1>7, <1>8 DEF InitiatorInv, IAttempt
<1>10. ResponderInv(R, msgs)
  BY <1>6, <1>7 DEF ResponderInv, RAttempt
<1>11. InstalledInv
  <2>1. ASSUME NEW side \in Sides, NEW id \in Ids
        PROVE  engine[side].att[id].phase = "none"
    BY <1>2, <1>5
  <2>2. QED
    BY <1>1, <2>1 DEF InstalledInv
<1>12. QED
  BY <1>4, <1>9, <1>10, <1>11 DEF HandshakeInv

\* The responder forgets everything, and what it installed before stays on record.
LEMMA RestartStep ==
    ASSUME HandshakeInv, Restart
    PROVE  HandshakeInv'
<1> DEFINE e == NewEngine("responder")
<1>1. /\ engine' = [engine EXCEPT !["responder"] = e] /\ restarted' = restarted + 1
      /\ restarted < scenario.restarts
      /\ UNCHANGED <<scenario, msgs, nonces, installed>>
  BY DEF Restart
<1>2. /\ e \in Engines /\ e.side = "responder" /\ e.out = {}
      /\ e.dial.phase = "none" /\ \A id \in Ids : e.att[id] = NoAttempt
  BY InvFacts, NewEngineShape DEF Sides
<1> HIDE DEF e
<1>3. /\ engine \in [Sides -> Engines]
      /\ \A s \in Sides : engine[s].side = s /\ engine[s].out = {}
  BY DEF HandshakeInv, TypesInv
<1>4. /\ engine' \in [Sides -> Engines] /\ I' = I /\ R' = e
      /\ \A s \in Sides : engine'[s].side = s /\ engine'[s].out = {}
  BY <1>1, <1>2, <1>3 DEF I, R, Sides
<1>5. TypesInv'
  <2>1. Engines' = Engines
    BY <1>1 DEF Engines, Attempts
  <2>2. restarted' \in 0..scenario'.restarts
    BY <1>1, ScenarioFacts DEF HandshakeInv, TypesInv
  <2>3. QED
    BY <1>1, <1>4, <2>1, <2>2 DEF HandshakeInv, TypesInv
<1>6. \A id \in Ids : R'.att[id].phase = "none"
  BY <1>2, <1>4 DEF NoAttempt
<1>7. QED
  BY <1>1, <1>2, <1>4, <1>5, <1>6, QuietStep DEF SameAttempt

LEMMA EarlierType ==
    ASSUME NEW bound \in Nat, NEW t \in 0..bound
    PROVE  Earlier(t) \in 0..bound /\ Earlier(t) \in Nat
<1> DEFINE T == {t - 1, 0}
<1>1. \E x \in T : \A y \in T : x >= y
  OBVIOUS
<1>2. Max(T) \in T /\ Max(T) >= 0
  BY <1>1 DEF Max
<1>3. QED
  BY <1>2 DEF Earlier

LEMMA AgeShape ==
    ASSUME scenario \in Scenarios, NEW e \in Engines
    PROVE  LET n == Age(e)
           IN  /\ n \in Engines /\ n.side = e.side /\ n.out = e.out /\ n.prepared = e.prepared
               /\ n.closed = e.closed
               /\ n.dial.phase = e.dial.phase /\ n.dial.next = e.dial.next
               /\ \A id \in Ids : SameAttempt(e.att[id], n.att[id])
<1> DEFINE att == [id \in Ids |-> AgeAttempt(e.att[id])]
           t == Earlier(e.dial.ttl)
           dial == [e.dial EXCEPT !.ttl = t]
           rejections == [id \in DOMAIN e.rejections |-> Earlier(e.rejections[id])]
           n == Age(e)
<1>1. ASSUME NEW a \in Attempts
      PROVE  AgeAttempt(a) \in Attempts /\ SameAttempt(a, AgeAttempt(a))
  <2> DEFINE x == Earlier(a.ttl)
             y == Earlier(a.wait)
  <2>1. a.ttl \in 0..Lifetime /\ a.wait \in 0..RetryInterval
    BY AttemptFields
  <2>2. x \in 0..Lifetime /\ y \in 0..RetryInterval
    BY <2>1, EarlierType, TimesAssumption
  <2>3. AgeAttempt(a) = [a EXCEPT !.ttl = x, !.wait = y]
    BY DEF AgeAttempt
  <2> HIDE DEF x, y
  <2>4. QED
    BY <2>2, <2>3 DEF Attempts, SameAttempt
<1>2. att \in [Ids -> Attempts] /\ \A id \in Ids : SameAttempt(e.att[id], att[id])
  BY <1>1, EngineFields
<1>3. t \in Nat
  <2>1. e.dial.ttl \in Nat /\ e.dial.ttl \in 0..e.dial.ttl
    BY EngineFields
  <2>2. QED
    BY <2>1, EarlierType
<1> HIDE DEF t
<1>4. dial \in Dials /\ dial.phase = e.dial.phase /\ dial.next = e.dial.next
  BY <1>3, EngineFields DEF Dials
<1>5. rejections \in Rejections
  <2>1. PICK D \in SUBSET Ids : e.rejections \in [D -> 0..Lifetime]
    BY EngineFields DEF Rejections
  <2>2. rejections \in [D -> 0..Lifetime]
    BY <2>1, EarlierType, TimesAssumption
  <2>3. QED
    BY <2>2 DEF Rejections
<1>6. n = [e EXCEPT !.att = att, !.dial = dial, !.rejections = rejections]
  BY EngineFields DEF Age, t, Engines, Dials
<1> HIDE DEF att, dial, rejections, n
<1>7. n \in Engines
  BY <1>2, <1>4, <1>5, <1>6 DEF Engines
<1>8. /\ n.side = e.side /\ n.out = e.out /\ n.prepared = e.prepared
      /\ n.closed = e.closed /\ n.dial = dial /\ n.att = att
  BY <1>6 DEF Engines
<1>9. QED
  BY <1>2, <1>4, <1>7, <1>8 DEF n

LEMMA TickStep ==
    ASSUME HandshakeInv, Tick
    PROVE  HandshakeInv'
<1>1. /\ engine' = [side \in Sides |-> Age(engine[side])]
      /\ UNCHANGED <<scenario, msgs, nonces, restarted, installed>>
  BY DEF Tick
<1>2. \A side \in Sides :
        /\ engine[side] \in Engines /\ engine[side].side = side /\ engine[side].out = {}
  BY DEF HandshakeInv, TypesInv
<1>3. \A side \in Sides :
        LET e == engine[side]
            n == engine'[side]
        IN  /\ n \in Engines /\ n.side = e.side /\ n.out = e.out /\ n.prepared = e.prepared
            /\ n.closed = e.closed
            /\ n.dial.phase = e.dial.phase /\ n.dial.next = e.dial.next
            /\ \A id \in Ids : SameAttempt(e.att[id], n.att[id])
  BY <1>1, <1>2, InvFacts, AgeShape
<1>4. engine' \in [Sides -> Engines]
  BY <1>1, <1>3
<1>5. TypesInv'
  <2>1. Engines' = Engines
    BY <1>1 DEF Engines, Attempts
  <2>2. \A s \in Sides : engine'[s].side = s /\ engine'[s].out = {}
    BY <1>2, <1>3
  <2>3. QED
    BY <1>1, <1>4, <2>1, <2>2 DEF HandshakeInv, TypesInv
<1>6. /\ \A id \in Ids : SameAttempt(I.att[id], I'.att[id]) /\ SameAttempt(R.att[id], R'.att[id])
      /\ I'.dial.phase = I.dial.phase /\ I'.dial.next = I.dial.next
      /\ I'.prepared = I.prepared /\ I'.closed = I.closed /\ R'.dial.phase = R.dial.phase
  BY <1>3 DEF I, R, Sides
<1>7. R.dial.phase # "open"
  BY DEF HandshakeInv, ResponderInv
<1>8. QED
  BY <1>1, <1>5, <1>6, <1>7, QuietStep

----------------------------------------------------------------------------
(* Every step.                                                             *)

LEMMA InitiatorStep ==
    ASSUME HandshakeInv, NEW k \in Nat,
           \/ BeginDial(k) \/ BeginPreparedDial(k)
           \/ PrepareDial \/ AbortPreparedDial \/ CancelDial
           \/ \E m \in msgs : ReceiveChallenge(m, k) \/ ReceiveReject(m, k)
           \/ \E m \in msgs, o \in Outcomes : ReceiveReady(m, o, k)
           \/ \E m \in msgs : ReceiveClose(m, "initiator", k)
           \/ Advance("initiator", k)
           \/ \E id \in Ids : CloseSession("initiator", id, k)
           \/ CloseEngine("initiator")
    PROVE  HandshakeInv'
<1>1. ASSUME NEW n, Commit(n), IMoves(n), Silent PROVE HandshakeInv'
  BY <1>1, InvFacts, ICommits DEF Silent
<1>2. CASE BeginDial(k) \/ BeginPreparedDial(k)
  BY <1>1, <1>2, IBegins
<1>3. CASE PrepareDial
  BY <1>1, <1>3, IPrepare
<1>4. CASE AbortPreparedDial
  BY <1>1, <1>4, IAbort
<1>5. CASE CancelDial
  BY <1>1, <1>5, ICancels
<1>6. CASE \E m \in msgs : ReceiveChallenge(m, k) \/ ReceiveReject(m, k)
  BY <1>1, <1>6, IChallenge, IRejected
<1>7. CASE \E m \in msgs, o \in Outcomes : ReceiveReady(m, o, k)
  BY <1>1, <1>7, IReady
<1>8. ASSUME NEW m \in msgs, ReceiveClose(m, "initiator", k) PROVE HandshakeInv'
  <2>1. Commit(FillDials(FailAttempt(I, m.id, FALSE), k)) /\ Silent /\ FALSE \in BOOLEAN
    BY <1>8 DEF ReceiveClose, I
  <2>2. QED
    BY <1>1, <2>1, IEnds
<1>9. CASE Advance("initiator", k)
  BY <1>1, <1>9, IAdvances
<1>10. ASSUME NEW id \in Ids, CloseSession("initiator", id, k) PROVE HandshakeInv'
  <2>1. Commit(FillDials(FailAttempt(I, id, TRUE), k)) /\ Silent /\ TRUE \in BOOLEAN
    BY <1>10 DEF CloseSession, I
  <2>2. QED
    BY <1>1, <2>1, IEnds
<1>11. CASE CloseEngine("initiator")
  BY <1>1, <1>11, ICloses
<1>12. QED
  BY <1>2, <1>3, <1>4, <1>5, <1>6, <1>7, <1>8, <1>9, <1>10, <1>11

LEMMA ResponderStep ==
    ASSUME HandshakeInv, NEW k,
           \/ \E id \in Ids, admit \in BOOLEAN : ReceiveHello(id, admit)
           \/ \E m \in msgs, o \in Outcomes : ReceiveFinish(m, o)
           \/ \E m \in msgs : ReceiveClose(m, "responder", k)
           \/ Advance("responder", k)
           \/ \E id \in Ids : CloseSession("responder", id, k)
           \/ CloseEngine("responder")
    PROVE  HandshakeInv'
<1>1. ASSUME NEW n, Commit(n), RMoves(n), Silent PROVE HandshakeInv'
  BY <1>1, InvFacts, RCommits DEF Silent
<1>2. CASE \E id \in Ids, admit \in BOOLEAN : ReceiveHello(id, admit)
  BY <1>2, RHello, RCommits
<1>3. CASE \E m \in msgs, o \in Outcomes : ReceiveFinish(m, o)
  BY <1>1, <1>3, RFinish
<1>4. ASSUME NEW m \in msgs, ReceiveClose(m, "responder", k) PROVE HandshakeInv'
  <2>1. Commit(FillDials(FailAttempt(R, m.id, FALSE), k)) /\ Silent /\ FALSE \in BOOLEAN
    BY <1>4 DEF ReceiveClose, R
  <2>2. QED
    BY <1>1, <2>1, REnds
<1>5. CASE Advance("responder", k)
  BY <1>1, <1>5, RAdvances
<1>6. ASSUME NEW id \in Ids, CloseSession("responder", id, k) PROVE HandshakeInv'
  <2>1. Commit(FillDials(FailAttempt(R, id, TRUE), k)) /\ Silent /\ TRUE \in BOOLEAN
    BY <1>6 DEF CloseSession, R
  <2>2. QED
    BY <1>1, <2>1, REnds
<1>7. CASE CloseEngine("responder")
  BY <1>1, <1>7, RCloses
<1>8. QED
  BY <1>2, <1>3, <1>4, <1>5, <1>6, <1>7

LEMMA NextStep ==
    ASSUME HandshakeInv, [Next]_vars
    PROVE  HandshakeInv'
<1>1. ASSUME NEW k \in Starts("initiator"), BeginDial(k) \/ BeginPreparedDial(k)
      PROVE  HandshakeInv'
  BY <1>1, StartsNat, InitiatorStep
<1>2. CASE PrepareDial \/ AbortPreparedDial \/ CancelDial
  <2>1. 0 \in Nat
    OBVIOUS
  <2>2. QED
    BY <1>2, <2>1, InitiatorStep
<1>3. CASE \E id \in Ids, admit \in BOOLEAN : ReceiveHello(id, admit)
  BY <1>3, ResponderStep
<1>4. ASSUME NEW m \in msgs, NEW k \in Starts("initiator"),
             ReceiveChallenge(m, k) \/ ReceiveReject(m, k)
      PROVE  HandshakeInv'
  BY <1>4, StartsNat, InitiatorStep
<1>5. CASE \E m \in msgs, o \in Outcomes : ReceiveFinish(m, o)
  BY <1>5, ResponderStep
<1>6. ASSUME NEW m \in msgs, NEW o \in Outcomes, NEW k \in Starts("initiator"),
             ReceiveReady(m, o, k)
      PROVE  HandshakeInv'
  BY <1>6, StartsNat, InitiatorStep
<1>7. ASSUME NEW side \in Sides, NEW k \in Starts(side),
             \/ \E m \in msgs : ReceiveClose(m, side, k)
             \/ Advance(side, k)
             \/ \E id \in Ids : CloseSession(side, id, k)
      PROVE  HandshakeInv'
  <2>1. CASE side = "initiator"
    BY <1>7, <2>1, StartsNat, InitiatorStep
  <2>2. CASE side = "responder"
    BY <1>7, <2>2, ResponderStep
  <2>3. QED
    BY <2>1, <2>2 DEF Sides
<1>8. ASSUME NEW side \in Sides, CloseEngine(side) PROVE HandshakeInv'
  <2>1. CASE side = "initiator"
    <3>1. 0 \in Nat
      OBVIOUS
    <3>2. QED
      BY <1>8, <2>1, <3>1, InitiatorStep
  <2>2. CASE side = "responder"
    BY <1>8, <2>2, ResponderStep
  <2>3. QED
    BY <2>1, <2>2 DEF Sides
<1>9. CASE \E side \in Sides, o \in Owners : ReleaseStorage(side, o)
  BY <1>9, StorageStep
<1>10. CASE Restart \/ Tick
  BY <1>10, RestartStep, TickStep
<1>11. CASE UNCHANGED vars
  <2>1. UNCHANGED <<scenario, engine, msgs, nonces, restarted, installed>>
    BY <1>11 DEF vars
  <2>2. TypesInv'
    <3>1. Engines' = Engines
      BY <2>1 DEF Engines, Attempts
    <3>2. QED
      BY <2>1, <3>1 DEF HandshakeInv, TypesInv
  <2>3. R.dial.phase # "open" /\ I' = I /\ R' = R
    BY <2>1 DEF HandshakeInv, ResponderInv, I, R
  <2>4. QED
    BY <2>1, <2>2, <2>3, QuietStep DEF SameAttempt
<1>12. QED
  BY <1>1, <1>2, <1>3, <1>4, <1>5, <1>6, <1>7, <1>8, <1>9, <1>10, <1>11 DEF Next

\* The inductive invariant holds of every behaviour of two engines, whatever the
\* network loses, repeats, delays or reorders, and across restarts of the responder.
THEOREM HandshakeInvariant == Spec => []HandshakeInv
<1>1. Init => HandshakeInv
  BY InitHolds
<1>2. HandshakeInv /\ [Next]_vars => HandshakeInv'
  BY NextStep
<1>3. QED
  BY <1>1, <1>2, PTL DEF Spec

\* All FINISH packets of one SessionID carry one nonce.
LEMMA OneFinish ==
    ASSUME HandshakeInv, NEW id \in Ids, NEW m \in Finishes(msgs, id), NEW n \in Finishes(msgs, id)
    PROVE  m.nonce = n.nonce
  BY DEF HandshakeInv, InitiatorInv, IAttempt

LEMMA InvAgrees ==
    ASSUME HandshakeInv
    PROVE  Agreement
<1>1. InstalledInv /\ TypesInv
  BY DEF HandshakeInv
<1>2. ASSUME NEW s \in installed
      PROVE  s[1] \in Sides /\ s[2] \in Ids /\ s = <<s[1], s[2], s[3]>>
  BY <1>1 DEF TypesInv
<1>3. ASSUME NEW s \in installed, NEW t \in installed, s[1] = t[1], s[2] = t[2]
      PROVE  s = t
  <2>1. CASE s[1] = "initiator"
    BY <1>1, <1>3, <2>1 DEF InstalledInv
  <2>2. CASE s[1] = "responder"
    <3>1. PICK m \in Finishes(msgs, s[2]) : m.nonce = s[3]
      BY <1>1, <2>2 DEF InstalledInv
    <3>2. PICK n \in Finishes(msgs, s[2]) : n.nonce = t[3]
      BY <1>1, <1>3, <2>2 DEF InstalledInv
    <3>3. s[3] = t[3]
      BY <1>2, <3>1, <3>2, OneFinish
    <3>4. QED
      BY <1>2, <1>3, <3>3
  <2>3. QED
    BY <1>2, <2>1, <2>2 DEF Sides
<1>4. Cardinality({s \in installed : s[1] = "initiator"}) <= 1
  <2> DEFINE S == {s \in installed : s[1] = "initiator"}
  <2>1. \A s, t \in S : s = t
    BY <1>1 DEF InstalledInv
  <2>2. CASE S = {}
    BY <2>2, FS_EmptySet
  <2>3. CASE S # {}
    <3>1. PICK s : s \in S
      BY <2>3
    <3>2. S = {s}
      BY <2>1, <3>1
    <3> HIDE DEF S
    <3>3. Cardinality(S) = 1
      BY <3>2, FS_Singleton
    <3>4. QED
      BY <3>3 DEF S
  <2>4. QED
    BY <2>2, <2>3
<1>5. ASSUME NEW id \in Ids, I.att[id].phase = "waitReady"
      PROVE  \E m \in msgs : m.type = "FINISH" /\ m.id = id /\ m.nonce = I.att[id].nonce
  <2>1. Finishes(msgs, id) # {} /\ \A m \in Finishes(msgs, id) : m.nonce = I.att[id].nonce
    BY <1>5 DEF HandshakeInv, InitiatorInv, IAttempt
  <2>2. QED
    BY <2>1 DEF Finishes
<1>6. ASSUME NEW id \in Ids, R.att[id].phase = "established"
      PROVE  \E m \in msgs : m.type = "READY" /\ m.id = id /\ m.nonce = R.att[id].nonce
  BY <1>6 DEF HandshakeInv, ResponderInv, RAttempt
<1>7. \A s \in installed : s[1] = "initiator" => <<"responder", s[2], s[3]>> \in installed
  BY <1>1 DEF InstalledInv
<1>8. QED
  BY <1>3, <1>4, <1>5, <1>6, <1>7 DEF Agreement

\* Both sides mean the same Session: an initiator installs only a transcript that
\* the responder installed, no side installs a SessionID twice, a dial that races
\* its carriers yields one Session, and whoever moved on has said so.
THEOREM EnginesAgree == Spec => []Agreement
<1>1. HandshakeInv => Agreement
  BY InvAgrees
<1>2. QED
  BY <1>1, HandshakeInvariant, PTL

----------------------------------------------------------------------------
(* Contracts.                                                              *)

LEMMA ProfileFields ==
    ASSUME NEW p \in Profile
    PROVE  /\ p.protocol \in {"datagram", "kcp"} /\ p.data \in Nat /\ p.parity \in Nat
           /\ p.mux \in BOOLEAN /\ p.probes \in BOOLEAN /\ p.perCarrier \in BOOLEAN
           /\ p.send \in Nat /\ p.receive \in Nat /\ p.paths \in Nat /\ p.grace \in Nat
           /\ p.limits.bytes \in Nat /\ p.limits.fragments \in Nat /\ p.limits.descriptors \in Nat
           /\ p.records \in Nat /\ p.groupBytes \in Nat /\ p.aggregates \in BOOLEAN
  BY DEF Profile

\* The CHALLENGE of a listener is its profile but for what it offers.
LEMMA ChallengeShape ==
    ASSUME NEW h \in Profile, NEW l \in Profile
    PROVE  LET c == Challenge(h, l)
               selected == h.offered \cap l.offered \cap Capabilities
           IN  /\ c.protocol = l.protocol /\ c.required = l.required
               /\ c.data = l.data /\ c.parity = l.parity
               /\ c.mux = l.mux /\ c.probes = l.probes /\ c.perCarrier = l.perCarrier
               /\ c.send = l.send /\ c.receive = l.receive /\ c.paths = l.paths
               /\ c.grace = l.grace /\ c.repair = l.repair /\ c.limits = l.limits
               /\ c.offered = selected
               /\ c.migrations = IF "migration" \in selected THEN l.migrations ELSE 0
               /\ selected = l.offered /\ c.migrations = l.migrations => c = l
<1> DEFINE selected == h.offered \cap l.offered \cap Capabilities
           kept == IF "migration" \in selected THEN l.migrations ELSE 0
           c == Challenge(h, l)
<1>1. c = [l EXCEPT !.offered = selected, !.migrations = kept]
  BY DEF Challenge
<1> HIDE DEF selected, kept, c
<1>2. /\ c.protocol = l.protocol /\ c.required = l.required
      /\ c.data = l.data /\ c.parity = l.parity
      /\ c.mux = l.mux /\ c.probes = l.probes /\ c.perCarrier = l.perCarrier
      /\ c.send = l.send /\ c.receive = l.receive /\ c.paths = l.paths
      /\ c.grace = l.grace /\ c.repair = l.repair /\ c.limits = l.limits
      /\ c.offered = selected /\ c.migrations = kept
  BY <1>1 DEF Profile
<1>3. selected = l.offered /\ kept = l.migrations => c = l
  BY <1>1 DEF Profile
<1>4. QED
  BY <1>2, <1>3 DEF c, selected, kept

\* What a listener answers is as valid as its profile, if it still offers what
\* it requires.
LEMMA ChallengeValid ==
    ASSUME NEW h \in Profile, NEW l \in Profile, Validate(l)
    PROVE  Validate(Challenge(h, l)) <=> l.required \subseteq h.offered
<1> DEFINE c == Challenge(h, l)
           selected == h.offered \cap l.offered \cap Capabilities
<1>1. /\ c.protocol = l.protocol /\ c.required = l.required
      /\ c.data = l.data /\ c.parity = l.parity
      /\ c.mux = l.mux /\ c.probes = l.probes /\ c.perCarrier = l.perCarrier
      /\ c.send = l.send /\ c.receive = l.receive /\ c.paths = l.paths
      /\ c.grace = l.grace /\ c.repair = l.repair /\ c.limits = l.limits
      /\ c.offered = selected
      /\ c.migrations = IF "migration" \in selected THEN l.migrations ELSE 0
  BY ChallengeShape
<1> HIDE DEF c
<1>2. ApplicableCaps(c) = ApplicableCaps(l) /\ ActivePolicyCaps(c) = ActivePolicyCaps(l)
  BY <1>1 DEF ApplicableCaps, ActivePolicyCaps
<1>3. l.required \subseteq Capabilities /\ l.required \subseteq l.offered
  BY DEF Validate
<1>4. c.required \subseteq c.offered <=> l.required \subseteq h.offered
  BY <1>1, <1>3
<1>5. Validate(c) => l.required \subseteq h.offered
  BY <1>4 DEF Validate
<1>6. ASSUME l.required \subseteq h.offered PROVE Validate(c)
  <2>1. IF "migration" \in c.offered THEN c.migrations \in 1..2 ELSE c.migrations = 0
    BY <1>1 DEF Validate
  <2>2. "repair" \in c.offered <=> "repair" \in c.required
    BY <1>1, <1>4, <1>6 DEF Validate
  <2>3. "smux" \in c.offered => c.mux
    BY <1>1 DEF Validate
  <2>4. c.required \subseteq Capabilities /\ c.required \subseteq c.offered
    BY <1>1, <1>3, <1>4, <1>6
  <2>5. QED
    BY <1>1, <1>2, <2>1, <2>2, <2>3, <2>4 DEF Validate
<1>7. QED
  BY <1>5, <1>6 DEF c

\* Negotiation refuses exactly the pairs that cannot speak.
LEMMA SelectsCompatible ==
    ASSUME NEW h \in Profile, NEW l \in Profile, Validate(h), Validate(l), NEW path \in Nat \ {0}
    PROVE  Select(h, path, l).valid <=> Compatible(h, path, l)
<1> DEFINE c == Challenge(h, l)
           selected == h.offered \cap l.offered \cap Capabilities
           fits == /\ Validate(h) /\ Validate(c) /\ SamePolicy(h, c)
                   /\ c.offered \subseteq Capabilities \cap h.offered
                   /\ h.required \cup c.required \subseteq c.offered
                   /\ path \in 1..Min({h.paths, c.paths})
                   /\ ~h.probes /\ h.perCarrier => h.paths <= c.paths
<1>1. /\ c.protocol = l.protocol /\ c.required = l.required
      /\ c.data = l.data /\ c.parity = l.parity
      /\ c.mux = l.mux /\ c.probes = l.probes /\ c.perCarrier = l.perCarrier
      /\ c.paths = l.paths /\ c.offered = selected
  BY ChallengeShape
<1>2. Validate(c) <=> l.required \subseteq h.offered
  BY ChallengeValid
<1>3. Select(h, path, l).valid <=> fits
  BY DEF Select, Accept, NoContract
<1> HIDE DEF c
<1>4. path \in 1..Min({h.paths, c.paths}) <=> path <= h.paths /\ path <= l.paths
  BY <1>1, MinTwo, ProfileFields
<1>5. /\ h.required \subseteq Capabilities /\ h.required \subseteq h.offered
      /\ l.required \subseteq Capabilities /\ l.required \subseteq l.offered
      /\ "repair" \in h.offered <=> "repair" \in h.required
      /\ "repair" \in l.offered <=> "repair" \in l.required
  BY DEF Validate
<1>6. h.required \cup c.required \subseteq c.offered <=>
        h.required \subseteq l.offered /\ l.required \subseteq h.offered
  BY <1>1, <1>5
<1>7. h.required \subseteq l.offered /\ l.required \subseteq h.offered =>
        ("repair" \in h.required <=> "repair" \in l.required)
  BY <1>5
<1>8. c.offered \subseteq Capabilities \cap h.offered
  BY <1>1
<1>9. fits <=> /\ h.protocol = l.protocol /\ h.data = l.data /\ h.parity = l.parity
               /\ h.mux = l.mux /\ h.probes = l.probes /\ h.perCarrier = l.perCarrier
               /\ h.required \subseteq l.offered /\ l.required \subseteq h.offered
               /\ path <= h.paths /\ path <= l.paths
               /\ h.perCarrier /\ ~h.probes => h.paths <= l.paths
  BY <1>1, <1>2, <1>4, <1>6, <1>7, <1>8 DEF SamePolicy
<1>10. QED
  BY <1>3, <1>9 DEF Compatible

\* What a supported sender derives for a supported receiver, the receiver accepts.
LEMMA SupportedUnderstand ==
    ASSUME NEW r \in Profile, NEW s \in Profile, Validate(r), Validate(s),
           Supported(r), Supported(s)
    PROVE  Understands(r, s)
<1> DEFINE udp == Min({s.send, r.receive})
           d == Min({s.records, r.limits.descriptors})
           shardBytes == udp - BundleOverhead
           product == s.data * shardBytes
           logical == Min({s.groupBytes, product})
           descriptors == IF s.aggregates THEN d ELSE 1
           direction == EffectiveSend(s, r)
           context == Context(s, r)
<1>1. /\ s.data \in Nat /\ s.data > 0 /\ s.send \in Nat /\ r.receive \in Nat
      /\ s.send >= MinUDP /\ r.receive >= MinUDP
      /\ s.limits.bytes \in Nat /\ s.limits.fragments \in Nat
      /\ r.limits.bytes \in Nat /\ r.limits.fragments \in Nat
      /\ r.limits.descriptors \in Nat /\ r.limits.descriptors >= 1
  BY ProfileFields DEF Validate, Supported, ValidDatagram, MinUDP
<1>2. s.records \in Nat /\ s.records >= 1 /\ s.groupBytes \in Nat /\ s.groupBytes >= MinLogical
  BY ProfileFields DEF Supported, MinLogical
<1>3. /\ udp \in Nat /\ udp >= MinUDP /\ udp <= r.receive /\ udp <= s.send
      /\ Min({r.receive, s.send}) = udp
  <2>1. {s.send, r.receive} = {r.receive, s.send}
    OBVIOUS
  <2>2. s.send \in Int /\ r.receive \in Int
    BY <1>1
  <2>3. udp \in {s.send, r.receive} /\ udp <= s.send /\ udp <= r.receive
    BY <2>2, MinTwo, Zenon
  <2>4. QED
    BY <1>1, <2>1, <2>3
<1>4. d \in 1..r.limits.descriptors
  <2>1. s.records \in Int /\ r.limits.descriptors \in Int
    BY <1>1, <1>2
  <2>2. d \in {s.records, r.limits.descriptors} /\ d <= s.records /\ d <= r.limits.descriptors
    BY <2>1, MinTwo, Zenon
  <2> HIDE DEF d
  <2>3. QED
    BY <1>1, <1>2, <2>2
<1>5. /\ direction.udp = udp
      /\ direction.bytes = Min({s.limits.bytes, r.limits.bytes})
      /\ direction.fragments = Min({s.limits.fragments, r.limits.fragments})
      /\ direction.descriptors = d
  BY DEF EffectiveSend
<1>6. /\ context.data = s.data /\ context.parity = s.parity /\ context.shardBytes = shardBytes
      /\ context.descriptors = descriptors /\ context.logical = logical
  BY <1>5 DEF Context
<1>7. shardBytes \in Nat /\ shardBytes >= MinLogical /\ shardBytes + BundleOverhead = udp
  BY <1>3 DEF MinUDP, BundleOverhead, MinLogical
<1> HIDE DEF udp, d, direction, context
<1>8. product \in Nat /\ product >= shardBytes
  <2> HIDE DEF shardBytes
  <2>1. ASSUME NEW x \in Nat, NEW y \in Nat, x > 0 PROVE x * y \in Nat /\ x * y >= y
    BY <2>1
  <2>2. QED
    BY <1>1, <1>7, <2>1
<1> HIDE DEF shardBytes, product
<1>9. logical >= MinLogical /\ logical <= product
  <2>1. s.groupBytes \in Int /\ product \in Int
    BY <1>2, <1>8
  <2>2. logical \in {s.groupBytes, product} /\ logical <= s.groupBytes /\ logical <= product
    BY <2>1, MinTwo, Zenon
  <2> HIDE DEF logical
  <2>3. QED
    BY <1>2, <1>7, <1>8, <2>2 DEF MinLogical
<1> HIDE DEF logical
<1>10. AcceptsBudget(r, s, direction.udp)
  BY <1>1, <1>3, <1>5 DEF AcceptsBudget, MinUDP
<1>11. context.descriptors \in 1..r.limits.descriptors
  BY <1>1, <1>4, <1>6
<1>12. AcceptsContext(r, s, direction.udp, context)
  <2>1. context.shardBytes >= 1 /\ context.shardBytes + BundleOverhead <= direction.udp
    BY <1>3, <1>5, <1>6, <1>7 DEF MinLogical
  <2>2. context.logical >= MinLogical /\ context.logical <= context.data * context.shardBytes
    BY <1>6, <1>9 DEF product
  <2>3. QED
    BY <1>6, <1>11, <2>1, <2>2 DEF AcceptsContext
<1>13. direction.bytes <= r.limits.bytes /\ direction.fragments <= r.limits.fragments
  <2>1. /\ s.limits.bytes \in Int /\ r.limits.bytes \in Int
        /\ s.limits.fragments \in Int /\ r.limits.fragments \in Int
    BY <1>1
  <2>2. /\ Min({s.limits.bytes, r.limits.bytes}) <= r.limits.bytes
        /\ Min({s.limits.fragments, r.limits.fragments}) <= r.limits.fragments
    BY <2>1, MinTwo, Zenon
  <2>3. QED
    BY <1>5, <2>2
<1>14. QED
  BY <1>10, <1>12, <1>13, ZenonT(40) DEF Understands, direction, context

\* Between sides of this version that offer the same, the contract says of each
\* what it was configured with.
LEMMA SupportedConstruct ==
    ASSUME NEW h \in Profile, NEW l \in Profile, Validate(h), Validate(l), NEW path,
           Select(h, path, l).valid, Supported(h), Supported(l), h.offered = l.offered
    PROVE  LET c == Select(h, path, l)
           IN  /\ c.client = h /\ c.server = l
               /\ Constructs(c, h, c.client) /\ Constructs(c, l, c.server)
<1> DEFINE challenge == Challenge(h, l)
           c == Select(h, path, l)
           selected == h.offered \cap l.offered \cap Capabilities
<1>1. c = Accept(h, path, challenge) /\ c.valid
  BY DEF Select
<1>2. selected = l.offered
  BY DEF Supported, Capabilities
<1>3. "migration" \notin l.offered /\ l.migrations = 0
  BY DEF Supported, Validate
<1>4. challenge = l
  BY <1>2, <1>3, ChallengeShape
<1> HIDE DEF challenge
<1>5. c.client = h /\ c.server = l /\ c.active = l.offered \cap ApplicableCaps(h)
  <2> DEFINE paths == Min({h.paths, l.paths})
             grace == Min({h.grace, l.grace})
             repair == Min({h.repair, l.repair})
             migrations == Min({h.migrations, l.migrations})
             active == l.offered \cap ApplicableCaps(h)
             agreed == [valid |-> TRUE, selected |-> l.offered, active |-> active,
                        paths |-> paths, path |-> path, grace |-> grace, repair |-> repair,
                        migrations |-> migrations, client |-> h, server |-> l]
  <2>1. c = agreed \/ c = [valid |-> FALSE]
    BY <1>1, <1>4, Zenon DEF Accept, NoContract
  <2> HIDE DEF c, paths, grace, repair, migrations, active
  <2>2. c = agreed
    BY <1>1, <2>1
  <2>3. QED
    BY <2>2 DEF active
<1>6. "aggregation" \in ApplicableCaps(h)
  BY DEF Supported, ApplicableCaps, If
<1> HIDE DEF c
<1>7. Constructs(c, h, c.client) /\ Constructs(c, l, c.server)
  BY <1>1, <1>5, <1>6 DEF Constructs, Supported
<1>8. QED
  BY <1>5, <1>7 DEF c

LEMMA InvKeepsContracts ==
    ASSUME HandshakeInv
    PROVE  ContractsKept
<1> DEFINE h == Profiles[scenario.client]
           l == Profiles[scenario.server]
<1>1. /\ scenario \in Scenarios /\ scenario.carriers \in 1..MaxPaths
      /\ \A n \in 1..scenario.carriers : n \in Ids
      /\ scenario.client \in DOMAIN Profiles /\ scenario.server \in DOMAIN Profiles
  BY InvFacts, ScenarioFacts
<1>2. h \in Profile /\ l \in Profile /\ Validate(h) /\ Validate(l)
  BY <1>1, ProfilesAssumption
<1>3. \A id \in Ids : Contract(id) = Select(h, id, l)
  BY <1>1 DEF Contract, Contracts
<1> HIDE DEF h, l
<1>4. ASSUME NEW id \in 1..scenario.carriers
      PROVE  Contract(id).valid <=> Compatible(h, id, l)
  <2>1. id \in Ids /\ id \in Nat \ {0}
    BY <1>1, IdsFinite
  <2>2. QED
    BY <1>2, <1>3, <2>1, SelectsCompatible
<1>5. ASSUME NEW s \in installed
      PROVE  s[2] \in Ids /\ Contract(s[2]).valid
  <2>1. InstalledInv /\ TypesInv
    BY DEF HandshakeInv
  <2>2. s[1] \in Sides /\ s[2] \in Ids
    BY <2>1 DEF TypesInv
  <2>3. CASE s[1] = "responder"
    BY <2>1, <2>2, <2>3 DEF InstalledInv
  <2>4. CASE s[1] = "initiator"
    <3> DEFINE t == <<"responder", s[2], s[3]>>
    <3>1. t \in installed /\ t[1] = "responder" /\ t[2] = s[2]
      BY <2>1, <2>4 DEF InstalledInv
    <3> HIDE DEF t
    <3>2. Contract(t[2]).valid
      BY <2>1, <3>1 DEF InstalledInv
    <3>3. QED
      BY <2>2, <3>1, <3>2
  <2>5. QED
    BY <2>2, <2>3, <2>4 DEF Sides
<1>6. ASSUME NEW s \in installed, Supported(h), Supported(l), h.offered = l.offered
      PROVE  LET c == Contract(s[2])
             IN  /\ Constructs(c, h, c.client) /\ Constructs(c, l, c.server)
                 /\ Understands(c.server, c.client) /\ Understands(c.client, c.server)
  <2> DEFINE c == Contract(s[2])
  <2>1. c = Select(h, s[2], l) /\ c.valid
    BY <1>3, <1>5
  <2>2. /\ c.client = h /\ c.server = l
        /\ Constructs(c, h, c.client) /\ Constructs(c, l, c.server)
    BY <1>2, <1>6, <2>1, SupportedConstruct
  <2>3. Understands(l, h) /\ Understands(h, l)
    BY <1>2, <1>6, SupportedUnderstand
  <2> HIDE DEF c
  <2>4. Understands(c.server, c.client) /\ Understands(c.client, c.server)
    BY <2>2, <2>3
  <2>5. QED
    BY <2>2, <2>4 DEF c
<1>7. QED
  BY <1>4, <1>5, <1>6 DEF ContractsKept, h, l

\* Whatever two valid profiles meet, negotiation refuses exactly the pairs that
\* cannot speak, a Session is installed only with a contract, and between two
\* sides of this version the controllers of both accept it and what the other
\* derives from it.
THEOREM InstalledMeansContract == Spec => []ContractsKept
<1>1. HandshakeInv => ContractsKept
  BY InvKeepsContracts
<1>2. QED
  BY <1>1, HandshakeInvariant, PTL

----------------------------------------------------------------------------
(* The books of an engine.                                                 *)

\* What becomes of a reservation: untouched, promoted with its Session, and given
\* back after its disposer, if it had one, has run.
Intact(r) == r.storage = "held" /\ r.called = 0 /\ r.disposer = r.given
Pledged(r) ==
    /\ Intact(r) /\ r.scope = "pending" /\ r.packet
    /\ r.given => scenario.mode # "sync"
Promoted(r, packets) == Intact(r) /\ r.scope = "open" /\ r.packet = packets
Spent(r) ==
    /\ r.storage # "held" /\ r.scope \in {"none", "closed"} /\ ~r.packet
    /\ r.storage # "none" => r.called = IF r.given THEN 1 ELSE 0
\* Promoted for an installer that failed, and now to be retired.
Doomed(r) == r.storage = "held" /\ r.scope = "open" /\ Spent(Retired(r))

Owns(a, r) == IF a.phase = "established" THEN Promoted(r, a.packets) ELSE a.packets /\ Pledged(r)

\* The prepared dial keeps its reservation between two attempts.
Prepares(e) == scenario.mode = "prepared" /\ e.side = "initiator"
Keeps(e, o) == o = 0 /\ Prepares(e) /\ (e.prepared = "waiting" \/ e.dial.phase = "open")

\* Every live attempt has a reservation of its own, those of X one that is doomed,
\* and what nobody uses was given back.
OwnersApart(e) ==
    /\ \A i, j \in Live(e) : e.att[i].owner = e.att[j].owner => i = j
    /\ \A id \in Live(e) :
         IF e.side = "initiator"
         THEN e.att[id].owner = IF scenario.mode = "prepared" THEN 0 ELSE id
         ELSE e.att[id].owner # 0
Unused(e, o) == \A id \in Live(e) : e.att[id].owner # o
Held(e, X) ==
    /\ OwnersApart(e)
    /\ \A id \in Live(e) :
         LET r == e.res[e.att[id].owner] IN IF id \in X THEN Doomed(r) ELSE Owns(e.att[id], r)
    /\ \A o \in Owners : Unused(e, o) => IF Keeps(e, o) THEN Pledged(e.res[o]) ELSE Spent(e.res[o])

Waiting(e) == {id \in Live(e) : e.att[id].phase # "established"}
Counted(e) ==
    /\ e.pending = Cardinality(Waiting(e)) /\ Capacity(e) >= 0
    /\ e.dial.phase = "open" =>
         /\ e.side = "initiator"
         /\ e.dial.running = Cardinality(Waiting(e)) /\ Live(e) = Waiting(e)
    /\ e.prepared = "waiting" => Prepares(e) /\ Live(e) = {} /\ e.dial.phase # "open"
    /\ e.side = "initiator" => \A id \in Live(e) : id <= e.dial.next

\* During a call, and between calls.
Booked(e, X) == e \in Engines /\ Held(e, X) /\ Counted(e)
Balanced(e) ==
    /\ Booked(e, {})
    /\ e.dial.phase = "open" => Waiting(e) # {}
    /\ e.side = "initiator" /\ e.dial.phase # "open" => Waiting(e) = {}
    /\ e.closed => Live(e) = {}

BooksInv ==
    /\ \A side \in Sides : Balanced(engine[side])
    /\ \A id \in Live(R) : R.att[id].owner <= nonces

----------------------------------------------------------------------------
(* Books of an engine: steps that do not touch them.                       *)

\* The same reservation, and as far as it.
Alike(a, b) ==
    /\ b.owner = a.owner /\ b.packets = a.packets
    /\ b.phase = "none" <=> a.phase = "none"
    /\ b.phase = "established" <=> a.phase = "established"

SameBooks(e, n) ==
    /\ n \in Engines /\ n.side = e.side /\ n.closed = e.closed /\ n.pending = e.pending
    /\ n.res = e.res /\ n.prepared = e.prepared
    /\ n.dial.phase = e.dial.phase /\ n.dial.running = e.dial.running
    /\ n.dial.next = e.dial.next
    /\ \A id \in Ids : Alike(e.att[id], n.att[id])

LEMMA SameLive ==
    ASSUME NEW e, NEW n, \A id \in Ids : Alike(e.att[id], n.att[id])
    PROVE  Live(n) = Live(e) /\ Waiting(n) = Waiting(e)
  BY DEF Live, Waiting, Alike

LEMMA SameBooked ==
    ASSUME NEW e, NEW n, SameBooks(e, n), NEW X, Booked(e, X)
    PROVE  /\ Booked(n, X)
           /\ Live(n) = Live(e) /\ Waiting(n) = Waiting(e)
           /\ \A id \in Ids : n.att[id].owner = e.att[id].owner
<1>1. Live(n) = Live(e) /\ Waiting(n) = Waiting(e)
  BY SameLive DEF SameBooks
<1>2. \A id \in Live(e) : Alike(e.att[id], n.att[id])
  BY DEF SameBooks, Live
<1>3. OwnersApart(n)
  BY <1>1, <1>2 DEF Booked, Held, OwnersApart, SameBooks, Alike
<1>4. \A id \in Live(n) :
        LET r == n.res[n.att[id].owner] IN IF id \in X THEN Doomed(r) ELSE Owns(n.att[id], r)
  BY <1>1, <1>2 DEF Booked, Held, Owns, SameBooks, Alike
<1>5. \A o \in Owners : Unused(n, o) => IF Keeps(n, o) THEN Pledged(n.res[o]) ELSE Spent(n.res[o])
  <2>1. ASSUME NEW o PROVE (Unused(n, o) <=> Unused(e, o)) /\ (Keeps(n, o) <=> Keeps(e, o))
    BY <1>1, <1>2 DEF Unused, Alike, Keeps, Prepares, SameBooks
  <2>2. QED
    BY <2>1 DEF Booked, Held, SameBooks
<1>6. Counted(n)
  BY <1>1 DEF Booked, Counted, Capacity, Prepares, SameBooks
<1>7. QED
  BY <1>1, <1>3, <1>4, <1>5, <1>6 DEF Booked, Held, SameBooks, Alike

LEMMA SameBooksOn ==
    ASSUME NEW e, NEW m, NEW n, SameBooks(e, m), SameBooks(m, n)
    PROVE  SameBooks(e, n)
  BY DEF SameBooks, Alike

----------------------------------------------------------------------------
(* Failing attempts.                                                       *)

\* The attempts of S whose reservation ends with them.
Over(e, S) == {id \in S : ~Recyclable(e, e.att[id])}

LEMMA FailBooks ==
    ASSUME scenario \in Scenarios, NEW e \in Engines, NEW S \in SUBSET Ids, NEW notify \in BOOLEAN
    PROVE  LET n == FailAttempts(e, S, notify)
               size == Cardinality({id \in S : e.att[id].phase # "established"})
               drops == \E id \in Over(e, S) : OfPrepared(e, e.att[id])
           IN  /\ n.pending = e.pending - size
               /\ \A o \in Owners : n.res[o] = IF \E id \in Over(e, S) : e.att[id].owner = o
                                               THEN Retired(e.res[o]) ELSE e.res[o]
               /\ n.dial.phase = IF drops THEN "over" ELSE e.dial.phase
               /\ ~drops => n.dial.running = IF e.dial.phase = "open" THEN e.dial.running - size
                                             ELSE e.dial.running
<1> DEFINE unfinished == {id \in S : e.att[id].phase # "established"}
           att == [id \in Ids |-> IF id \in S THEN NoAttempt ELSE e.att[id]]
           closes == {Packet(e, "CLOSE", id) : id \in {i \in S : notify /\ e.att[i].nonce # 0}}
           gone == [e EXCEPT
               !.att = [id \in Ids |-> IF id \in S THEN NoAttempt ELSE e.att[id]],
               !.out = @ \cup {Packet(e, "CLOSE", id) : id \in {i \in S : notify /\ e.att[i].nonce # 0}},
               !.pending = @ - Cardinality(unfinished),
               !.dial.running = IF e.dial.phase = "open" THEN @ - Cardinality(unfinished) ELSE @]
           over == {id \in S : ~Recyclable(gone, e.att[id])}
           drops == \E id \in over : OfPrepared(e, e.att[id])
           ended == IF drops THEN DropDial(gone) ELSE gone
           owners == {e.att[id].owner : id \in over}
           n == FailAttempts(e, S, notify)
           less == IF e.dial.phase = "open" THEN e.dial.running - Cardinality(unfinished)
                                            ELSE e.dial.running
           dial == [e.dial EXCEPT !.running = less]
           out == e.out \cup closes
           left == e.pending - Cardinality(unfinished)
<1>1. n = Retire(ended, owners)
  BY DEF FailAttempts
<1>2. gone = [e EXCEPT !.att = att, !.out = out, !.pending = left, !.dial = dial]
  BY EngineFields DEF Engines
<1>3. dial.phase = e.dial.phase /\ dial.running = less /\ dial.next = e.dial.next
      /\ dial.ttl = e.dial.ttl
  BY EngineFields DEF Dials
<1> HIDE DEF gone, out, dial, less, left, att, closes
<1>4. /\ gone.side = e.side /\ gone.closed = e.closed /\ gone.res = e.res
      /\ gone.pending = left /\ gone.dial = dial
  BY <1>2 DEF Engines
<1>5. over = Over(e, S)
  BY <1>3, <1>4 DEF Over, Recyclable, OfPrepared
<1> HIDE DEF over
<1>6. /\ ended.res = e.res /\ ended.pending = left
      /\ ended.dial.phase = IF drops THEN "over" ELSE e.dial.phase
      /\ ~drops => ended.dial.running = less
  <2>1. CASE drops
    <3> DEFINE d == [phase |-> "over", next |-> gone.dial.next, running |-> 0, ttl |-> 0]
    <3>1. ended = [gone EXCEPT !.dial = d]
      BY <2>1 DEF DropDial
    <3>2. gone = [e EXCEPT !.att = att, !.out = out, !.pending = left, !.dial = dial]
      BY <1>2
    <3>3. DOMAIN gone = DOMAIN e /\ "dial" \in DOMAIN e
      BY <3>2 DEF Engines
    <3>4. d.phase = "over"
      OBVIOUS
    <3> HIDE DEF d, ended
    <3>5. ended.res = gone.res /\ ended.pending = gone.pending /\ ended.dial = d
      BY <3>1, <3>3
    <3>6. QED
      BY <1>4, <2>1, <3>4, <3>5
  <2>2. CASE ~drops
    BY <1>3, <1>4, <2>2
  <2>3. QED
    BY <2>1, <2>2
<1> HIDE DEF ended
<1>7. "res" \in DOMAIN ended
  <2>1. DOMAIN gone = DOMAIN e /\ "res" \in DOMAIN e
    BY <1>2 DEF Engines
  <2>2. QED
    BY <2>1 DEF ended, DropDial
<1>8. /\ n.pending = ended.pending /\ n.dial = ended.dial
      /\ \A o \in Owners : n.res[o] = IF o \in owners THEN Retired(ended.res[o]) ELSE ended.res[o]
  <2> DEFINE res == [o \in Owners |-> IF o \in owners THEN Retired(ended.res[o]) ELSE ended.res[o]]
  <2>1. n = [ended EXCEPT !.res = res]
    BY <1>1 DEF Retire
  <2>2. \A o \in Owners : res[o] = IF o \in owners THEN Retired(ended.res[o]) ELSE ended.res[o]
    OBVIOUS
  <2> HIDE DEF res, n
  <2>3. QED
    BY <1>7, <2>1, <2>2
<1>9. drops <=> \E id \in Over(e, S) : OfPrepared(e, e.att[id])
  BY <1>5
<1>10. \A o : o \in owners <=> \E id \in Over(e, S) : e.att[id].owner = o
  BY <1>5
<1> HIDE DEF n, owners, drops
<1>11. QED
  BY <1>6, <1>8, <1>9, <1>10 DEF n, less, left

LEMMA Retiring ==
    ASSUME NEW r \in Holdings, Intact(r) \/ Doomed(r)
    PROVE  Spent(Retired(r))
<1>1. CASE Doomed(r)
  BY <1>1 DEF Doomed
<1>2. CASE Intact(r)
  <2> DEFINE q == Retired(r)
             called == IF r.disposer THEN r.called + 1 ELSE r.called
             left == IF r.disposer /\ scenario.mode # "sync" THEN "retiring" ELSE "released"
  <2>1. q = [r EXCEPT !.scope = "closed", !.packet = FALSE, !.disposer = FALSE,
                      !.called = called, !.storage = left]
    BY <1>2 DEF Retired, Intact
  <2>2. called = IF r.given THEN 1 ELSE 0
    BY <1>2 DEF Intact, Holdings
  <2>3. left \in {"retiring", "released"}
    OBVIOUS
  <2> HIDE DEF called, left, q
  <2>4. q.scope = "closed" /\ q.packet = FALSE /\ q.called = called /\ q.storage = left
        /\ q.given = r.given
    BY <2>1 DEF Holdings
  <2>5. Spent(q)
    BY <2>2, <2>3, <2>4 DEF Spent
  <2>6. QED
    BY <2>5 DEF q
<1>3. QED
  BY <1>1, <1>2

\* An attempt of the prepared dial is the only one.
LEMMA OnlyAttempt ==
    ASSUME NEW e, OwnersApart(e), Prepares(e), NEW i \in Live(e), NEW j \in Live(e)
    PROVE  i = j
  BY DEF OwnersApart, Prepares

LEMMA LiveFinite ==
    ASSUME NEW e
    PROVE  /\ Live(e) \subseteq Ids /\ Waiting(e) \subseteq Live(e) /\ Waiting(e) \subseteq Ids
           /\ IsFiniteSet(Waiting(e)) /\ Cardinality(Waiting(e)) \in Nat
  BY IdsFinite DEF Live, Waiting

\* The attempts of S end, and a dial with the last of them.
Loses(e, n, S) ==
    /\ Live(n) = Live(e) \ S /\ Waiting(n) = Waiting(e) \ S
    /\ n.side = e.side /\ n.closed = e.closed /\ n.prepared = e.prepared
    /\ n.dial.phase = e.dial.phase \/ (n.dial.phase = "over" /\ Live(n) = {})
    /\ \A id \in Ids \ S : n.att[id] = e.att[id]

LEMMA BFails ==
    ASSUME scenario \in Scenarios, NEW e, NEW S, S \subseteq Live(e), NEW X, X \subseteq S,
           Booked(e, X), NEW notify \in BOOLEAN
    PROVE  LET n == FailAttempts(e, S, notify) IN Booked(n, {}) /\ Loses(e, n, S)
<1> DEFINE n == FailAttempts(e, S, notify)
           unfinished == {id \in S : e.att[id].phase # "established"}
           size == Cardinality(unfinished)
           drops == \E id \in Over(e, S) : OfPrepared(e, e.att[id])
<1>1. e \in Engines /\ Held(e, X) /\ Counted(e) /\ OwnersApart(e)
  BY DEF Booked, Held
<1>2. S \in SUBSET Ids
  BY DEF Live
<1>3. /\ n \in Engines /\ n.side = e.side /\ n.prepared = e.prepared /\ n.closed = e.closed
      /\ n.att = [id \in Ids |-> IF id \in S THEN NoAttempt ELSE e.att[id]]
      /\ n.dial.next = e.dial.next
  BY <1>1, <1>2, FailShape
<1>4. /\ n.pending = e.pending - size
      /\ \A o \in Owners : n.res[o] = IF \E id \in Over(e, S) : e.att[id].owner = o
                                      THEN Retired(e.res[o]) ELSE e.res[o]
      /\ n.dial.phase = IF drops THEN "over" ELSE e.dial.phase
      /\ ~drops => n.dial.running = IF e.dial.phase = "open" THEN e.dial.running - size
                                    ELSE e.dial.running
  BY <1>1, <1>2, FailBooks
<1> HIDE DEF n
<1>5. Live(n) = Live(e) \ S
  BY <1>3 DEF Live, NoAttempt
<1>6. Waiting(n) = Waiting(e) \ S /\ \A id \in Ids \ S : n.att[id] = e.att[id]
  BY <1>3, <1>5 DEF Waiting, Live
<1>7. \A id \in Live(n) : id \in Live(e) /\ id \notin S /\ n.att[id] = e.att[id]
  BY <1>3, <1>5 DEF Live
<1>8. drops => Prepares(e) /\ Live(n) = {}
  <2>1. SUFFICES ASSUME drops PROVE Prepares(e) /\ Live(n) = {}
    OBVIOUS
  <2>2. PICK id \in S : OfPrepared(e, e.att[id])
    BY <2>1 DEF Over
  <2>3. Prepares(e)
    BY <2>2 DEF OfPrepared, Prepares
  <2>4. QED
    BY <1>1, <1>5, <2>2, <2>3, OnlyAttempt
<1>9. size \in Nat /\ Cardinality(Waiting(n)) = Cardinality(Waiting(e)) - size
  <2>1. unfinished \subseteq Waiting(e) /\ Waiting(n) = Waiting(e) \ unfinished
    BY <1>6 DEF Waiting
  <2> HIDE DEF unfinished
  <2>2. IsFiniteSet(Waiting(e)) /\ IsFiniteSet(unfinished)
    BY <2>1, LiveFinite, FS_Subset
  <2>3. Cardinality(Waiting(n)) = Cardinality(Waiting(e)) - Cardinality(Waiting(e) \cap unfinished)
    BY <2>1, <2>2, FS_Difference, Zenon
  <2>4. Waiting(e) \cap unfinished = unfinished
    BY <2>1
  <2>5. size \in Nat
    BY <2>2, FS_CardinalityType, Zenon
  <2>6. QED
    BY <2>3, <2>4, <2>5
<1> HIDE DEF size, drops
<1>10. Counted(n)
  <2>1. n.pending = Cardinality(Waiting(n))
    BY <1>1, <1>4, <1>9 DEF Counted
  <2>2. Capacity(n) >= 0
    <3>1. e.pending \in Int /\ n.pending \in Int /\ n.pending <= e.pending
      BY <1>1, <1>3, <1>4, <1>9, EngineFields
    <3>2. QED
      BY <1>1, <1>3, <3>1, LimitsAssumption DEF Counted, Capacity
  <2>3. n.dial.phase = "open" =>
          /\ n.side = "initiator"
          /\ n.dial.running = Cardinality(Waiting(n)) /\ Live(n) = Waiting(n)
    BY <1>1, <1>3, <1>4, <1>5, <1>6, <1>9 DEF Counted
  <2>4. n.prepared = "waiting" => Prepares(n) /\ Live(n) = {} /\ n.dial.phase # "open"
    BY <1>1, <1>3, <1>4, <1>5 DEF Counted, Prepares
  <2>5. n.side = "initiator" => \A id \in Live(n) : id <= n.dial.next
    BY <1>1, <1>3, <1>7 DEF Counted
  <2>6. QED
    BY <2>1, <2>2, <2>3, <2>4, <2>5 DEF Counted
<1>11. OwnersApart(n)
  BY <1>1, <1>3, <1>7 DEF OwnersApart
<1>12. \A id \in Ids : e.att[id].owner \in Owners
  <2>1. \A id \in Ids : e.att[id] \in Attempts
    BY <1>1, EngineFields
  <2>2. QED
    BY <2>1, AttemptFields
<1>13. ASSUME NEW id \in Live(n) PROVE Owns(n.att[id], n.res[n.att[id].owner])
  <2>1. id \in Live(e) /\ id \notin S /\ n.att[id] = e.att[id] /\ id \in Ids
    BY <1>7 DEF Live
  <2>2. \A i \in Over(e, S) : e.att[i].owner # e.att[id].owner
    BY <1>1, <2>1 DEF Over, OwnersApart
  <2>3. n.res[e.att[id].owner] = e.res[e.att[id].owner]
    BY <1>4, <1>12, <2>1, <2>2
  <2>4. QED
    BY <1>1, <2>1, <2>3 DEF Held
<1>14. ASSUME NEW o \in Owners, Unused(n, o)
       PROVE  IF Keeps(n, o) THEN Pledged(n.res[o]) ELSE Spent(n.res[o])
  <2>0. e.res[o] \in Holdings
    BY <1>1, EngineFields
  <2>1. CASE \E id \in S : e.att[id].owner = o
    <3>1. PICK id \in S : e.att[id].owner = o
      BY <2>1
    <3>2. id \in Live(e) /\ IF id \in X THEN Doomed(e.res[o]) ELSE Owns(e.att[id], e.res[o])
      BY <1>1, <3>1 DEF Held
    <3>3. e.prepared # "waiting"
      BY <1>1, <3>2 DEF Counted
    <3>4. CASE id \in Over(e, S)
      <4>1. n.res[o] = Retired(e.res[o])
        BY <1>4, <3>1, <3>4
      <4>2. Intact(e.res[o]) \/ Doomed(e.res[o])
        BY <3>2 DEF Owns, Promoted, Pledged
      <4>3. Spent(n.res[o])
        BY <2>0, <4>1, <4>2, Retiring
      <4>4. ~Keeps(n, o)
        <5>1. SUFFICES ASSUME Keeps(n, o) PROVE FALSE
          OBVIOUS
        <5>2. Prepares(e) /\ n.dial.phase = "open"
          BY <1>3, <3>3, <5>1 DEF Keeps, Prepares
        <5>3. ~drops /\ e.dial.phase = "open"
          BY <1>4, <5>2
        <5>4. e.att[id].phase # "established"
          BY <1>1, <3>2, <5>3 DEF Counted, Waiting
        <5>5. OfPrepared(e, e.att[id])
          BY <5>2, <5>4 DEF OfPrepared, Prepares
        <5>6. QED
          BY <3>4, <5>3, <5>5 DEF drops
      <4>5. QED
        BY <4>3, <4>4
    <3>5. CASE id \notin Over(e, S)
      <4>1. Recyclable(e, e.att[id])
        BY <3>1, <3>5 DEF Over
      <4>2. Prepares(e) /\ e.dial.phase = "open" /\ e.res[o].scope = "pending"
            /\ e.att[id].phase # "established"
        BY <3>1, <4>1 DEF Recyclable, OfPrepared, Prepares
      <4>3. o = 0
        BY <1>1, <3>1, <3>2, <4>2 DEF OwnersApart, Prepares
      <4>4. \A i \in S : i = id
        BY <1>1, <3>2, <4>2, OnlyAttempt
      <4>5. Over(e, S) = {}
        BY <3>5, <4>4 DEF Over
      <4>6. n.res[o] = e.res[o] /\ ~drops
        BY <1>4, <4>5 DEF drops
      <4>7. Keeps(n, o)
        BY <1>3, <1>4, <4>2, <4>3, <4>6 DEF Keeps, Prepares
      <4>8. Pledged(e.res[o])
        BY <3>2, <4>2 DEF Owns, Doomed
      <4>9. QED
        BY <4>6, <4>7, <4>8
    <3>6. QED
      BY <3>4, <3>5
  <2>2. CASE ~ \E id \in S : e.att[id].owner = o
    <3>1. Unused(e, o)
      BY <1>5, <1>7, <1>14, <2>2 DEF Unused
    <3>2. n.res[o] = e.res[o]
      BY <1>4, <2>2 DEF Over
    <3>3. Keeps(n, o) <=> Keeps(e, o)
      <4>1. CASE drops
        <5>1. PICK id \in S : TRUE
          BY <4>1 DEF drops, Over
        <5>2. o # 0
          BY <1>1, <1>8, <2>2, <4>1, <5>1 DEF OwnersApart, Prepares
        <5>3. QED
          BY <5>2 DEF Keeps
      <4>2. CASE ~drops
        BY <1>3, <1>4, <4>2 DEF Keeps, Prepares
      <4>3. QED
        BY <4>1, <4>2
    <3>4. QED
      BY <1>1, <3>1, <3>2, <3>3 DEF Held
  <2>3. QED
    BY <2>1, <2>2
<1>15. Booked(n, {})
  BY <1>3, <1>10, <1>11, <1>13, <1>14 DEF Booked, Held
<1>16. n.dial.phase = e.dial.phase \/ (n.dial.phase = "over" /\ Live(n) = {})
  BY <1>4, <1>8
<1>17. Loses(e, n, S)
  BY <1>3, <1>5, <1>6, <1>16 DEF Loses
<1>18. QED
  BY <1>15, <1>17 DEF n

LEMMA BFailsOne ==
    ASSUME scenario \in Scenarios, NEW e, NEW id, NEW X, X \subseteq {id} \cap Live(e),
           Booked(e, X), NEW notify \in BOOLEAN
    PROVE  LET n == FailAttempt(e, id, notify) IN Booked(n, {}) /\ Loses(e, n, {id})
<1> DEFINE S == {id} \cap Live(e)
           n == FailAttempts(e, S, notify)
<1>1. S \subseteq Live(e) /\ X \subseteq S
  OBVIOUS
<1>2. n = FailAttempt(e, id, notify)
  BY DEF FailAttempt
<1>3. Booked(n, {}) /\ Loses(e, n, S)
  <2> HIDE DEF S
  <2>1. QED
    BY <1>1, BFails
<1>4. Live(e) \ S = Live(e) \ {id} /\ Waiting(e) \ S = Waiting(e) \ {id}
  BY DEF Waiting
<1> HIDE DEF n
<1>5. Loses(e, n, {id})
  BY <1>3, <1>4 DEF Loses
<1>6. QED
  BY <1>2, <1>3, <1>5

Drops(e, n) ==
    /\ n.att = e.att /\ Live(n) = Live(e) /\ Waiting(n) = Waiting(e)
    /\ n.side = e.side /\ n.closed = e.closed /\ n.prepared = e.prepared
    /\ n.dial.phase = "over"

\* The end of a dial, which leaves its reservation to whoever still uses it.
LEMMA BDrops ==
    ASSUME NEW e, NEW X, Booked(e, X), Prepares(e) /\ e.dial.phase = "open" => Live(e) # {}
    PROVE  LET n == DropDial(e)
           IN  Booked(n, X) /\ Drops(e, n)
<1> DEFINE n == DropDial(e)
           d == n.dial
<1>1. e \in Engines /\ Held(e, X) /\ Counted(e) /\ OwnersApart(e)
  BY DEF Booked, Held
<1>2. n \in Engines /\ n = [e EXCEPT !.dial = d] /\ d.phase = "over" /\ d.next = e.dial.next
  BY <1>1, DropDialShape
<1> HIDE DEF n, d
<1>3. /\ n.side = e.side /\ n.att = e.att /\ n.prepared = e.prepared /\ n.closed = e.closed
      /\ n.pending = e.pending /\ n.res = e.res /\ n.dial = d
  BY <1>1, <1>2 DEF Engines
<1>4. Live(n) = Live(e) /\ Waiting(n) = Waiting(e)
  BY <1>3 DEF Live, Waiting
<1>5. Counted(n)
  BY <1>1, <1>2, <1>3, <1>4 DEF Counted, Capacity, Prepares
<1>6. OwnersApart(n)
  BY <1>1, <1>3, <1>4 DEF OwnersApart
<1>7. \A o \in Owners : Unused(n, o) =>
        (Unused(e, o) /\ (Keeps(n, o) <=> Keeps(e, o)))
  <2>5. ASSUME NEW o PROVE (Unused(n, o) => Unused(e, o)) /\ (Keeps(n, o) => Keeps(e, o))
    <3>1. Unused(n, o) => Unused(e, o)
      BY <1>3, <1>4 DEF Unused
    <3>2. n.dial.phase # "open"
      BY <1>2, <1>3
    <3>3. Keeps(n, o) => Keeps(e, o)
      BY <1>3, <3>2 DEF Keeps, Prepares
    <3>4. QED
      BY <3>1, <3>3
  <2>1. SUFFICES ASSUME NEW o \in Owners, Unused(n, o), Keeps(e, o)
                 PROVE  Keeps(n, o)
    BY <2>5, Zenon
  <2>2. CASE e.prepared = "waiting"
    BY <1>3, <2>1, <2>2 DEF Keeps, Prepares
  <2>3. CASE e.prepared # "waiting"
    <3>1. o = 0 /\ Prepares(e) /\ e.dial.phase = "open"
      BY <2>1, <2>3 DEF Keeps
    <3>2. PICK id \in Live(e) : TRUE
      BY <3>1
    <3>3. e.att[id].owner = 0
      BY <1>1, <3>1 DEF OwnersApart, Prepares
    <3>4. QED
      BY <1>3, <1>4, <2>1, <3>1, <3>2, <3>3 DEF Unused
  <2>4. QED
    BY <2>2, <2>3
<1>8. Held(n, X)
  BY <1>1, <1>3, <1>4, <1>6, <1>7 DEF Held
<1>9. Booked(n, X) /\ Drops(e, n)
  BY <1>2, <1>3, <1>4, <1>5, <1>8, Zenon DEF Booked, Drops
<1>10. QED
  BY <1>9 DEF n

----------------------------------------------------------------------------
(* Starting attempts.                                                      *)

LEMMA StartShape ==
    ASSUME scenario \in Scenarios, NEW e \in Engines, NEW k \in Int,
           k > 0 => k <= scenario.carriers - e.dial.next
    PROVE  LET new == (e.dial.next + 1)..(e.dial.next + k)
               size == Cardinality(new)
               n == StartAttempts(e, new)
           IN  /\ size = (IF k > 0 THEN k ELSE 0) /\ new \subseteq Ids
               /\ \A id \in new : id > e.dial.next /\ id <= e.dial.next + size
               /\ n.side = e.side /\ n.prepared = e.prepared /\ n.closed = e.closed
               /\ n.pending = e.pending + size
               /\ n.dial.phase = e.dial.phase /\ n.dial.next = e.dial.next + size
               /\ n.dial.running = e.dial.running + size
               /\ \A id \in Ids \ new : n.att[id] = e.att[id]
               /\ \A id \in new : /\ n.att[id].phase = "waitChallenge" /\ n.att[id].packets
                                  /\ n.att[id].owner = IF scenario.mode = "prepared" THEN 0 ELSE id
               /\ \A o \in Owners : n.res[o] = IF scenario.mode # "prepared" /\ o \in new
                                               THEN Reserved ELSE e.res[o]
<1> DEFINE new == (e.dial.next + 1)..(e.dial.next + k)
           ttl == Min({Lifetime, e.dial.ttl})
           owner(id) == IF scenario.mode = "prepared" THEN 0 ELSE id
           waits == "waitChallenge"
           yes == TRUE
           one == 1
           fresh(id) == [NoAttempt EXCEPT
               !.phase = waits, !.packets = yes, !.sends = one, !.wait = RetryInterval,
               !.ttl = ttl, !.owner = owner(id)]
           att == [id \in Ids |-> IF id \in new THEN fresh(id) ELSE e.att[id]]
           res == [o \in Owners |-> IF scenario.mode # "prepared" /\ o \in new
                                    THEN Reserved ELSE e.res[o]]
           size == Cardinality(new)
           next == e.dial.next + size
           running == e.dial.running + size
           dial == [e.dial EXCEPT !.next = next, !.running = running]
           filled == [e EXCEPT !.att = [id \in Ids |-> IF id \in new THEN fresh(id) ELSE e.att[id]],
                               !.res = [o \in Owners |-> IF scenario.mode # "prepared" /\ o \in new
                                                         THEN Reserved ELSE e.res[o]],
                               !.pending = @ + Cardinality(new),
                               !.dial.next = @ + Cardinality(new),
                               !.dial.running = @ + Cardinality(new)]
           hellos == {Packet(filled, "HELLO", id) : id \in new}
           n == StartAttempts(e, new)
<1>1. e.dial.next \in Nat /\ scenario.carriers \in Nat
  BY EngineFields, ScenarioFacts DEF MaxPaths
<1>2. new \subseteq Ids
  BY <1>1, ScenarioFacts
<1>3. size = (IF k > 0 THEN k ELSE 0) /\ \A id \in new : id > e.dial.next /\ id <= e.dial.next + size
  <2>1. e.dial.next + 1 \in Int /\ e.dial.next + k \in Int
    BY <1>1
  <2>2. size = IF e.dial.next + 1 > e.dial.next + k THEN 0
               ELSE (e.dial.next + k) - (e.dial.next + 1) + 1
    BY <2>1, FS_Interval
  <2> HIDE DEF size
  <2>3. QED
    BY <1>1, <2>2
<1> HIDE DEF new, size, ttl, owner, waits, yes, one
<1>4. \A id : /\ fresh(id).phase = waits /\ fresh(id).packets = yes /\ fresh(id).owner = owner(id)
  BY DEF NoAttempt
<1> HIDE DEF fresh
<1>5. \A id \in Ids : att[id] = IF id \in new THEN fresh(id) ELSE e.att[id]
  OBVIOUS
<1>6. \A o \in Owners : res[o] = IF scenario.mode # "prepared" /\ o \in new
                                 THEN Reserved ELSE e.res[o]
  OBVIOUS
<1>7. dial.phase = e.dial.phase /\ dial.next = next /\ dial.running = running
  <2> HIDE DEF next, running
  <2>1. QED
    BY EngineFields DEF Dials
<1>8. filled = [e EXCEPT !.att = att, !.res = res, !.pending = e.pending + size, !.dial = dial]
  BY EngineFields DEF Engines, size
<1> HIDE DEF att, res, dial, filled, next, running
<1>9. /\ filled.side = e.side /\ filled.prepared = e.prepared /\ filled.closed = e.closed
      /\ filled.att = att /\ filled.dial = dial /\ filled.res = res
      /\ filled.pending = e.pending + size /\ DOMAIN filled = DOMAIN e
  BY <1>8 DEF Engines
<1>10. n = [filled EXCEPT !.out = filled.out \cup hellos]
  BY DEF StartAttempts, filled, fresh, ttl, owner, waits, yes, one
<1> HIDE DEF hellos, n
<1>11. /\ n.side = e.side /\ n.prepared = e.prepared /\ n.closed = e.closed
       /\ n.att = att /\ n.dial = dial /\ n.res = res /\ n.pending = e.pending + size
  <2>1. {"side", "prepared", "closed", "att", "dial", "res", "pending"} \subseteq DOMAIN filled
    BY <1>9 DEF Engines
  <2>2. QED
    BY <1>9, <1>10, <2>1
<1>12. /\ n.dial.phase = e.dial.phase /\ n.dial.next = e.dial.next + size
       /\ n.dial.running = e.dial.running + size
  BY <1>7, <1>11 DEF next, running
<1>13. \A id \in Ids \ new : n.att[id] = e.att[id]
  BY <1>5, <1>11
<1>14. \A id \in new : /\ n.att[id].phase = "waitChallenge" /\ n.att[id].packets
                       /\ n.att[id].owner = IF scenario.mode = "prepared" THEN 0 ELSE id
  <2>1. \A id \in new : n.att[id] = fresh(id)
    BY <1>2, <1>5, <1>11
  <2>2. QED
    BY <1>4, <2>1 DEF waits, yes, owner
<1>15. \A o \in Owners : n.res[o] = IF scenario.mode # "prepared" /\ o \in new
                                    THEN Reserved ELSE e.res[o]
  BY <1>6, <1>11
<1>16. QED
  BY <1>2, <1>3, <1>11, <1>12, <1>13, <1>14, <1>15 DEF n, new, size

\* A prepared dial without an attempt ends, or is aborted: its reservation goes.
LEMMA BGivesUp ==
    ASSUME scenario \in Scenarios, NEW e, Booked(e, {}), Prepares(e), Live(e) = {}, Keeps(e, 0),
           NEW x \in Engines, x.att = e.att, x.res = e.res, x.side = e.side, x.pending = e.pending,
           x.dial.phase # "open", x.prepared # "waiting"
    PROVE  LET n == Retire(x, {0})
           IN  /\ Booked(n, {}) /\ Live(n) = {} /\ Waiting(n) = {} /\ n.dial.phase # "open"
               /\ n.side = e.side /\ n.closed = x.closed /\ n.prepared = x.prepared
<1> DEFINE n == Retire(x, {0})
           res == [o \in Owners |-> IF o \in {0} THEN Retired(x.res[o]) ELSE x.res[o]]
<1>1. e \in Engines /\ Held(e, {}) /\ Counted(e)
  BY DEF Booked
<1>2. n \in Engines
  BY RetireShape
<1>3. n = [x EXCEPT !.res = res]
  BY DEF Retire
<1>4. \A o \in Owners : res[o] = IF o = 0 THEN Retired(e.res[o]) ELSE e.res[o]
  OBVIOUS
<1> HIDE DEF res, n
<1>5. /\ n.side = e.side /\ n.closed = x.closed /\ n.prepared = x.prepared /\ n.dial = x.dial
      /\ n.att = e.att /\ n.res = res /\ n.pending = e.pending
  BY <1>3 DEF Engines
<1>6. Live(n) = {} /\ Waiting(n) = {} /\ Waiting(e) = {}
  BY <1>5 DEF Live, Waiting
<1>7. Counted(n)
  <2>1. Capacity(n) >= 0
    <3>1. e.pending \in Int
      BY <1>1, EngineFields
    <3>2. QED
      BY <1>1, <1>5, <3>1, LimitsAssumption DEF Counted, Capacity
  <2>2. QED
    BY <1>1, <1>5, <1>6, <2>1 DEF Counted
<1>8. ASSUME NEW o \in Owners
      PROVE  ~Keeps(n, o) /\ Spent(n.res[o])
  <2>1. Unused(e, o) /\ e.res[o] \in Holdings
    BY <1>1, EngineFields DEF Unused
  <2>2. IF Keeps(e, o) THEN Pledged(e.res[o]) ELSE Spent(e.res[o])
    BY <1>1, <2>1 DEF Held
  <2>3. CASE o = 0
    <3>1. Pledged(e.res[o])
      BY <2>2, <2>3
    <3>2. Spent(Retired(e.res[o]))
      BY <2>1, <3>1, Retiring DEF Pledged
    <3>3. QED
      BY <1>4, <1>5, <2>3, <3>2 DEF Keeps
  <2>4. CASE o # 0
    <3>1. ~Keeps(e, o) /\ ~Keeps(n, o)
      BY <2>4 DEF Keeps
    <3>2. n.res[o] = e.res[o]
      BY <1>4, <1>5, <2>4
    <3>3. QED
      BY <2>2, <3>1, <3>2
  <2>5. QED
    BY <2>3, <2>4
<1>9. Held(n, {})
  BY <1>6, <1>8 DEF Held, OwnersApart
<1>10. QED
  BY <1>2, <1>5, <1>6, <1>7, <1>9 DEF Booked, n

LEMMA ReservedPledged == Pledged(Reserved)
  BY DEF Pledged, Intact, Reserved, Nothing

LEMMA BStarts ==
    ASSUME scenario \in Scenarios, NEW e, Booked(e, {}), e.dial.phase = "open", NEW k \in Int,
           k > 0 => /\ k <= scenario.carriers - e.dial.next
                    /\ k <= scenario.concurrent - e.dial.running
                    /\ scenario.mode # "prepared" => k <= Capacity(e)
    PROVE  LET n == StartAttempts(e, (e.dial.next + 1)..(e.dial.next + k))
           IN  n \in Engines =>
               /\ Booked(n, {}) /\ n.dial.phase = "open" /\ n.side = e.side
               /\ n.closed = e.closed /\ n.prepared = e.prepared
<1> DEFINE new == (e.dial.next + 1)..(e.dial.next + k)
           size == Cardinality(new)
           n == StartAttempts(e, new)
<1>1. /\ e \in Engines /\ Held(e, {}) /\ Counted(e) /\ OwnersApart(e)
      /\ e.side = "initiator" /\ e.prepared # "waiting"
      /\ e.dial.running = Cardinality(Waiting(e)) /\ Live(e) = Waiting(e)
      /\ e.pending = Cardinality(Waiting(e)) /\ Cardinality(Waiting(e)) \in Nat
  BY LiveFinite DEF Booked, Held, Counted
<1>2. /\ size = (IF k > 0 THEN k ELSE 0) /\ new \subseteq Ids
      /\ \A id \in new : id > e.dial.next /\ id <= e.dial.next + size
      /\ n.side = e.side /\ n.prepared = e.prepared /\ n.closed = e.closed
      /\ n.pending = e.pending + size
      /\ n.dial.phase = e.dial.phase /\ n.dial.next = e.dial.next + size
      /\ n.dial.running = e.dial.running + size
      /\ \A id \in Ids \ new : n.att[id] = e.att[id]
      /\ \A id \in new : /\ n.att[id].phase = "waitChallenge" /\ n.att[id].packets
                         /\ n.att[id].owner = IF scenario.mode = "prepared" THEN 0 ELSE id
      /\ \A o \in Owners : n.res[o] = IF scenario.mode # "prepared" /\ o \in new
                                      THEN Reserved ELSE e.res[o]
  BY <1>1, StartShape
<1>3. IsFiniteSet(new)
  BY <1>2, IdsFinite
<1>4. e.dial.next \in Nat /\ e.dial.running \in Nat /\ size \in Nat
  BY <1>1, <1>2, EngineFields
<1>5. scenario.concurrent \in Nat /\ (scenario.mode = "prepared" => scenario.concurrent = 1)
  BY ScenarioFacts, ScenariosAssumption
<1>6. ASSUME NEW id \in new PROVE id \notin Live(e)
  <2>1. id > e.dial.next /\ id \in Int
    BY <1>2, IdsFinite
  <2>2. QED
    BY <1>1, <1>4, <2>1 DEF Counted
<1> SUFFICES ASSUME n \in Engines
             PROVE  /\ Booked(n, {}) /\ n.dial.phase = "open" /\ n.side = e.side
                    /\ n.closed = e.closed /\ n.prepared = e.prepared
  OBVIOUS
<1> HIDE DEF new, size, n
<1>7. Live(n) = Live(e) \cup new /\ Waiting(n) = Waiting(e) \cup new /\ Live(n) = Waiting(n)
  <2>1. Live(n) = Live(e) \cup new
    BY <1>2 DEF Live
  <2>2. Waiting(n) = Waiting(e) \cup new
    <3>1. \A id \in Ids : id \in Waiting(n) <=> id \in Waiting(e) \cup new
      BY <1>2, <1>6, <2>1 DEF Waiting, Live
    <3>2. QED
      BY <1>2, <3>1 DEF Waiting, Live
  <2>3. QED
    BY <1>1, <2>1, <2>2
<1>8. Cardinality(Waiting(n)) = Cardinality(Waiting(e)) + size
  <2>1. Waiting(e) \cap new = {}
    BY <1>1, <1>6
  <2>2. IsFiniteSet(Waiting(e))
    BY LiveFinite
  <2>3. Cardinality(Waiting(e) \cup new) =
          Cardinality(Waiting(e)) + Cardinality(new) - Cardinality(Waiting(e) \cap new)
    BY <1>3, <2>2, FS_Union
  <2>4. Cardinality(Waiting(e) \cap new) = 0
    BY <2>1, FS_EmptySet
  <2>5. QED
    BY <1>1, <1>4, <1>7, <2>3, <2>4 DEF size
\* A prepared dial starts one attempt when it has none.
<1>9. scenario.mode = "prepared" /\ k > 0 => Live(e) = {} /\ e.pending = 0 /\ k = 1
  <2>1. SUFFICES ASSUME scenario.mode = "prepared", k > 0
                 PROVE  Live(e) = {} /\ e.pending = 0 /\ k = 1
    OBVIOUS
  <2>2. Cardinality(Waiting(e)) = 0 /\ k = 1
    BY <1>1, <1>5, <2>1
  <2>3. Waiting(e) = {}
    BY <2>2, LiveFinite, FS_EmptySet
  <2>4. QED
    BY <1>1, <2>2, <2>3
<1>10. new # {} => k > 0
  <2>1. k <= 0 => size = 0
    BY <1>2
  <2>2. size = 0 => new = {}
    BY <1>3, FS_EmptySet DEF size
  <2>3. QED
    BY <2>1, <2>2
<1>11. Capacity(n) >= 0
  <2>1. Capacity(e) = MaxPending - e.pending /\ Capacity(n) = MaxPending - n.pending
    BY <1>1, <1>2, LimitsAssumption DEF Capacity
  <2>2. n.pending = e.pending + size /\ e.pending \in Nat /\ MaxPending \in Nat \ {0}
    BY <1>1, <1>2, LimitsAssumption
  <2>3. Capacity(e) >= 0
    BY <1>1 DEF Counted
  <2>4. CASE k <= 0
    BY <1>2, <2>1, <2>2, <2>3, <2>4
  <2>5. CASE k > 0 /\ scenario.mode = "prepared"
    BY <1>2, <1>9, <2>1, <2>2, <2>5
  <2>6. CASE k > 0 /\ scenario.mode # "prepared"
    BY <1>2, <2>1, <2>2, <2>6
  <2>7. QED
    BY <2>4, <2>5, <2>6
<1>12. Counted(n)
  <2>1. ASSUME NEW id \in Live(n) PROVE id <= n.dial.next
    <3>1. CASE id \in new
      BY <1>2, <3>1
    <3>2. CASE id \in Live(e)
      <4>1. id <= e.dial.next /\ id \in Nat
        BY <1>1, <3>2, IdsFinite DEF Counted, Live
      <4>2. QED
        BY <1>2, <1>4, <4>1
    <3>3. QED
      BY <1>7, <3>1, <3>2
  <2>2. QED
    BY <1>1, <1>2, <1>7, <1>8, <1>11, <2>1 DEF Counted
<1>13. \A id \in Live(e) : n.att[id] = e.att[id]
  BY <1>2, <1>6 DEF Live
<1>14. \A id \in Live(n) : n.att[id].owner = IF scenario.mode = "prepared" THEN 0 ELSE id
  BY <1>1, <1>2, <1>7, <1>13 DEF OwnersApart
<1>15. OwnersApart(n)
  <2>1. CASE scenario.mode = "prepared"
    <3>1. \A i, j \in Live(n) : i = j
      <4>1. CASE new = {}
        BY <1>1, <1>7, <2>1, <4>1, OnlyAttempt DEF Prepares
      <4>2. CASE new # {}
        <5>1. Live(e) = {} /\ size = 1
          BY <1>2, <1>9, <1>10, <2>1, <4>2
        <5>2. \A id \in new : id = e.dial.next + 1
          BY <1>2, <1>4, <5>1, IdsFinite
        <5>3. QED
          BY <1>7, <5>1, <5>2
      <4>3. QED
        BY <4>1, <4>2
    <3>2. QED
      BY <1>1, <1>2, <1>14, <2>1, <3>1 DEF OwnersApart
  <2>2. CASE scenario.mode # "prepared"
    BY <1>1, <1>2, <1>14, <2>2 DEF OwnersApart
  <2>3. QED
    BY <2>1, <2>2
<1>16. ASSUME NEW id \in Live(n) PROVE Owns(n.att[id], n.res[n.att[id].owner])
  <2>1. id \in Ids /\ id \in Owners /\ 0 \in Owners
    BY IdsFinite DEF Live
  <2>2. CASE scenario.mode = "prepared"
    <3>1. n.att[id].owner = 0 /\ n.res[0] = e.res[0]
      BY <1>2, <1>14, <2>1, <2>2
    <3>2. CASE id \in Live(e)
      BY <1>1, <1>13, <3>1, <3>2 DEF Held
    <3>3. CASE id \notin Live(e)
      <4>1. id \in new
        BY <1>7, <3>3
      <4>2. Live(e) = {}
        BY <1>9, <1>10, <2>2, <4>1
      <4>3. Unused(e, 0) /\ Keeps(e, 0)
        BY <1>1, <2>2, <4>2 DEF Unused, Keeps, Prepares
      <4>4. Pledged(e.res[0])
        BY <1>1, <2>1, <4>3 DEF Held
      <4>5. QED
        BY <1>2, <3>1, <4>1, <4>4 DEF Owns
    <3>4. QED
      BY <3>2, <3>3
  <2>3. CASE scenario.mode # "prepared"
    <3>1. n.att[id].owner = id /\ n.res[id] = IF id \in new THEN Reserved ELSE e.res[id]
      BY <1>2, <1>14, <2>1, <2>3
    <3>2. CASE id \in new
      BY <1>2, <3>1, <3>2, ReservedPledged DEF Owns
    <3>3. CASE id \notin new
      <4>1. id \in Live(e)
        BY <1>7, <3>3
      <4>2. e.att[id].owner = id
        BY <1>13, <3>1, <4>1
      <4>3. QED
        BY <1>1, <1>13, <3>1, <3>3, <4>1, <4>2 DEF Held
    <3>4. QED
      BY <3>2, <3>3
  <2>4. QED
    BY <2>2, <2>3
<1>17. ASSUME NEW o \in Owners, Unused(n, o)
       PROVE  IF Keeps(n, o) THEN Pledged(n.res[o]) ELSE Spent(n.res[o])
  <2>1. Unused(e, o)
    BY <1>7, <1>13, <1>17 DEF Unused
  <2>2. Keeps(n, o) <=> Keeps(e, o)
    BY <1>2 DEF Keeps, Prepares
  <2>3. n.res[o] = e.res[o]
    <3>1. ~(scenario.mode # "prepared" /\ o \in new)
      BY <1>7, <1>14, <1>17 DEF Unused
    <3>2. QED
      BY <1>2, <3>1
  <2>4. QED
    BY <1>1, <2>1, <2>2, <2>3 DEF Held
<1>18. QED
  BY <1>2, <1>12, <1>15, <1>16, <1>17 DEF Booked, Held

\* fillDial leaves a dial that has an attempt, or none.
Fills(e, n) ==
    /\ n.side = e.side /\ n.closed = e.closed
    /\ e.dial.phase # "open" => n = e
    /\ n.dial.phase = "open" => Waiting(n) # {}
    /\ n.dial.phase # "open" /\ e.dial.phase = "open" => Waiting(n) = {}

LEMMA BFills ==
    ASSUME scenario \in Scenarios, NEW e, IGood(e), Booked(e, {}), NEW starts \in Nat
    PROVE  LET n == FillDials(e, starts) IN Booked(n, {}) /\ Fills(e, n)
<1> DEFINE room == IF e.dial.ttl = 0 THEN 0 ELSE
                   Min({starts, scenario.concurrent - e.dial.running, scenario.carriers - e.dial.next,
                        IF scenario.mode = "prepared" THEN 1 ELSE Capacity(e)})
           filled == StartAttempts(e, (e.dial.next + 1)..(e.dial.next + room))
           dropped == DropDial(filled)
           retired == Retire(dropped, {0})
           n == FillDials(e, starts)
<1>1. e \in Engines /\ Counted(e)
  BY DEF Booked
<1>2. CASE e.dial.phase # "open"
  <2>1. n = e
    BY <1>2 DEF FillDials
  <2>2. Fills(e, e)
    BY <1>2 DEF Fills
  <2>3. QED
    BY <2>1, <2>2
<1>3. CASE e.dial.phase = "open"
  <2>1. /\ e.dial.running \in Int /\ e.dial.next \in Nat /\ e.pending \in Int
        /\ scenario.concurrent \in Int /\ scenario.carriers \in Int /\ starts \in Int
    BY <1>1, EngineFields, ScenarioFacts DEF MaxPaths
  <2>2. Capacity(e) \in Int
    BY <2>1, LimitsAssumption DEF Capacity
  <2>3. room \in Int /\ (room > 0 =>
          /\ room <= scenario.carriers - e.dial.next
          /\ room <= scenario.concurrent - e.dial.running
          /\ scenario.mode # "prepared" => room <= Capacity(e))
    <3> DEFINE b == scenario.concurrent - e.dial.running
               c == scenario.carriers - e.dial.next
               d == IF scenario.mode = "prepared" THEN 1 ELSE Capacity(e)
    <3>1. b \in Int /\ c \in Int /\ d \in Int
      BY <2>1, <2>2
    <3> HIDE DEF b, c, d
    <3>2. /\ Min({starts, b, c, d}) \in Int /\ Min({starts, b, c, d}) <= b
          /\ Min({starts, b, c, d}) <= c /\ Min({starts, b, c, d}) <= d
      BY <2>1, <3>1, MinFour
    <3>3. QED
      BY <3>2 DEF b, c, d
  <2> HIDE DEF room
  <2>4. IGood(filled)
    BY <1>3, <2>3, IStarts
  <2>5. filled \in Engines
    BY <2>4 DEF IGood
  <2>6. /\ Booked(filled, {}) /\ filled.dial.phase = "open" /\ filled.side = e.side
        /\ filled.closed = e.closed /\ filled.prepared = e.prepared
    BY <1>3, <2>3, <2>5, BStarts
  <2>7. n = IF filled.dial.running > 0 THEN filled
            ELSE IF scenario.mode = "prepared" THEN retired ELSE dropped
    BY <1>3 DEF FillDials, room
  <2> HIDE DEF filled, n
  <2>8. /\ Counted(filled) /\ filled.side = "initiator" /\ Live(filled) = Waiting(filled)
        /\ filled.dial.running = Cardinality(Waiting(filled)) /\ filled.prepared # "waiting"
        /\ Cardinality(Waiting(filled)) \in Nat /\ IsFiniteSet(Waiting(filled))
    BY <2>6, LiveFinite DEF Booked, Counted
  <2>9. filled.dial.running > 0 <=> Waiting(filled) # {}
    BY <2>8, FS_EmptySet
  <2>10. CASE filled.dial.running > 0
    <3>1. n = filled
      BY <2>7, <2>10
    <3>2. Fills(e, filled)
      BY <1>3, <2>6, <2>9, <2>10 DEF Fills
    <3>3. Booked(n, {}) /\ Fills(e, n)
      BY <2>6, <3>1, <3>2
    <3>4. QED
      BY <3>3 DEF n
  <2>11. CASE ~(filled.dial.running > 0)
    <3>1. Live(filled) = {} /\ Waiting(filled) = {}
      BY <2>8, <2>9, <2>11
    <3>2. CASE scenario.mode = "prepared"
      <4>1. n = retired
        BY <2>7, <2>11, <3>2
      <4>2. Prepares(filled) /\ Keeps(filled, 0)
        BY <2>6, <2>8, <3>2 DEF Prepares, Keeps
      <4> DEFINE d == dropped.dial
      <4>3. /\ dropped \in Engines /\ dropped = [filled EXCEPT !.dial = d]
            /\ d.phase = "over"
        BY <2>5, DropDialShape
      <4> HIDE DEF d, dropped
      <4>4. /\ dropped.att = filled.att /\ dropped.res = filled.res /\ dropped.side = filled.side
            /\ dropped.pending = filled.pending /\ dropped.dial = d
            /\ dropped.prepared = filled.prepared /\ dropped.closed = filled.closed
        BY <2>5, <4>3 DEF Engines
      <4>5. /\ Booked(retired, {}) /\ Live(retired) = {} /\ Waiting(retired) = {}
            /\ retired.dial.phase # "open"
            /\ retired.side = filled.side /\ retired.closed = dropped.closed
            /\ retired.prepared = dropped.prepared
        BY <2>6, <2>8, <3>1, <4>2, <4>3, <4>4, BGivesUp
      <4>6. Fills(e, retired)
        BY <1>3, <2>6, <4>4, <4>5 DEF Fills
      <4>7. Booked(n, {}) /\ Fills(e, n)
        BY <4>1, <4>5, <4>6
      <4>8. QED
        BY <4>7 DEF n
    <3>3. CASE scenario.mode # "prepared"
      <4>1. n = dropped
        BY <2>7, <2>11, <3>3
      <4>2. Booked(dropped, {}) /\ Drops(filled, dropped)
        BY <2>6, <3>3, BDrops DEF Prepares
      <4> HIDE DEF dropped
      <4>3. Fills(e, dropped)
        BY <1>3, <2>6, <3>1, <4>2 DEF Fills, Drops
      <4>4. Booked(n, {}) /\ Fills(e, n)
        BY <4>1, <4>2, <4>3
      <4>5. QED
        BY <4>4 DEF n
    <3>4. QED
      BY <3>2, <3>3
  <2>12. QED
    BY <2>10, <2>11
<1>4. QED
  BY <1>2, <1>3

----------------------------------------------------------------------------
(* Sending, and giving up packets.                                         *)

LEMMA SendBooks ==
    ASSUME scenario \in Scenarios, NEW e \in Engines, NEW id \in Ids, NEW type, NEW transition,
           e.att[id].phase # "none", type = Retransmission(e.att[id]),
           e.att[id].phase = "established" => e.att[id].packets
    PROVE  SameBooks(e, Send(e, id, type, transition))
<1> DEFINE n == Send(e, id, type, transition)
           a == e.att[id]
           b == [a EXCEPT !.sends = @ + 1, !.wait = RetryInterval]
           att == [e.att EXCEPT ![id] = b]
           out == e.out \cup {Packet(e, type, id)}
<1>1. n \in Engines
  BY SendRepeats DEF Repeats
<1>2. n = e \/ n = [e EXCEPT !.att = att, !.out = out]
  BY EngineFields DEF Send, Engines
<1>3. Alike(a, b)
  <2>1. a \in Attempts
    BY EngineFields
  <2> HIDE DEF a
  <2>2. QED
    BY <2>1 DEF Attempts, Alike
<1> HIDE DEF b, n, out
<1>4. \A i \in Ids : Alike(e.att[i], att[i])
  <2>1. att[id] = b /\ \A i \in Ids : i # id => att[i] = e.att[i]
    BY EngineFields
  <2>2. QED
    BY <1>3, <2>1 DEF Alike
<1> HIDE DEF att
<1>5. CASE n = e
  <2>1. SameBooks(e, n)
    BY <1>1, <1>5 DEF SameBooks, Alike
  <2>2. QED
    BY <2>1 DEF n
<1>6. CASE n = [e EXCEPT !.att = att, !.out = out]
  <2>1. /\ n.side = e.side /\ n.closed = e.closed /\ n.pending = e.pending /\ n.res = e.res
        /\ n.prepared = e.prepared /\ n.dial = e.dial /\ n.att = att
    BY <1>6 DEF Engines
  <2>2. SameBooks(e, n)
    BY <1>1, <1>4, <2>1 DEF SameBooks
  <2>3. QED
    BY <2>2 DEF n
<1>7. QED
  BY <1>2, <1>5, <1>6

LEMMA RetransmitBooks ==
    ASSUME scenario \in Scenarios, NEW e \in Engines, NEW S \in SUBSET Ids,
           \A id \in S : e.att[id].phase # "none" /\ e.att[id].packets /\ CanSend(e.att[id])
    PROVE  SameBooks(e, Retransmit(e, S))
<1> DEFINE n == Retransmit(e, S)
           sent(id) == [e.att[id] EXCEPT !.sends = @ + 1, !.wait = RetryInterval]
           att == [id \in Ids |-> IF id \notin S THEN e.att[id] ELSE sent(id)]
           out == e.out \cup {Packet(e, Retransmission(e.att[id]), id) : id \in S}
<1>1. n \in Engines
  BY RetransmitRepeats DEF Repeats
<1>2. n = [e EXCEPT !.att = att, !.out = out]
  BY DEF Retransmit
<1>3. ASSUME NEW id \in Ids PROVE Alike(e.att[id], att[id])
  <2> DEFINE a == e.att[id]
             b == [a EXCEPT !.sends = @ + 1, !.wait = RetryInterval]
  <2>1. a \in Attempts
    BY EngineFields
  <2>2. att[id] = a \/ att[id] = b
    OBVIOUS
  <2> HIDE DEF a, att
  <2>3. Alike(a, b) /\ Alike(a, a)
    BY <2>1 DEF Attempts, Alike
  <2>4. Alike(a, att[id])
    BY <2>2, <2>3
  <2>5. QED
    BY <2>4 DEF a
<1> HIDE DEF n, att, out
<1>4. /\ n.side = e.side /\ n.closed = e.closed /\ n.pending = e.pending /\ n.res = e.res
      /\ n.prepared = e.prepared /\ n.dial = e.dial /\ n.att = att
  BY <1>2 DEF Engines
<1>5. SameBooks(e, n)
  BY <1>1, <1>3, <1>4 DEF SameBooks
<1>6. QED
  BY <1>5 DEF n

\* Packets of established attempts are released with the books in order.
Bares(e, n) ==
    /\ Live(n) = Live(e) /\ Waiting(n) = Waiting(e)
    /\ n.side = e.side /\ n.closed = e.closed /\ n.prepared = e.prepared /\ n.dial = e.dial
    /\ \A id \in Ids : n.att[id].owner = e.att[id].owner

LEMMA BReleases ==
    ASSUME scenario \in Scenarios, NEW e, Booked(e, {}), NEW S \in SUBSET Ids,
           \A id \in S : e.att[id].phase = "established"
    PROVE  LET n == ReleasePackets(e, S) IN Booked(n, {}) /\ Bares(e, n)
<1> DEFINE n == ReleasePackets(e, S)
           bare(id) == [e.att[id] EXCEPT !.packets = FALSE, !.ttl = 0, !.wait = 0, !.sends = 0]
           att == [id \in Ids |-> IF id \notin S THEN e.att[id] ELSE bare(id)]
           less(o) == [e.res[o] EXCEPT !.packet = FALSE]
           used(o) == \E id \in S : e.att[id].owner = o
           res == [o \in Owners |-> IF used(o) THEN less(o) ELSE e.res[o]]
<1>1. e \in Engines /\ Held(e, {}) /\ Counted(e) /\ OwnersApart(e)
  BY DEF Booked, Held
<1>2. n \in Engines
  BY <1>1, ReleaseRepeats DEF Repeats
<1>3. n = [e EXCEPT !.att = att, !.res = res]
  BY DEF ReleasePackets
<1>4. ASSUME NEW id \in Ids
      PROVE  /\ att[id].phase = e.att[id].phase /\ att[id].owner = e.att[id].owner
             /\ att[id].packets = IF id \in S THEN FALSE ELSE e.att[id].packets
  <2>1. e.att[id] \in Attempts
    BY <1>1, EngineFields
  <2>2. att[id] = IF id \notin S THEN e.att[id] ELSE bare(id)
    OBVIOUS
  <2> HIDE DEF att
  <2>3. /\ bare(id).phase = e.att[id].phase /\ bare(id).owner = e.att[id].owner
        /\ bare(id).packets = FALSE
    BY <2>1 DEF Attempts
  <2> HIDE DEF bare
  <2>4. QED
    BY <2>2, <2>3
<1>5. ASSUME NEW o \in Owners
      PROVE  /\ ~used(o) => res[o] = e.res[o]
             /\ used(o) => /\ res[o].packet = FALSE /\ res[o].scope = e.res[o].scope
                           /\ res[o].storage = e.res[o].storage
                           /\ res[o].disposer = e.res[o].disposer
                           /\ res[o].given = e.res[o].given /\ res[o].called = e.res[o].called
  <2>1. e.res[o] \in Holdings
    BY <1>1, EngineFields
  <2>2. res[o] = IF used(o) THEN less(o) ELSE e.res[o]
    OBVIOUS
  <2> HIDE DEF res, used
  <2>3. /\ less(o).packet = FALSE /\ less(o).scope = e.res[o].scope
        /\ less(o).storage = e.res[o].storage
        /\ less(o).disposer = e.res[o].disposer
        /\ less(o).given = e.res[o].given /\ less(o).called = e.res[o].called
    BY <2>1 DEF Holdings
  <2> HIDE DEF less
  <2>4. QED
    BY <2>2, <2>3
<1> HIDE DEF att, res, bare, less, n
<1>6. /\ n.side = e.side /\ n.closed = e.closed /\ n.prepared = e.prepared /\ n.dial = e.dial
      /\ n.pending = e.pending /\ n.att = att /\ n.res = res
  BY <1>1, <1>3 DEF Engines
<1>7. Live(n) = Live(e) /\ Waiting(n) = Waiting(e)
  BY <1>4, <1>6 DEF Live, Waiting
<1>8. Bares(e, n)
  BY <1>4, <1>6, <1>7 DEF Bares
<1>9. Counted(n)
  BY <1>1, <1>6, <1>7 DEF Counted, Capacity, Prepares
<1>10. OwnersApart(n)
  <2>1. \A id \in Live(n) : id \in Live(e) /\ n.att[id].owner = e.att[id].owner
    BY <1>4, <1>6, <1>7 DEF Live
  <2>2. QED
    BY <1>1, <1>6, <2>1 DEF OwnersApart
<1>11. S \subseteq Live(e)
  BY DEF Live
<1>12. ASSUME NEW id \in Live(n) PROVE Owns(n.att[id], n.res[n.att[id].owner])
  <2> DEFINE o == e.att[id].owner
  <2>1. id \in Ids /\ id \in Live(e) /\ e.att[id] \in Attempts
    BY <1>1, <1>7, EngineFields DEF Live
  <2>2. o \in Owners
    BY <2>1, AttemptFields
  <2>3. Owns(e.att[id], e.res[o])
    BY <1>1, <2>1 DEF Held
  <2>4. used(o) <=> id \in S
    BY <1>1, <1>11, <2>1 DEF OwnersApart
  <2> HIDE DEF used
  <2>5. CASE id \in S
    <3>1. e.att[id].phase = "established"
      BY <2>5
    <3>2. Promoted(e.res[o], e.att[id].packets)
      BY <2>3, <3>1 DEF Owns
    <3>3. Promoted(res[o], FALSE)
      BY <1>5, <2>2, <2>4, <2>5, <3>2 DEF Promoted, Intact
    <3>4. att[id].phase = "established" /\ att[id].owner = o /\ att[id].packets = FALSE
      BY <1>4, <2>1, <2>5, <3>1
    <3>5. QED
      BY <1>6, <3>3, <3>4 DEF Owns
  <2>6. CASE id \notin S
    <3>1. res[o] = e.res[o]
      BY <1>5, <2>2, <2>4, <2>6
    <3>2. /\ att[id].phase = e.att[id].phase /\ att[id].owner = o
          /\ att[id].packets = e.att[id].packets
      BY <1>4, <2>1, <2>6
    <3>3. QED
      BY <1>6, <2>3, <3>1, <3>2 DEF Owns
  <2>7. QED
    BY <2>5, <2>6
<1>13. ASSUME NEW o \in Owners, Unused(n, o)
       PROVE  IF Keeps(n, o) THEN Pledged(n.res[o]) ELSE Spent(n.res[o])
  <2>1. Unused(e, o)
    BY <1>4, <1>6, <1>7, <1>13 DEF Unused, Live
  <2>2. ~used(o)
    BY <1>11, <2>1 DEF Unused
  <2>3. n.res[o] = e.res[o] /\ (Keeps(n, o) <=> Keeps(e, o))
    BY <1>5, <1>6, <2>2 DEF Keeps, Prepares
  <2>4. QED
    BY <1>1, <2>1, <2>3 DEF Held
<1>14. Booked(n, {})
  BY <1>2, <1>9, <1>10, <1>12, <1>13 DEF Booked, Held
<1>15. QED
  BY <1>8, <1>14 DEF n

----------------------------------------------------------------------------
(* Installing.                                                             *)

\* The same engine, with r for the reservation of o.
Grants(e, x, o, r) ==
    /\ SameTalk(e, x) /\ x.pending = e.pending
    /\ x.res[o] = r /\ \A p \in Owners : p # o => x.res[p] = e.res[p]

LEMMA GrantsOne ==
    ASSUME NEW e \in Engines, NEW o \in Owners, NEW r \in Holdings
    PROVE  Grants(e, [e EXCEPT !.res = [e.res EXCEPT ![o] = r]], o, r)
<1> DEFINE res == [e.res EXCEPT ![o] = r]
           x == [e EXCEPT !.res = res]
<1>1. /\ res \in [Owners -> Holdings] /\ res[o] = r
      /\ \A p \in Owners : p # o => res[p] = e.res[p]
  BY EngineFields
<1> HIDE DEF res
<1>2. SameTalk(e, x)
  BY <1>1, HoldingsTalk
<1>3. x.pending = e.pending /\ x.res = res
  BY DEF Engines
<1> HIDE DEF x
<1>4. Grants(e, x, o, r)
  BY <1>1, <1>2, <1>3, Zenon DEF Grants
<1>5. QED
  BY <1>4 DEF x, res

\* The reservation r promoted, and with the disposer of a Session.
Opened(r, q) ==
    q \in Holdings /\ q.scope = "open" /\ q.storage = r.storage /\ q.packet = r.packet
Installer(outcome, r, q) ==
    /\ Opened(r, q)
    /\ CASE outcome = "ok" -> q.disposer /\ q.given /\ q.called = r.called
         [] outcome = "failed" -> q.disposer = r.disposer /\ q.given = r.given /\ q.called = r.called
         [] outcome = "failedWithDisposer" ->
              IF scenario.mode = "sync"
              THEN q.disposer = r.disposer /\ q.given /\ q.called = r.called + 1
              ELSE q.disposer /\ q.given /\ q.called = r.called

LEMMA InstallBooks ==
    ASSUME scenario \in Scenarios, NEW e \in Engines, NEW id \in Ids, NEW outcome \in Outcomes
    PROVE  \E x, q :
             /\ Grants(e, x, e.att[id].owner, q) /\ Installer(outcome, e.res[e.att[id].owner], q)
             /\ Install(e, id, outcome) =
                  IF outcome = "ok" THEN [x EXCEPT !.att[id].phase = "established", !.pending = @ - 1]
                  ELSE FailAttempt(x, id, TRUE)
<1> DEFINE o == e.att[id].owner
           r == e.res[o]
           promoted == [e EXCEPT !.res[o].scope = "open"]
           owned == [promoted EXCEPT !.res[o].disposer = TRUE, !.res[o].given = TRUE]
           spent == [promoted EXCEPT !.res[o].given = TRUE, !.res[o].called = @ + 1]
           r1 == [r EXCEPT !.scope = "open"]
           yes == TRUE
           more == r.called + 1
           r2 == [r1 EXCEPT !.disposer = yes, !.given = yes]
           r3 == [r1 EXCEPT !.given = yes, !.called = more]
<1>1. o \in Owners
  BY EngineFields, AttemptFields
<1>2. e.res \in [Owners -> Holdings] /\ r \in Holdings
  BY <1>1, EngineFields
<1>3. promoted = [e EXCEPT !.res = [e.res EXCEPT ![o] = r1]]
  BY DEF Engines
<1> HIDE DEF o
<1>4. owned = [e EXCEPT !.res = [e.res EXCEPT ![o] = r2]]
  <2>1. promoted = [e EXCEPT !.res = [e.res EXCEPT ![o] = r1]]
    BY <1>3
  <2>2. promoted.res = [e.res EXCEPT ![o] = r1] /\ promoted.res[o] = r1
    BY <1>1, <1>2, <2>1 DEF Engines
  <2> HIDE DEF promoted, r1
  <2>3. owned = [promoted EXCEPT !.res = [promoted.res EXCEPT ![o] = r2]]
    <3>1. "res" \in DOMAIN promoted /\ o \in DOMAIN promoted.res
      BY <1>1, <1>2, <2>1, <2>2 DEF Engines
    <3>2. QED
      BY <2>2, <3>1, ZenonT(30) DEF yes
  <2>4. [promoted.res EXCEPT ![o] = r2] = [e.res EXCEPT ![o] = r2]
    BY <1>1, <1>2, <2>2
  <2> HIDE DEF r2, owned
  <2>5. QED
    BY <2>1, <2>3, <2>4 DEF Engines
<1>5. spent = [e EXCEPT !.res = [e.res EXCEPT ![o] = r3]]
  <2>1. promoted = [e EXCEPT !.res = [e.res EXCEPT ![o] = r1]]
    BY <1>3
  <2>2. promoted.res = [e.res EXCEPT ![o] = r1] /\ promoted.res[o] = r1
    BY <1>1, <1>2, <2>1 DEF Engines
  <2>0. r1.called + 1 = more
    BY <1>2 DEF Holdings
  <2> HIDE DEF promoted, r1, more
  <2>3. spent = [promoted EXCEPT !.res = [promoted.res EXCEPT ![o] = r3]]
    <3>1. "res" \in DOMAIN promoted /\ o \in DOMAIN promoted.res
      BY <1>1, <1>2, <2>1, <2>2 DEF Engines
    <3>2. QED
      BY <2>0, <2>2, <3>1, ZenonT(30) DEF yes
  <2>4. [promoted.res EXCEPT ![o] = r3] = [e.res EXCEPT ![o] = r3]
    BY <1>1, <1>2, <2>2
  <2> HIDE DEF r3, spent
  <2>5. QED
    BY <2>1, <2>3, <2>4 DEF Engines
<1>6. r1 \in Holdings /\ more \in Nat /\ yes \in BOOLEAN
  BY <1>2 DEF Holdings
<1>7. /\ r1.scope = "open" /\ r1.storage = r.storage /\ r1.packet = r.packet
      /\ r1.disposer = r.disposer /\ r1.given = r.given /\ r1.called = r.called
  BY <1>2 DEF Holdings
<1> HIDE DEF r1, yes, more
<1>8. /\ r2 \in Holdings
      /\ r2.scope = r1.scope /\ r2.storage = r1.storage /\ r2.packet = r1.packet
      /\ r2.disposer = yes /\ r2.given = yes /\ r2.called = r1.called
  BY <1>6 DEF Holdings
<1>9. /\ r3 \in Holdings
      /\ r3.scope = r1.scope /\ r3.storage = r1.storage /\ r3.packet = r1.packet
      /\ r3.disposer = r1.disposer /\ r3.given = yes /\ r3.called = more
  BY <1>6 DEF Holdings
<1> HIDE DEF r2, r3, promoted, owned, spent
<1>10. Grants(e, promoted, o, r1) /\ Grants(e, owned, o, r2) /\ Grants(e, spent, o, r3)
  BY <1>1, <1>3, <1>4, <1>5, <1>6, <1>8, <1>9, GrantsOne
<1>11. CASE outcome = "ok"
  <2>1. Install(e, id, outcome) = [owned EXCEPT !.att[id].phase = "established", !.pending = @ - 1]
    BY <1>11 DEF Install, owned, promoted, o
  <2>2. Installer(outcome, r, r2)
    BY <1>7, <1>8, <1>11 DEF Installer, Opened, yes
  <2>3. QED
    BY <1>10, <1>11, <2>1, <2>2 DEF o
<1>12. CASE outcome = "failed"
  <2>1. Install(e, id, outcome) = FailAttempt(promoted, id, TRUE)
    BY <1>12 DEF Install, promoted, o
  <2>2. Installer(outcome, r, r1)
    BY <1>6, <1>7, <1>12 DEF Installer, Opened
  <2>3. QED
    BY <1>10, <1>12, <2>1, <2>2 DEF o
<1>13. CASE outcome = "failedWithDisposer" /\ scenario.mode = "sync"
  <2>1. Install(e, id, outcome) = FailAttempt(spent, id, TRUE)
    BY <1>13 DEF Install, spent, promoted, o
  <2>2. Installer(outcome, r, r3)
    BY <1>7, <1>9, <1>13 DEF Installer, Opened, yes, more
  <2>3. QED
    BY <1>10, <1>13, <2>1, <2>2 DEF o
<1>14. CASE outcome = "failedWithDisposer" /\ scenario.mode # "sync"
  <2>1. Install(e, id, outcome) = FailAttempt(owned, id, TRUE)
    BY <1>14 DEF Install, owned, promoted, o
  <2>2. Installer(outcome, r, r2)
    BY <1>7, <1>8, <1>14 DEF Installer, Opened, yes
  <2>3. QED
    BY <1>10, <1>14, <2>1, <2>2 DEF o
<1>15. QED
  BY <1>11, <1>12, <1>13, <1>14 DEF Outcomes

LEMMA InstallerDooms ==
    ASSUME NEW outcome \in Outcomes, outcome # "ok", NEW r \in Holdings, Pledged(r),
           NEW q, Installer(outcome, r, q)
    PROVE  Doomed(q)
<1>1. /\ q \in Holdings /\ q.scope = "open" /\ q.storage = "held"
      /\ r.called = 0 /\ r.disposer = r.given
  BY DEF Installer, Opened, Pledged, Intact
<1>2. CASE outcome = "failedWithDisposer" /\ scenario.mode = "sync"
  <2>1. q.disposer = r.disposer /\ q.given /\ q.called = r.called + 1
    BY <1>2 DEF Installer
  <2>2. ~r.given /\ r.given \in BOOLEAN
    BY <1>2 DEF Pledged, Holdings
  <2>3. ~q.disposer /\ q.called = 1
    BY <1>1, <2>1, <2>2
  <2> DEFINE s == Retired(q)
             left == "released"
             no == FALSE
             shut == "closed"
  <2>4. s = [q EXCEPT !.scope = shut, !.packet = no, !.disposer = no,
                      !.called = q.called, !.storage = left]
    BY <1>1, <2>3 DEF Retired
  <2> HIDE DEF s, left, no, shut
  <2>5. /\ s.scope = shut /\ s.packet = no /\ s.called = q.called /\ s.storage = left
        /\ s.given = q.given
    BY <1>1, <2>4 DEF Holdings
  <2>6. Spent(s)
    BY <2>1, <2>3, <2>5 DEF Spent, left, no, shut
  <2>7. QED
    BY <1>1, <2>6 DEF Doomed, s
<1>3. CASE ~(outcome = "failedWithDisposer" /\ scenario.mode = "sync")
  <2>1. q.called = 0 /\ q.disposer = q.given
    <3>1. CASE outcome = "failed"
      BY <1>1, <3>1 DEF Installer
    <3>2. CASE outcome = "failedWithDisposer"
      <4>1. q.disposer /\ q.given /\ q.called = r.called
        BY <1>3, <3>2 DEF Installer
      <4>2. q.disposer \in BOOLEAN /\ q.given \in BOOLEAN
        BY <1>1 DEF Holdings
      <4>3. QED
        BY <1>1, <4>1, <4>2
    <3>3. QED
      BY <3>1, <3>2 DEF Outcomes
  <2>2. Spent(Retired(q))
    BY <1>1, <2>1, Retiring DEF Intact
  <2>3. QED
    BY <1>1, <2>2 DEF Doomed
<1>4. QED
  BY <1>2, <1>3

LEMMA BDooms ==
    ASSUME scenario \in Scenarios, NEW e, Booked(e, {}), NEW id \in Live(e),
           NEW x, NEW q, Grants(e, x, e.att[id].owner, q), Doomed(q)
    PROVE  Booked(x, {id}) /\ Live(x) = Live(e) /\ Waiting(x) = Waiting(e)
<1> DEFINE o == e.att[id].owner
<1>1. e \in Engines /\ Held(e, {}) /\ Counted(e) /\ OwnersApart(e)
  BY DEF Booked, Held
<1>2. /\ x \in Engines /\ x.side = e.side /\ x.att = e.att /\ x.dial = e.dial
      /\ x.prepared = e.prepared /\ x.closed = e.closed /\ x.pending = e.pending
      /\ x.res[o] = q /\ \A p \in Owners : p # o => x.res[p] = e.res[p]
  BY DEF Grants, SameTalk
<1>3. Live(x) = Live(e) /\ Waiting(x) = Waiting(e)
  BY <1>2 DEF Live, Waiting
<1>4. Counted(x) /\ OwnersApart(x)
  BY <1>1, <1>2, <1>3 DEF Counted, Capacity, Prepares, OwnersApart
<1>5. ASSUME NEW i \in Live(x)
      PROVE  LET r == x.res[x.att[i].owner] IN IF i \in {id} THEN Doomed(r) ELSE Owns(x.att[i], r)
  <2>1. CASE i = id
    BY <1>2, <2>1
  <2>2. CASE i # id
    <3>1. i \in Live(e) /\ i \in Ids
      BY <1>3 DEF Live
    <3>2. e.att[i].owner # o
      BY <1>1, <2>2, <3>1 DEF OwnersApart
    <3>3. e.att[i].owner \in Owners
      BY <1>1, <3>1, EngineFields, AttemptFields
    <3>4. x.res[e.att[i].owner] = e.res[e.att[i].owner]
      BY <1>2, <3>2, <3>3
    <3>5. Owns(e.att[i], e.res[e.att[i].owner])
      BY <1>1, <3>1 DEF Held
    <3>6. QED
      BY <1>2, <2>2, <3>4, <3>5
  <2>3. QED
    BY <2>1, <2>2
<1>6. ASSUME NEW p \in Owners, Unused(x, p)
      PROVE  IF Keeps(x, p) THEN Pledged(x.res[p]) ELSE Spent(x.res[p])
  <2>1. Unused(e, p) /\ p # o
    BY <1>2, <1>3, <1>6 DEF Unused
  <2>2. x.res[p] = e.res[p] /\ (Keeps(x, p) <=> Keeps(e, p))
    BY <1>2, <2>1 DEF Keeps, Prepares
  <2>3. QED
    BY <1>1, <2>1, <2>2 DEF Held
<1>7. QED
  BY <1>2, <1>3, <1>4, <1>5, <1>6 DEF Booked, Held

LEMMA WaitingPledged ==
    ASSUME scenario \in Scenarios, NEW e, Booked(e, {}), NEW id \in Waiting(e)
    PROVE  /\ id \in Live(e) /\ id \in Ids /\ e.att[id].owner \in Owners
           /\ e.att[id].packets /\ Pledged(e.res[e.att[id].owner])
           /\ e.res[e.att[id].owner] \in Holdings
<1>1. e \in Engines /\ Held(e, {}) /\ id \in Live(e) /\ id \in Ids /\ e.att[id].phase # "established"
  BY DEF Booked, Waiting, Live
<1>2. e.att[id].owner \in Owners
  BY <1>1, EngineFields, AttemptFields
<1>3. Owns(e.att[id], e.res[e.att[id].owner])
  BY <1>1 DEF Held
<1>4. QED
  BY <1>1, <1>2, <1>3, EngineFields DEF Owns

\* An installation that fails ends the attempt.
LEMMA BInstallFails ==
    ASSUME scenario \in Scenarios, NEW e, Booked(e, {}), NEW id \in Waiting(e),
           NEW outcome \in Outcomes, outcome # "ok"
    PROVE  LET n == Install(e, id, outcome) IN Booked(n, {}) /\ Loses(e, n, {id})
<1> DEFINE n == Install(e, id, outcome)
           o == e.att[id].owner
<1>1. /\ e \in Engines /\ id \in Live(e) /\ id \in Ids /\ o \in Owners /\ Pledged(e.res[o])
      /\ e.res[o] \in Holdings
  BY WaitingPledged DEF Booked
<1>2. PICK x, q : /\ Grants(e, x, o, q) /\ Installer(outcome, e.res[o], q)
                  /\ n = IF outcome = "ok"
                         THEN [x EXCEPT !.att[id].phase = "established", !.pending = @ - 1]
                         ELSE FailAttempt(x, id, TRUE)
  BY <1>1, InstallBooks
<1>3. n = FailAttempt(x, id, TRUE)
  BY <1>2
<1>4. Doomed(q)
  BY <1>1, <1>2, InstallerDooms
<1>5. Booked(x, {id}) /\ Live(x) = Live(e) /\ Waiting(x) = Waiting(e)
  BY <1>1, <1>2, <1>4, BDooms
<1> DEFINE f == FailAttempt(x, id, TRUE)
<1>6. Booked(f, {}) /\ Loses(x, f, {id})
  <2>1. {id} \subseteq {id} \cap Live(x) /\ TRUE \in BOOLEAN
    BY <1>1, <1>5
  <2>2. QED
    BY <1>5, <2>1, BFailsOne
<1> HIDE DEF f, n
<1>7. /\ x.side = e.side /\ x.closed = e.closed /\ x.prepared = e.prepared
      /\ x.dial = e.dial /\ x.att = e.att
  BY <1>2 DEF Grants, SameTalk
<1>8. Loses(e, f, {id})
  BY <1>5, <1>6, <1>7 DEF Loses
<1>9. QED
  BY <1>3, <1>6, <1>8 DEF n, f

\* The attempt of id is installed; a dial it belonged to is over by the end of the call.
Wins(e, n, id) ==
    /\ Live(n) = Live(e) /\ Waiting(n) = Waiting(e) \ {id}
    /\ n.side = e.side /\ n.closed = e.closed /\ n.prepared = e.prepared
    /\ n.att[id].phase = "established" /\ n.att[id].packets = e.att[id].packets
    /\ \A i \in Ids : n.att[i].owner = e.att[i].owner /\ n.att[i].nonce = e.att[i].nonce

LEMMA BWins ==
    ASSUME scenario \in Scenarios, NEW e, Booked(e, {}), NEW id \in Waiting(e),
           NEW y \in Engines, LET n == Install(e, id, "ok") IN
               /\ y.att = n.att /\ y.res = n.res /\ y.pending = n.pending /\ y.side = n.side
               /\ y.closed = n.closed /\ y.prepared = n.prepared,
           y.dial.phase # "open", y.dial.next = e.dial.next
    PROVE  Booked(y, {}) /\ Wins(e, y, id)
<1> DEFINE n == Install(e, id, "ok")
           o == e.att[id].owner
<1>1. /\ e \in Engines /\ Held(e, {}) /\ Counted(e) /\ OwnersApart(e)
      /\ id \in Live(e) /\ id \in Ids /\ o \in Owners /\ Pledged(e.res[o])
      /\ e.res[o] \in Holdings /\ e.att[id].packets
  BY WaitingPledged, Zenon DEF Booked, Held
<1>2. PICK x, q : /\ Grants(e, x, o, q) /\ Installer("ok", e.res[o], q)
                  /\ n = [x EXCEPT !.att[id].phase = "established", !.pending = @ - 1]
  <2>1. "ok" \in Outcomes
    BY DEF Outcomes
  <2>2. QED
    BY <1>1, <2>1, InstallBooks
<1>3. /\ x \in Engines /\ x.side = e.side /\ x.att = e.att /\ x.dial = e.dial
      /\ x.prepared = e.prepared /\ x.closed = e.closed /\ x.pending = e.pending
      /\ x.res[o] = q /\ \A p \in Owners : p # o => x.res[p] = e.res[p]
  BY <1>2 DEF Grants, SameTalk
<1> DEFINE b == [e.att[id] EXCEPT !.phase = "established"]
           att == [e.att EXCEPT ![id] = b]
           less == e.pending - 1
<1>4. n = [x EXCEPT !.att = att, !.pending = less]
  BY <1>1, <1>2, <1>3, EngineFields DEF Engines
<1>5. /\ b.phase = "established" /\ b.packets = e.att[id].packets /\ b.owner = o
      /\ b.nonce = e.att[id].nonce
  <2> DEFINE a == e.att[id]
             done == "established"
             c == [a EXCEPT !.phase = done]
  <2>1. a \in Attempts
    BY <1>1, EngineFields
  <2> HIDE DEF a, done
  <2>2. c.phase = done /\ c.packets = a.packets /\ c.owner = a.owner /\ c.nonce = a.nonce
    BY <2>1 DEF Attempts
  <2>3. QED
    BY <2>2 DEF a, done
<1> HIDE DEF b, n
<1>6. att[id] = b /\ \A i \in Ids : i # id => att[i] = e.att[i]
  BY <1>1, EngineFields
<1> HIDE DEF att, less
<1>7. /\ n.att = att /\ n.res = x.res /\ n.pending = less /\ n.side = e.side
      /\ n.closed = e.closed /\ n.prepared = e.prepared
  BY <1>3, <1>4 DEF Engines
<1>8. /\ y.att = att /\ y.res = x.res /\ y.pending = less /\ y.side = e.side
      /\ y.closed = e.closed /\ y.prepared = e.prepared
  BY <1>7 DEF n
<1>9. Live(y) = Live(e) /\ Waiting(y) = Waiting(e) \ {id}
  <2>1. Live(y) = Live(e)
    BY <1>1, <1>5, <1>6, <1>8 DEF Live
  <2>2. \A i \in Ids : i \in Waiting(y) <=> i \in Waiting(e) \ {id}
    BY <1>1, <1>5, <1>6, <1>8, <2>1 DEF Waiting
  <2>3. QED
    BY <2>1, <2>2, LiveFinite
<1>10. Wins(e, y, id)
  BY <1>1, <1>5, <1>6, <1>8, <1>9 DEF Wins
<1>11. e.prepared # "waiting"
  BY <1>1 DEF Counted
<1>12. Counted(y)
  <2>1. IsFiniteSet(Waiting(e)) /\ Cardinality(Waiting(e)) \in Nat
    BY LiveFinite
  <2>2. Cardinality(Waiting(y)) = Cardinality(Waiting(e)) - 1
    BY <1>9, <2>1, FS_RemoveElement
  <2>3. y.pending = Cardinality(Waiting(y))
    BY <1>1, <1>8, <2>2 DEF Counted, less
  <2>4. Capacity(y) >= 0
    <3>1. e.pending \in Int /\ y.pending = e.pending - 1
      BY <1>1, <1>8, EngineFields DEF less
    <3>2. QED
      BY <1>1, <1>8, <3>1, LimitsAssumption DEF Counted, Capacity
  <2>5. QED
    BY <1>1, <1>8, <1>9, <1>11, <2>3, <2>4 DEF Counted
<1>13. \A i \in Ids : y.att[i].owner = e.att[i].owner
  BY <1>5, <1>6, <1>8
<1>14. OwnersApart(y)
  <2>1. \A i \in Live(y) : i \in Live(e) /\ y.att[i].owner = e.att[i].owner
    BY <1>9, <1>13 DEF Live
  <2>2. QED
    BY <1>1, <1>8, <2>1 DEF OwnersApart
<1>15. ASSUME NEW i \in Live(y) PROVE Owns(y.att[i], y.res[y.att[i].owner])
  <2>1. i \in Live(e) /\ i \in Ids
    BY <1>9 DEF Live
  <2>2. CASE i = id
    <3>1. Intact(q)
      <4>1. q.disposer \in BOOLEAN /\ q.given \in BOOLEAN
        BY <1>2 DEF Installer, Opened, Holdings
      <4>2. q.disposer /\ q.given /\ q.called = 0 /\ q.storage = "held"
        BY <1>1, <1>2 DEF Installer, Opened, Pledged, Intact
      <4>3. QED
        BY <4>1, <4>2 DEF Intact
    <3>2. q.scope = "open" /\ q.packet = e.att[id].packets
      <4>1. q.scope = "open" /\ q.packet = e.res[o].packet
        BY <1>2 DEF Installer, Opened
      <4>2. e.res[o].packet /\ e.res[o].packet \in BOOLEAN
        BY <1>1 DEF Pledged, Holdings
      <4>3. e.att[id].packets \in BOOLEAN
        BY <1>1, EngineFields, AttemptFields
      <4>4. QED
        BY <1>1, <4>1, <4>2, <4>3
    <3>3. y.att[id] = b /\ y.res[o] = q
      BY <1>3, <1>6, <1>8
    <3>4. QED
      BY <1>5, <2>2, <3>1, <3>2, <3>3 DEF Owns, Promoted
  <2>3. CASE i # id
    <3>1. e.att[i].owner # o /\ e.att[i].owner \in Owners
      BY <1>1, <2>1, <2>3, EngineFields, AttemptFields DEF OwnersApart
    <3>2. y.res[e.att[i].owner] = e.res[e.att[i].owner] /\ y.att[i] = e.att[i]
      BY <1>3, <1>6, <1>8, <2>1, <2>3, <3>1
    <3>3. QED
      BY <1>1, <2>1, <3>2 DEF Held
  <2>4. QED
    BY <2>2, <2>3
<1>16. ASSUME NEW p \in Owners, Unused(y, p)
       PROVE  IF Keeps(y, p) THEN Pledged(y.res[p]) ELSE Spent(y.res[p])
  <2>1. Unused(e, p) /\ p # o
    BY <1>1, <1>9, <1>13, <1>16 DEF Unused, Live
  <2>2. y.res[p] = e.res[p]
    BY <1>3, <1>8, <2>1
  <2>3. ~Keeps(y, p)
    BY <1>8, <1>11 DEF Keeps
  <2>4. ~Keeps(e, p)
    <3>1. SUFFICES ASSUME Keeps(e, p) PROVE FALSE
      OBVIOUS
    <3>2. p = 0 /\ Prepares(e)
      BY <3>1 DEF Keeps
    <3>3. o = 0
      BY <1>1, <3>2 DEF OwnersApart, Prepares
    <3>4. QED
      BY <2>1, <3>2, <3>3
  <2>5. QED
    BY <1>1, <2>1, <2>2, <2>3, <2>4 DEF Held
<1>17. QED
  BY <1>10, <1>12, <1>14, <1>15, <1>16 DEF Booked, Held

LEMMA InstallDone ==
    ASSUME scenario \in Scenarios, NEW e \in Engines, NEW id \in Ids
    PROVE  LET n == Install(e, id, "ok")
           IN  /\ n \in Engines /\ n.side = e.side /\ n.prepared = e.prepared
               /\ n.closed = e.closed /\ n.dial = e.dial
<1> DEFINE n == Install(e, id, "ok")
<1>1. "ok" \in Outcomes
  BY DEF Outcomes
<1>2. PICK x : /\ SameTalk(e, x)
               /\ n = [x EXCEPT !.att[id].phase = "established", !.pending = @ - 1]
  <2>1. \E x : /\ SameTalk(e, x)
               /\ \/ /\ "ok" = "ok"
                     /\ n = [x EXCEPT !.att[id].phase = "established", !.pending = @ - 1]
                  \/ "ok" # "ok" /\ n = FailAttempt(x, id, TRUE)
    BY <1>1, InstallShape, Zenon
  <2>2. QED
    BY <2>1, Zenon
<1> HIDE DEF n
<1>3. x \in Engines
  BY <1>2 DEF SameTalk
<1>4. /\ n \in Engines /\ n.side = x.side /\ n.prepared = x.prepared /\ n.closed = x.closed
      /\ n.dial = x.dial
  BY <1>2, <1>3, EstablishShape
<1>5. QED
  BY <1>2, <1>4 DEF SameTalk, n

----------------------------------------------------------------------------
(* The responder opens an attempt.                                         *)

LEMMA OwnersNat == Owners \subseteq Nat
<1>1. Ids \subseteq Nat /\ 0..MaxNonce \subseteq Nat
  BY IdsFinite, LimitsAssumption
<1>2. QED
  BY <1>1 DEF Owners

LEMMA BOpens ==
    ASSUME scenario \in Scenarios, NEW e, Booked(e, {}), e.side = "responder", NEW id \in Ids,
           id \notin Live(e), nonces \in 0..MaxNonce, nonces < MaxNonce, Capacity(e) > 0,
           \A i \in Live(e) : e.att[i].owner <= nonces
    PROVE  LET n == NewResponder(e, id, TRUE)
           IN  /\ Booked(n, {}) /\ n.side = e.side /\ n.closed = e.closed
               /\ \A i \in Live(n) : n.att[i].owner <= nonces + 1
<1> DEFINE fresh == nonces + 1
           waits == "waitFinish"
           yes == TRUE
           a == [NoAttempt EXCEPT !.phase = waits, !.ttl = Lifetime, !.packets = yes, !.owner = fresh]
           b == [a EXCEPT !.nonce = fresh]
           att == [e.att EXCEPT ![id] = b]
           res == [e.res EXCEPT ![fresh] = Reserved]
           more == e.pending + 1
           opened == [e EXCEPT !.att[id] = [NoAttempt EXCEPT
                                  !.phase = waits, !.ttl = Lifetime, !.packets = yes, !.owner = fresh],
                               !.res[fresh] = Reserved, !.pending = @ + 1]
           x == WithKeys(opened, id, fresh)
           n == Send(x, id, "CHALLENGE", TRUE)
<1>1. e \in Engines /\ Held(e, {}) /\ Counted(e) /\ OwnersApart(e)
  BY DEF Booked, Held
<1>2. fresh \in 0..MaxNonce /\ fresh \in Owners /\ fresh # 0 /\ fresh \in Nat /\ nonces \in Nat
  BY LimitsAssumption DEF Owners
<1>3. NoAttempt \in Attempts /\ Reserved \in Holdings
  BY NoneTypes
<1>4. waits \in Phases /\ yes \in BOOLEAN /\ Lifetime \in 0..Lifetime
  BY TimesAssumption DEF Phases
<1>5. x = [e EXCEPT !.att = att, !.res = res, !.pending = more]
  <2>1. opened = [e EXCEPT !.att = [e.att EXCEPT ![id] = a], !.res = res, !.pending = more]
    BY <1>1, EngineFields DEF Engines
  <2>2. e.att \in [Ids -> Attempts]
    BY <1>1, EngineFields
  <2> HIDE DEF opened, a, res, more
  <2>3. opened.att = [e.att EXCEPT ![id] = a]
    BY <1>1, <2>1 DEF Engines
  <2>4. x = [opened EXCEPT !.att = att]
    BY <1>1, <2>1, <2>2, <2>3 DEF WithKeys, Engines
  <2>5. QED
    BY <1>1, <2>1, <2>4 DEF Engines
<1>6. n = NewResponder(e, id, TRUE)
  BY DEF NewResponder
<1> HIDE DEF fresh, waits, yes, x, opened
<1>7. a \in Attempts /\ a.phase = waits /\ a.packets = yes /\ a.owner = fresh
  BY <1>2, <1>3, <1>4 DEF Attempts
<1> HIDE DEF a
<1>8. b \in Attempts /\ b.phase = waits /\ b.packets = yes /\ b.owner = fresh
  BY <1>2, <1>7 DEF Attempts
<1> HIDE DEF b
<1>9. att \in [Ids -> Attempts] /\ att[id] = b /\ \A i \in Ids : i # id => att[i] = e.att[i]
  BY <1>1, <1>8, EngineFields
<1>10. /\ res \in [Owners -> Holdings] /\ more \in Int
       /\ res[fresh] = Reserved /\ \A o \in Owners : o # fresh => res[o] = e.res[o]
  <2>1. e.res \in [Owners -> Holdings] /\ e.pending \in Int
    BY <1>1, EngineFields
  <2>2. res \in [Owners -> Holdings]
    BY <1>3, <2>1
  <2>3. QED
    BY <1>2, <2>1, <2>2
<1> HIDE DEF att, res, more
<1>11. /\ x \in Engines /\ x.side = e.side /\ x.closed = e.closed /\ x.dial = e.dial /\ x.att = att
       /\ x.prepared = e.prepared /\ x.res = res /\ x.pending = more
  BY <1>1, <1>5, <1>9, <1>10 DEF Engines
<1>12. waits = "waitFinish" /\ yes = TRUE
  BY DEF waits, yes
<1>13. SameBooks(x, n)
  <2>1. /\ x.att[id].phase # "none" /\ x.att[id].phase # "established"
        /\ Retransmission(x.att[id]) = "CHALLENGE"
    BY <1>8, <1>9, <1>11, <1>12, RetransmissionType DEF Phases
  <2>2. QED
    BY <1>11, <2>1, SendBooks
<1> HIDE DEF n
<1>14. Live(x) = Live(e) \cup {id} /\ Waiting(x) = Waiting(e) \cup {id} /\ id \notin Waiting(e)
  <2>1. Live(x) = Live(e) \cup {id}
    BY <1>8, <1>9, <1>11, <1>12 DEF Live
  <2>2. \A i \in Ids : i \in Waiting(x) <=> i \in Waiting(e) \cup {id}
    BY <1>8, <1>9, <1>11, <1>12, <2>1 DEF Waiting, Live
  <2>3. QED
    BY <2>1, <2>2, LiveFinite
<1>15. e.prepared # "waiting" /\ e.dial.phase # "open"
  BY <1>1 DEF Counted, Prepares
<1>16. Counted(x)
  <2>1. IsFiniteSet(Waiting(e)) /\ Cardinality(Waiting(e)) \in Nat
    BY LiveFinite
  <2>2. Cardinality(Waiting(x)) = Cardinality(Waiting(e)) + 1
    BY <1>14, <2>1, FS_AddElement
  <2>3. x.pending = Cardinality(Waiting(x))
    BY <1>1, <1>11, <2>2 DEF Counted, more
  <2>4. Capacity(x) >= 0
    <3>1. e.pending \in Int /\ x.pending = e.pending + 1
      BY <1>1, <1>11, EngineFields DEF more
    <3>2. QED
      BY <1>11, <1>15, <3>1, LimitsAssumption DEF Capacity
  <2>5. QED
    BY <1>11, <1>15, <2>3, <2>4 DEF Counted
<1>17. ASSUME NEW i \in Live(e)
       PROVE  /\ i \in Ids /\ i # id /\ x.att[i] = e.att[i] /\ e.att[i].owner # fresh
              /\ e.att[i].owner \in Owners
  <2>1. i \in Ids /\ i # id
    BY DEF Live
  <2>2. e.att[i].owner \in Owners
    BY <1>1, <2>1, EngineFields, AttemptFields
  <2>3. e.att[i].owner # fresh
    BY <1>2 DEF fresh
  <2>4. QED
    BY <1>9, <1>11, <2>1, <2>2, <2>3
<1>18. x.att[id] = b /\ x.res[fresh] = Reserved /\ \A o \in Owners : o # fresh => x.res[o] = e.res[o]
  BY <1>9, <1>10, <1>11
<1>19. OwnersApart(x)
  <2>1. \A i, j \in Live(x) : x.att[i].owner = x.att[j].owner => i = j
    BY <1>1, <1>8, <1>14, <1>17, <1>18 DEF OwnersApart
  <2>2. \A i \in Live(x) : x.att[i].owner # 0
    BY <1>1, <1>2, <1>8, <1>14, <1>17, <1>18 DEF OwnersApart
  <2>3. QED
    BY <1>11, <2>1, <2>2 DEF OwnersApart
<1>20. ASSUME NEW i \in Live(x) PROVE Owns(x.att[i], x.res[x.att[i].owner])
  <2>1. CASE i = id
    BY <1>8, <1>12, <1>18, <2>1, ReservedPledged DEF Owns
  <2>2. CASE i \in Live(e)
    <3>1. x.att[i] = e.att[i] /\ x.res[e.att[i].owner] = e.res[e.att[i].owner]
      BY <1>17, <1>18, <2>2
    <3>2. QED
      BY <1>1, <2>2, <3>1 DEF Held
  <2>3. QED
    BY <1>14, <2>1, <2>2
<1>21. ASSUME NEW o \in Owners, Unused(x, o)
       PROVE  IF Keeps(x, o) THEN Pledged(x.res[o]) ELSE Spent(x.res[o])
  <2>1. o # fresh
    BY <1>8, <1>14, <1>18, <1>21 DEF Unused
  <2>2. Unused(e, o)
    BY <1>14, <1>17, <1>21 DEF Unused
  <2>3. ~Keeps(x, o) /\ ~Keeps(e, o)
    BY <1>11 DEF Keeps, Prepares
  <2>4. QED
    BY <1>1, <1>18, <2>1, <2>2, <2>3 DEF Held
<1>22. Booked(x, {})
  BY <1>11, <1>16, <1>19, <1>20, <1>21 DEF Booked, Held
<1>23. /\ Booked(n, {}) /\ Live(n) = Live(x) /\ Waiting(n) = Waiting(x)
       /\ \A i \in Ids : n.att[i].owner = x.att[i].owner
  BY <1>13, <1>22, SameBooked
<1>24. ASSUME NEW i \in Live(n) PROVE n.att[i].owner <= nonces + 1
  <2>1. i \in Ids /\ n.att[i].owner = x.att[i].owner
    BY <1>23 DEF Live
  <2>2. CASE i = id
    BY <1>2, <1>8, <1>18, <2>1, <2>2 DEF fresh
  <2>3. CASE i \in Live(e)
    <3>1. n.att[i].owner = e.att[i].owner /\ e.att[i].owner <= nonces /\ e.att[i].owner \in Owners
      BY <1>17, <2>1, <2>3
    <3>2. e.att[i].owner \in Nat
      BY <3>1, OwnersNat
    <3>3. QED
      BY <1>2, <3>1, <3>2
  <2>4. QED
    BY <1>14, <1>23, <2>2, <2>3
<1>25. n.side = e.side /\ n.closed = e.closed
  BY <1>11, <1>13 DEF SameBooks
<1>26. QED
  BY <1>6, <1>23, <1>24, <1>25

----------------------------------------------------------------------------
(* An engine whose books are in order while a call is on its way, and at   *)
(* the end of the call.                                                    *)

Sound(e) ==
    /\ Booked(e, {}) /\ ~e.closed
    /\ e.side = "initiator" => IGood(e) /\ (e.dial.phase # "open" => Waiting(e) = {})
    /\ e.side = "responder" => \A id \in Live(e) : e.att[id].owner <= nonces
Squared(n, drawn) ==
    /\ Balanced(n)
    /\ n.side = "responder" => \A id \in Live(n) : n.att[id].owner <= drawn

LEMMA SoundFields ==
    ASSUME NEW e, Sound(e)
    PROVE  /\ e \in Engines /\ Booked(e, {}) /\ Held(e, {}) /\ Counted(e)
           /\ e.side \in {"initiator", "responder"}
<1>1. e \in Engines /\ Booked(e, {}) /\ Held(e, {}) /\ Counted(e)
  BY DEF Sound, Booked
<1>2. QED
  BY <1>1, EngineFields DEF Sides

LEMMA SoundSquared ==
    ASSUME NEW e, Sound(e), e.dial.phase = "open" => Waiting(e) # {}
    PROVE  Squared(e, nonces)
  BY DEF Sound, Squared, Balanced

LEMMA SoundFills ==
    ASSUME scenario \in Scenarios, NEW e, Sound(e), NEW k \in Nat
    PROVE  Squared(FillDials(e, k), nonces)
<1> DEFINE n == FillDials(e, k)
<1>1. e \in Engines /\ Counted(e) /\ e.side \in {"initiator", "responder"}
  BY SoundFields
<1>2. CASE e.dial.phase # "open"
  <2>1. n = e
    BY <1>2 DEF FillDials
  <2>2. QED
    BY <1>2, <2>1, SoundSquared
<1>3. CASE e.dial.phase = "open"
  <2>1. e.side = "initiator" /\ IGood(e) /\ Booked(e, {}) /\ ~e.closed
    BY <1>1, <1>3 DEF Counted, Sound
  <2>2. Booked(n, {}) /\ Fills(e, n)
    BY <2>1, BFills
  <2> HIDE DEF n
  <2>3. Balanced(n) /\ n.side = "initiator"
    BY <1>3, <2>1, <2>2 DEF Balanced, Fills
  <2>4. QED
    BY <2>3 DEF Squared, n
<1>4. QED
  BY <1>2, <1>3

LEMMA SoundSame ==
    ASSUME NEW e, Sound(e), NEW n, SameBooks(e, n), n.side = "initiator" => IGood(n)
    PROVE  Sound(n)
<1>1. /\ Booked(n, {}) /\ Live(n) = Live(e) /\ Waiting(n) = Waiting(e)
      /\ \A id \in Ids : n.att[id].owner = e.att[id].owner
  BY SameBooked DEF Sound
<1>2. n.side = e.side /\ n.closed = e.closed /\ n.dial.phase = e.dial.phase
  BY DEF SameBooks
<1>3. Live(e) \subseteq Ids
  BY LiveFinite
<1>4. QED
  BY <1>1, <1>2, <1>3 DEF Sound

LEMMA SoundFailsAll ==
    ASSUME scenario \in Scenarios, NEW e, Sound(e), NEW S, S \subseteq Live(e),
           NEW notify \in BOOLEAN
    PROVE  Sound(FailAttempts(e, S, notify))
<1> DEFINE n == FailAttempts(e, S, notify)
<1>1. S \in SUBSET Ids
  BY LiveFinite
<1>2. Booked(n, {}) /\ Loses(e, n, S)
  <2>1. {} \subseteq S
    OBVIOUS
  <2>2. QED
    BY <2>1, BFails DEF Sound
<1>3. e.side = "initiator" => IGood(n)
  <2>1. SUFFICES ASSUME e.side = "initiator" PROVE IGood(n)
    OBVIOUS
  <2>2. IGood(e)
    BY <2>1 DEF Sound
  <2>3. QED
    BY <1>1, <2>2, IFails
<1> HIDE DEF n
<1>4. /\ Live(n) = Live(e) \ S /\ Waiting(n) = Waiting(e) \ S
      /\ n.side = e.side /\ n.closed = e.closed
      /\ n.dial.phase = e.dial.phase \/ (n.dial.phase = "over" /\ Live(n) = {})
      /\ \A id \in Ids \ S : n.att[id] = e.att[id]
  BY <1>2 DEF Loses
<1>5. n.side = "initiator" => (n.dial.phase # "open" => Waiting(n) = {})
  <2>1. CASE n.dial.phase = e.dial.phase
    BY <1>4, <2>1 DEF Sound
  <2>2. CASE Live(n) = {}
    BY <2>2 DEF Waiting
  <2>3. QED
    BY <1>4, <2>1, <2>2
<1>6. n.side = "responder" => \A id \in Live(n) : n.att[id].owner <= nonces
  <2>1. \A id \in Live(n) : id \in Live(e) /\ id \in Ids \ S
    BY <1>4, LiveFinite
  <2>2. QED
    BY <1>4, <2>1 DEF Sound
<1>7. ~n.closed
  BY <1>4 DEF Sound
<1>8. Sound(n)
  BY <1>2, <1>3, <1>4, <1>5, <1>6, <1>7 DEF Sound
<1>9. QED
  BY <1>8 DEF n

LEMMA SoundFails ==
    ASSUME scenario \in Scenarios, NEW e, Sound(e), NEW id, NEW notify \in BOOLEAN
    PROVE  Sound(FailAttempt(e, id, notify))
<1> DEFINE S == {id} \cap Live(e)
<1>1. S \subseteq Live(e) /\ FailAttempt(e, id, notify) = FailAttempts(e, S, notify)
  BY DEF FailAttempt
<1> HIDE DEF S
<1>2. Sound(FailAttempts(e, S, notify))
  BY <1>1, SoundFailsAll
<1>3. QED
  BY <1>1, <1>2

LEMMA SoundReleases ==
    ASSUME scenario \in Scenarios, NEW e, Sound(e), NEW S \in SUBSET Ids,
           \A id \in S : e.att[id].phase = "established"
    PROVE  LET n == ReleasePackets(e, S) IN Sound(n) /\ Bares(e, n)
<1> DEFINE n == ReleasePackets(e, S)
<1>1. Booked(n, {}) /\ Bares(e, n)
  BY BReleases DEF Sound
<1>2. Repeats(e, n)
  BY SoundFields, ReleaseRepeats
<1> HIDE DEF n
<1>3. e.side = "initiator" => IGood(n)
  BY <1>2, IRepeats DEF Sound
<1>4. Live(e) \subseteq Ids
  BY LiveFinite
<1>5. Sound(n)
  BY <1>1, <1>3, <1>4 DEF Sound, Bares
<1>6. QED
  BY <1>1, <1>5 DEF n

LEMMA SoundSends ==
    ASSUME scenario \in Scenarios, NEW e, Sound(e), NEW id \in Ids, NEW type, NEW transition,
           e.att[id].phase # "none", type = Retransmission(e.att[id]),
           e.att[id].phase = "established" => e.att[id].packets
    PROVE  Sound(Send(e, id, type, transition))
<1> DEFINE n == Send(e, id, type, transition)
<1>1. e \in Engines
  BY SoundFields
<1>2. SameBooks(e, n)
  BY <1>1, SendBooks
<1>3. Repeats(e, n)
  BY <1>1, SendRepeats
<1> HIDE DEF n
<1>4. n.side = "initiator" => IGood(n)
  BY <1>2, <1>3, IRepeats DEF Sound, SameBooks
<1>5. Sound(n)
  BY <1>2, <1>4, SoundSame
<1>6. QED
  BY <1>5 DEF n

LEMMA SoundAdvances ==
    ASSUME scenario \in Scenarios, NEW e, Sound(e)
    PROVE  Sound(AdvanceAttempts(e))
<1> DEFINE late == {id \in Live(e) : e.att[id].ttl = 0}
           lapsed == {id \in late : e.att[id].phase = "established"}
           due == {id \in Live(e) \ late : /\ e.att[id].packets /\ CanSend(e.att[id])
                                           /\ e.att[id].wait = 0}
           S == late \ lapsed
           f == FailAttempts(e, S, TRUE)
           b == ReleasePackets(f, lapsed)
           n == Retransmit(b, due)
<1>1. n = AdvanceAttempts(e)
  BY DEF AdvanceAttempts
<1>2. /\ S \in SUBSET Ids /\ S \subseteq Live(e) /\ lapsed \in SUBSET Ids /\ due \in SUBSET Ids
      /\ \A id \in due : id \notin S /\ id \notin lapsed
      /\ \A id \in lapsed : id \notin S /\ e.att[id].phase = "established"
      /\ \A id \in due : e.att[id].phase # "none" /\ e.att[id].packets /\ CanSend(e.att[id])
  BY DEF Live
<1> HIDE DEF S, lapsed, due
<1>3. TRUE \in BOOLEAN /\ e \in Engines
  BY SoundFields
<1>4. Sound(f)
  BY <1>2, <1>3, SoundFailsAll
<1>5. f \in Engines /\ f.att = [id \in Ids |-> IF id \in S THEN NoAttempt ELSE e.att[id]]
  BY <1>2, <1>3, FailShape
<1> HIDE DEF f
<1>6. \A id \in lapsed : f.att[id].phase = "established"
  BY <1>2, <1>5
<1>7. Sound(b)
  BY <1>2, <1>4, <1>6, SoundReleases
<1>8. \A id \in Ids \ lapsed : b.att[id] = f.att[id]
  BY <1>2, <1>5, ReleaseRepeats
<1> HIDE DEF b
<1>9. b \in Engines /\ \A id \in due : b.att[id] = e.att[id]
  BY <1>2, <1>5, <1>7, <1>8, SoundFields
<1>10. Repeats(b, n) /\ SameBooks(b, n)
  BY <1>2, <1>9, RetransmitRepeats, RetransmitBooks
<1> HIDE DEF n
<1>11. n.side = "initiator" => IGood(n)
  BY <1>7, <1>10, IRepeats DEF Sound, SameBooks
<1>12. Sound(n)
  BY <1>7, <1>10, <1>11, SoundSame
<1>13. QED
  BY <1>1, <1>12

----------------------------------------------------------------------------
(* The calls either side may make.                                         *)

LEMMA BooksFacts ==
    ASSUME HandshakeInv, BooksInv, NEW side \in Sides
    PROVE  /\ scenario \in Scenarios /\ engine[side] \in Engines /\ engine[side].side = side
           /\ Balanced(engine[side]) /\ Booked(engine[side], {})
           /\ side = "responder" => \A id \in Live(R) : R.att[id].owner <= nonces
           /\ engine[side].closed \/ Sound(engine[side])
<1>1. scenario \in Scenarios /\ engine[side] \in Engines /\ engine[side].side = side
  BY DEF HandshakeInv, TypesInv
<1>2. Balanced(engine[side]) /\ Booked(engine[side], {})
  BY DEF BooksInv, Balanced
<1>3. side = "responder" => \A id \in Live(R) : R.att[id].owner <= nonces
  BY DEF BooksInv
<1>4. side = "initiator" => IGood(engine[side])
  BY InvFacts DEF I
<1>5. engine[side].closed \/ Sound(engine[side])
  BY <1>1, <1>2, <1>3, <1>4 DEF Sound, Balanced, R
<1>6. QED
  BY <1>1, <1>2, <1>3, <1>5

\* Engine.CloseSession, and a CLOSE.
LEMMA BEnds ==
    ASSUME HandshakeInv, BooksInv, NEW side \in Sides, ~engine[side].closed, NEW id, NEW k \in Nat,
           NEW notify \in BOOLEAN, Commit(FillDials(FailAttempt(engine[side], id, notify), k))
    PROVE  \E n : Commit(n) /\ Squared(n, nonces)
<1> DEFINE failed == FailAttempt(engine[side], id, notify)
           n == FillDials(failed, k)
<1>1. scenario \in Scenarios /\ Sound(engine[side])
  BY BooksFacts
<1>2. Sound(failed)
  BY <1>1, SoundFails
<1>3. Commit(n)
  OBVIOUS
<1> HIDE DEF failed
<1>4. Squared(n, nonces)
  BY <1>1, <1>2, SoundFills
<1>5. QED
  BY <1>3, <1>4

\* The tail of Engine.Receive.
LEMMA BReceives ==
    ASSUME HandshakeInv, BooksInv, NEW side \in Sides, ~engine[side].closed, NEW id \in Ids,
           NEW k \in Nat, NEW h, Sound(h), Receive(engine[side], id, h, k)
    PROVE  \E n : Commit(n) /\ Squared(n, nonces) /\ Silent
<1> DEFINE e == engine[side]
           a == e.att[id]
           filled == FillDials(h, k)
           bare == ReleasePackets(e, {id})
           failed == FailAttempt(e, id, TRUE)
           refilled == FillDials(failed, k)
<1>1. scenario \in Scenarios /\ Sound(e) /\ Balanced(e)
  BY BooksFacts
<1>2. Squared(filled, nonces)
  BY <1>1, SoundFills
<1>3. a.phase = "established" => Squared(bare, nonces)
  <2>1. SUFFICES ASSUME a.phase = "established" PROVE Squared(bare, nonces)
    OBVIOUS
  <2>2. {id} \in SUBSET Ids /\ \A i \in {id} : e.att[i].phase = "established"
    BY <2>1
  <2>3. Sound(bare) /\ Bares(e, bare)
    BY <1>1, <2>2, SoundReleases
  <2> HIDE DEF bare
  <2>4. QED
    BY <1>1, <2>3, SoundSquared DEF Bares, Balanced
<1>4. Squared(refilled, nonces)
  <2>1. Sound(failed)
    BY <1>1, SoundFails
  <2> HIDE DEF failed
  <2>2. QED
    BY <1>1, <2>1, SoundFills
<1>5. \/ Commit(filled) \/ (a.phase = "established" /\ Commit(bare)) \/ Commit(refilled)
  BY DEF Receive
<1>6. Silent
  BY DEF Receive
<1> HIDE DEF filled, bare, refilled
<1>7. QED
  BY <1>2, <1>3, <1>4, <1>5, <1>6

\* The timer.
LEMMA BAdvances ==
    ASSUME HandshakeInv, BooksInv, NEW side \in Sides, ~engine[side].closed, NEW k \in Nat,
           Advance(side, k)
    PROVE  \E n : Commit(n) /\ Squared(n, nonces) /\ Silent
<1> DEFINE s == engine[side]
           kept == {id \in DOMAIN s.rejections : s.rejections[id] > 0}
           r == Restrict(s.rejections, kept)
           e == [s EXCEPT !.rejections = Restrict(@, kept)]
           n == AdvanceAttempts(e)
<1>1. Commit(FillDials(n, k)) /\ Silent
  BY DEF Advance
<1>2. scenario \in Scenarios /\ Sound(s) /\ s \in Engines
  BY BooksFacts
<1>3. r \in Rejections
  BY <1>2, EngineFields, RestrictedRejections
<1>4. e = [s EXCEPT !.rejections = r]
  OBVIOUS
<1> HIDE DEF r, e, s
<1>5. SameTalk(s, e)
  BY <1>2, <1>3, <1>4, RejectionsTalk
<1>6. SameBooks(s, e)
  <2>1. e.pending = s.pending /\ e.res = s.res
    BY <1>2, <1>4 DEF Engines
  <2>2. QED
    BY <1>5, <2>1 DEF SameTalk, SameBooks, Alike
<1>7. e.side = "initiator" => IGood(e)
  BY <1>2, <1>5, ITalks DEF Sound, SameTalk
<1>8. Sound(e)
  BY <1>2, <1>6, <1>7, SoundSame
<1>9. Sound(n)
  BY <1>2, <1>8, SoundAdvances
<1> HIDE DEF n
<1>10. Squared(FillDials(n, k), nonces)
  BY <1>2, <1>9, SoundFills
<1>11. QED
  BY <1>1, <1>10

\* Engine.Close.
LEMMA BCloses ==
    ASSUME HandshakeInv, BooksInv, NEW side \in Sides, CloseEngine(side)
    PROVE  \E n : Commit(n) /\ Squared(n, nonces) /\ Silent
<1> DEFINE s == engine[side]
           none == [id \in {} |-> 0]
           e == [s EXCEPT !.closed = TRUE, !.rejections = [id \in {} |-> 0]]
           x == [e EXCEPT !.prepared = "aborted"]
           retired == Retire(x, {0})
           aborted == IF e.prepared = "waiting" THEN retired ELSE e
           dropped == DropDial(aborted)
           S == Live(e)
           n == FailAttempts(dropped, S, TRUE)
<1>1. Commit(n) /\ Silent
  BY DEF CloseEngine
<1>2. none \in Rejections
  <2>1. none \in [{} -> 0..Lifetime] /\ {} \in SUBSET Ids
    OBVIOUS
  <2>2. QED
    BY <2>1 DEF Rejections
<1>3. scenario \in Scenarios /\ s \in Engines /\ Balanced(s) /\ Booked(s, {})
  BY BooksFacts
<1> HIDE DEF none, s
<1>4. e = [s EXCEPT !.closed = TRUE, !.rejections = none]
  BY DEF none
<1> HIDE DEF e
<1>5. /\ e \in Engines /\ e.closed /\ e.side = s.side /\ e.att = s.att /\ e.out = s.out
      /\ e.dial = s.dial /\ e.prepared = s.prepared /\ e.pending = s.pending /\ e.res = s.res
  BY <1>2, <1>3, <1>4 DEF Engines
<1>6. Booked(e, {}) /\ Live(e) = Live(s) /\ Waiting(e) = Waiting(s)
  <2>1. Live(e) = Live(s) /\ Waiting(e) = Waiting(s)
    BY <1>5 DEF Live, Waiting
  <2>2. Held(s, {}) /\ Counted(s)
    BY <1>3 DEF Booked
  <2>3. Counted(e)
    BY <1>5, <2>1, <2>2 DEF Counted, Capacity, Prepares
  <2>4. Held(e, {})
    <3>1. \A o : (Unused(e, o) <=> Unused(s, o)) /\ (Keeps(e, o) <=> Keeps(s, o))
      BY <1>5, <2>1 DEF Unused, Keeps, Prepares
    <3>2. OwnersApart(e)
      BY <1>5, <2>1, <2>2 DEF Held, OwnersApart
    <3>3. QED
      BY <1>5, <2>1, <2>2, <3>1, <3>2 DEF Held
  <2>5. QED
    BY <1>5, <2>1, <2>3, <2>4 DEF Booked
<1>7. /\ Booked(aborted, {}) /\ Live(aborted) = Live(e) /\ aborted.side = e.side /\ aborted.closed
      /\ Prepares(aborted) /\ aborted.dial.phase = "open" => Live(aborted) # {}
  <2>1. CASE e.prepared = "waiting"
    <3>1. aborted = retired
      BY <2>1
    <3>2. Prepares(e) /\ Live(e) = {} /\ e.dial.phase # "open" /\ Keeps(e, 0)
      BY <1>6, <2>1 DEF Booked, Counted, Keeps
    <3>3. /\ x \in Engines /\ x.side = e.side /\ x.closed = e.closed /\ x.att = e.att
          /\ x.dial = e.dial /\ x.prepared = "aborted" /\ x.pending = e.pending /\ x.res = e.res
      BY <1>5 DEF Engines
    <3> HIDE DEF x
    <3>4. /\ Booked(retired, {}) /\ Live(retired) = {} /\ retired.dial.phase # "open"
          /\ retired.side = e.side /\ retired.closed = x.closed
      BY <1>3, <1>6, <3>2, <3>3, BGivesUp
    <3> HIDE DEF retired, aborted
    <3>5. QED
      BY <1>5, <3>1, <3>2, <3>3, <3>4
  <2>2. CASE e.prepared # "waiting"
    <3>1. aborted = e
      BY <2>2
    <3>2. e.dial.phase = "open" => Live(e) # {}
      BY <1>3, <1>5, <1>6 DEF Balanced, Waiting
    <3> HIDE DEF aborted
    <3>3. QED
      BY <1>5, <1>6, <3>1, <3>2
  <2>3. QED
    BY <2>1, <2>2
<1> HIDE DEF aborted
<1>8. Booked(dropped, {}) /\ Drops(aborted, dropped)
  BY <1>7, BDrops
<1> HIDE DEF dropped
<1>9. S \subseteq Live(dropped) /\ {} \subseteq S /\ TRUE \in BOOLEAN /\ Live(dropped) = S
  BY <1>7, <1>8 DEF Drops
<1> HIDE DEF S
<1>10. Booked(n, {}) /\ Loses(dropped, n, S)
  BY <1>3, <1>8, <1>9, BFails
<1> HIDE DEF n
<1>11. Live(n) = {} /\ Waiting(n) = {} /\ n.dial.phase # "open"
  BY <1>8, <1>9, <1>10 DEF Loses, Drops, Waiting
<1>12. Squared(n, nonces)
  BY <1>10, <1>11 DEF Squared, Balanced
<1>13. QED
  BY <1>1, <1>12

----------------------------------------------------------------------------
(* The calls of the initiator.                                             *)

LEMMA ICommitted ==
    ASSUME HandshakeInv, \E n : Commit(n) /\ IMoves(n)
    PROVE  ~engine["initiator"].closed
<1>1. PICK n : Commit(n) /\ n.side = "initiator"
  BY DEF IMoves
<1>2. QED
  BY <1>1 DEF Commit

LEMMA BInitiator ==
    ASSUME HandshakeInv, BooksInv
    PROVE  /\ "initiator" \in Sides /\ scenario \in Scenarios
           /\ I \in Engines /\ I.side = "initiator" /\ Balanced(I) /\ Booked(I, {}) /\ IGood(I)
           /\ Held(I, {}) /\ Counted(I)
           /\ I.closed \/ Sound(I)
<1>1. "initiator" \in Sides
  BY DEF Sides
<1>2. /\ scenario \in Scenarios
      /\ I \in Engines /\ I.side = "initiator" /\ Balanced(I) /\ Booked(I, {})
      /\ I.closed \/ Sound(I)
  BY <1>1, BooksFacts DEF I
<1>3. QED
  BY <1>1, <1>2, InvFacts DEF Booked

LEMMA BChallenge ==
    ASSUME HandshakeInv, BooksInv, NEW m \in msgs, NEW k \in Nat, ReceiveChallenge(m, k)
    PROVE  \E n : Commit(n) /\ Squared(n, nonces) /\ Silent
<1> DEFINE a == I.att[m.id]
           keyed == [WithKeys(I, m.id, m.nonce) EXCEPT !.att[m.id].phase = "waitReady"]
           first == Send(keyed, m.id, "FINISH", TRUE)
           again == Send(I, m.id, "FINISH", FALSE)
           h == IF a.phase = "waitChallenge"
                THEN IF Contract(m.id).valid THEN first ELSE I
                ELSE IF Authentic(a, m) THEN again
                ELSE I
<1>1. m.id \in Ids /\ m.nonce \in 0..MaxNonce /\ m.type \in PacketTypes
  BY InvFacts
<1>2. m.type = "CHALLENGE" /\ Expects("initiator", m) /\ Receive(I, m.id, h, k)
  BY DEF ReceiveChallenge
<1>3. a.phase \in {"waitChallenge", "waitReady"}
  BY <1>2 DEF Expects, I
<1>4. ~engine["initiator"].closed
  BY IChallenge, ICommitted
<1>5. Sound(I) /\ scenario \in Scenarios /\ I \in Engines /\ I.side = "initiator"
  BY <1>4, BInitiator DEF I
<1>6. a.phase = "waitChallenge" /\ Contract(m.id).valid => Sound(first)
  <2>1. SUFFICES ASSUME a.phase = "waitChallenge", Contract(m.id).valid PROVE Sound(first)
    OBVIOUS
  <2>2. IGood(first)
    BY <1>1, <2>1, InvFacts, IAnswers
  <2> DEFINE waits == "waitReady"
             nonce == m.nonce
             b == [a EXCEPT !.nonce = nonce, !.phase = waits]
             att == [I.att EXCEPT ![m.id] = b]
  <2>3. keyed = [I EXCEPT !.att = att]
    BY <1>1, <1>5, EngineFields DEF Engines, WithKeys
  <2>4. a \in Attempts
    BY <1>1, <1>5, EngineFields
  <2>5. waits \in Phases /\ waits = "waitReady" /\ nonce \in 0..MaxNonce
    BY <1>1 DEF Phases
  <2> HIDE DEF waits, a, nonce
  <2>6. b \in Attempts /\ b.phase = waits /\ b.owner = a.owner /\ b.packets = a.packets
    BY <2>4, <2>5 DEF Attempts
  <2> HIDE DEF b
  <2>7. /\ att \in [Ids -> Attempts] /\ att[m.id] = b
        /\ \A i \in Ids : i # m.id => att[i] = I.att[i]
    BY <1>1, <1>5, <2>6, EngineFields
  <2> HIDE DEF att, keyed
  <2>8. /\ keyed \in Engines /\ keyed.side = I.side /\ keyed.closed = I.closed
        /\ keyed.pending = I.pending /\ keyed.res = I.res /\ keyed.prepared = I.prepared
        /\ keyed.dial = I.dial /\ keyed.att = att
    BY <1>5, <2>3, <2>7 DEF Engines
  <2>9. \A i \in Ids : Alike(I.att[i], keyed.att[i])
    <3>1. Alike(a, b)
      BY <2>1, <2>5, <2>6 DEF Alike, a
    <3>2. QED
      BY <2>7, <2>8, <3>1 DEF Alike, a
  <2>10. SameBooks(I, keyed)
    BY <2>8, <2>9 DEF SameBooks
  <2>11. SameBooks(keyed, first)
    <3>1. /\ keyed.att[m.id] = b /\ b.phase # "none" /\ b.phase # "established" /\ b.phase \in Phases
          /\ Retransmission(b) = "FINISH"
      BY <2>5, <2>6, <2>7, <2>8, RetransmissionType
    <3>2. QED
      BY <1>1, <1>5, <2>8, <3>1, SendBooks
  <2> HIDE DEF first
  <2>12. SameBooks(I, first)
    BY <2>10, <2>11, SameBooksOn
  <2>13. QED
    BY <1>5, <2>2, <2>12, SoundSame
<1>7. a.phase = "waitReady" => Sound(again)
  <2>1. SUFFICES ASSUME a.phase = "waitReady" PROVE Sound(again)
    OBVIOUS
  <2>2. Retransmission(a) = "FINISH" /\ a.phase # "none" /\ a.phase # "established"
    BY <2>1, RetransmissionType DEF Phases
  <2>3. QED
    BY <1>1, <1>5, <2>2, SoundSends
<1> HIDE DEF first, again, a
<1>8. Sound(h)
  BY <1>3, <1>5, <1>6, <1>7
<1>9. Receive(engine["initiator"], m.id, h, k) /\ "initiator" \in Sides
  BY <1>2 DEF I, Sides
<1> HIDE DEF h
<1>10. QED
  BY <1>1, <1>4, <1>8, <1>9, BReceives

LEMMA BRejected ==
    ASSUME HandshakeInv, BooksInv, NEW m \in msgs, NEW k \in Nat, ReceiveReject(m, k)
    PROVE  \E n : Commit(n) /\ Squared(n, nonces) /\ Silent
<1> DEFINE failed == FailAttempt(I, m.id, FALSE)
           h == IF I.att[m.id].phase = "waitChallenge" THEN failed ELSE I
<1>1. m.id \in Ids
  BY InvFacts
<1>2. ~engine["initiator"].closed
  BY IRejected, ICommitted
<1>3. Sound(I) /\ scenario \in Scenarios
  BY <1>2, BInitiator DEF I
<1>4. Sound(failed)
  <2>1. FALSE \in BOOLEAN
    OBVIOUS
  <2>2. QED
    BY <1>3, <2>1, SoundFails
<1>5. Receive(engine["initiator"], m.id, h, k) /\ "initiator" \in Sides
  BY DEF ReceiveReject, I, Sides
<1> HIDE DEF failed
<1>6. Sound(h)
  BY <1>3, <1>4
<1> HIDE DEF h
<1>7. QED
  BY <1>1, <1>2, <1>5, <1>6, BReceives

\* The first READY that is installed leaves one attempt, established.
LEMMA BReadyWins ==
    ASSUME scenario \in Scenarios, NEW e, Sound(e), e.side = "initiator", NEW id \in Waiting(e),
           e.att[id].phase = "waitReady"
    PROVE  LET done == Install(e, id, "ok")
           IN  Sound(ReleasePackets(FailAttempts(DropDial(done), Live(done) \ {id}, TRUE), {id}))
<1> DEFINE done == Install(e, id, "ok")
           y == DropDial(done)
           S == Live(done) \ {id}
           f == FailAttempts(y, S, TRUE)
           n == ReleasePackets(f, {id})
<1>1. e \in Engines /\ Booked(e, {}) /\ id \in Ids /\ id \in Live(e) /\ IGood(e) /\ ~e.closed
  BY SoundFields, LiveFinite DEF Sound
<1>2. IGood(n) /\ n.dial.phase = "over"
  BY <1>1, IInstalls
<1>3. done \in Engines /\ done.dial = e.dial
  BY <1>1, InstallDone
<1>4. /\ y \in Engines /\ y = [done EXCEPT !.dial = y.dial]
      /\ y.dial.phase = "over" /\ y.dial.next = done.dial.next
  BY <1>3, DropDialShape
<1> HIDE DEF y
<1>5. /\ y.att = done.att /\ y.res = done.res /\ y.pending = done.pending /\ y.side = done.side
      /\ y.closed = done.closed /\ y.prepared = done.prepared
  <2> DEFINE d == y.dial
  <2>1. y = [done EXCEPT !.dial = d]
    BY <1>4
  <2> HIDE DEF d, done
  <2>2. QED
    BY <1>3, <2>1 DEF Engines
<1>6. Booked(y, {}) /\ Wins(e, y, id)
  <2>1. y.dial.phase # "open" /\ y.dial.next = e.dial.next
    BY <1>3, <1>4
  <2>2. QED
    BY <1>1, <1>4, <1>5, <2>1, BWins
<1>7. S = Live(y) \ {id}
  BY <1>5 DEF Live
<1> HIDE DEF S, done
<1>8. Booked(f, {}) /\ Loses(y, f, S)
  <2>1. S \subseteq Live(y) /\ {} \subseteq S /\ TRUE \in BOOLEAN
    BY <1>7
  <2>2. QED
    BY <1>6, <2>1, BFails
<1> HIDE DEF f
<1>9. Booked(n, {}) /\ Bares(f, n)
  <2>1. {id} \in SUBSET Ids /\ \A i \in {id} : f.att[i].phase = "established"
    BY <1>1, <1>6, <1>7, <1>8 DEF Loses, Wins
  <2>2. QED
    BY <1>8, <2>1, BReleases
<1> HIDE DEF n
<1>10. Waiting(n) = {}
  <2>1. Waiting(n) = (Waiting(e) \ {id}) \ S /\ S = Live(e) \ {id}
    BY <1>6, <1>7, <1>8, <1>9 DEF Wins, Loses, Bares
  <2>2. QED
    BY <2>1, LiveFinite
<1>11. n.side = "initiator" /\ ~n.closed
  BY <1>1, <1>6, <1>8, <1>9 DEF Wins, Loses, Bares
<1>12. Sound(n)
  BY <1>2, <1>9, <1>10, <1>11 DEF Sound
<1>13. QED
  BY <1>12 DEF n, f, y, S, done

LEMMA BReady ==
    ASSUME HandshakeInv, BooksInv, NEW m \in msgs, NEW outcome \in Outcomes, NEW k \in Nat,
           ReceiveReady(m, outcome, k)
    PROVE  \E n : Commit(n) /\ Squared(n, nonces) /\ Silent
<1> DEFINE done == Install(I, m.id, outcome)
           won == ReleasePackets(FailAttempts(DropDial(done), Live(done) \ {m.id}, TRUE), {m.id})
           h == IF outcome = "ok" THEN won ELSE done
<1>1. m.id \in Ids
  BY InvFacts
<1>2. m.type = "READY" /\ Expects("initiator", m) /\ Receive(I, m.id, h, k)
  BY DEF ReceiveReady
<1>3. ~engine["initiator"].closed
  BY IReady, ICommitted
<1>4. Sound(I) /\ scenario \in Scenarios /\ I.side = "initiator" /\ IGood(I)
  BY <1>3, BInitiator DEF I
<1>5. I.att[m.id].phase = "waitReady" /\ m.id \in Waiting(I)
  BY <1>1, <1>2 DEF Expects, I, Waiting, Live
<1>6. Receive(engine["initiator"], m.id, h, k) /\ "initiator" \in Sides
  BY <1>2 DEF I, Sides
<1>7. CASE outcome = "ok"
  <2>1. h = LET d == Install(I, m.id, "ok")
            IN  ReleasePackets(FailAttempts(DropDial(d), Live(d) \ {m.id}, TRUE), {m.id})
    BY <1>7
  <2> HIDE DEF h
  <2>2. Sound(h)
    BY <1>4, <1>5, <2>1, BReadyWins
  <2>3. QED
    BY <1>1, <1>3, <1>6, <2>2, BReceives
<1>8. CASE outcome # "ok"
  <2>1. h = done
    BY <1>8
  <2>2. IGood(done)
    BY <1>1, <1>4, <1>8, IInstallFails
  <2>3. Booked(done, {}) /\ Loses(I, done, {m.id})
    BY <1>4, <1>5, <1>8, BInstallFails DEF Sound
  <2> HIDE DEF done
  <2>4. Sound(done)
    <3>1. done.side = "initiator" /\ ~done.closed
      BY <1>4, <2>3 DEF Sound, Loses
    <3>2. done.dial.phase # "open" => Waiting(done) = {}
      <4>1. CASE done.dial.phase = I.dial.phase
        BY <1>4, <2>3, <4>1 DEF Sound, Loses
      <4>2. CASE Live(done) = {}
        BY <4>2 DEF Waiting
      <4>3. QED
        BY <2>3, <4>1, <4>2 DEF Loses
    <3>3. QED
      BY <2>2, <2>3, <3>1, <3>2 DEF Sound
  <2>5. Sound(h)
    BY <2>1, <2>4
  <2> HIDE DEF h
  <2>6. QED
    BY <1>1, <1>3, <1>6, <2>5, BReceives
<1>9. QED
  BY <1>7, <1>8

LEMMA NoneLive ==
    ASSUME NEW e, Counted(e), e.side = "initiator", e.dial.next = 0
    PROVE  Live(e) = {} /\ Waiting(e) = {}
<1>1. SUFFICES ASSUME NEW id \in Live(e) PROVE FALSE
  BY DEF Waiting
<1>2. id <= 0 /\ id \in 1..MaxPaths
  BY <1>1 DEF Counted, Live, Ids
<1>3. QED
  BY <1>2 DEF MaxPaths

\* A dial opens on an engine without attempts, with the reservation made for it.
LEMMA BBegins ==
    ASSUME NEW e, Booked(e, {}), Live(e) = {}, e.side = "initiator",
           NEW x \in Engines, x.att = e.att, x.res = e.res, x.side = e.side, x.pending = e.pending,
           x.dial.phase = "open", x.dial.running = 0, x.prepared # "waiting",
           e.dial.phase # "open", scenario.mode = "prepared" <=> e.prepared = "waiting"
    PROVE  Booked(x, {})
<1>1. Held(e, {}) /\ Counted(e) /\ e \in Engines
  BY DEF Booked
<1>2. Live(x) = {} /\ Waiting(x) = {} /\ Waiting(e) = {}
  BY DEF Live, Waiting
<1>3. e.pending = 0 /\ Cardinality(Waiting(x)) = 0
  BY <1>1, <1>2, FS_EmptySet DEF Counted
<1>4. Counted(x)
  BY <1>2, <1>3, LimitsAssumption DEF Counted, Capacity
<1>5. ASSUME NEW o \in Owners
      PROVE  IF Keeps(x, o) THEN Pledged(x.res[o]) ELSE Spent(x.res[o])
  <2>1. Unused(e, o)
    BY DEF Unused
  <2>2. Keeps(x, o) <=> Keeps(e, o)
    BY DEF Keeps, Prepares
  <2>3. QED
    BY <1>1, <2>1, <2>2 DEF Held
<1>6. Held(x, {})
  BY <1>2, <1>5 DEF Held, OwnersApart
<1>7. QED
  BY <1>4, <1>6 DEF Booked

LEMMA OpenShape ==
    ASSUME scenario \in Scenarios, NEW e \in Engines
    PROVE  LET x == OpenDial(e)
           IN  /\ x.att = e.att /\ x.res = e.res /\ x.side = e.side /\ x.pending = e.pending
               /\ x.closed = e.closed /\ x.prepared = e.prepared
               /\ x.dial.phase = "open" /\ x.dial.running = 0
<1> DEFINE d == [phase |-> "open", next |-> 0, running |-> 0, ttl |-> scenario.deadline]
           x == OpenDial(e)
<1>1. x = [e EXCEPT !.dial = d]
  BY DEF OpenDial
<1>2. d.phase = "open" /\ d.running = 0
  OBVIOUS
<1> HIDE DEF d, x
<1>3. /\ x.att = e.att /\ x.res = e.res /\ x.side = e.side /\ x.pending = e.pending
      /\ x.closed = e.closed /\ x.prepared = e.prepared /\ x.dial = d
  BY <1>1 DEF Engines
<1>4. QED
  BY <1>2, <1>3 DEF x

LEMMA BDials ==
    ASSUME HandshakeInv, BooksInv, NEW k \in Nat, BeginDial(k) \/ BeginPreparedDial(k)
    PROVE  \E n : Commit(n) /\ Squared(n, nonces) /\ Silent
<1>1. /\ I \in Engines /\ I.side = "initiator" /\ Booked(I, {}) /\ Counted(I) /\ IGood(I)
      /\ scenario \in Scenarios
  BY BInitiator
<1>2. ~I.closed
  BY IBegins, ICommitted DEF I
<1>3. CASE BeginDial(k)
  <2> DEFINE opened == OpenDial(I)
  <2>1. scenario.mode # "prepared" /\ I.dial.phase = "none" /\ Commit(FillDials(opened, k))
        /\ Silent
    BY <1>3 DEF BeginDial
  <2>2. IGood(opened)
    BY <1>1, <2>1, IOpens DEF Unopened
  <2>3. opened \in Engines
    BY <2>2 DEF IGood
  <2>4. /\ opened.att = I.att /\ opened.res = I.res /\ opened.side = I.side
        /\ opened.pending = I.pending /\ opened.closed = I.closed
        /\ opened.prepared = I.prepared /\ opened.dial.phase = "open" /\ opened.dial.running = 0
    BY <1>1, OpenShape
  <2> HIDE DEF opened
  <2>5. I.dial.next = 0 /\ I.prepared # "waiting"
    BY <1>1, <2>1 DEF IGood, InitiatorInv
  <2>6. Live(I) = {}
    BY <1>1, <2>5, NoneLive
  <2>7. Booked(opened, {})
    BY <1>1, <2>1, <2>3, <2>4, <2>5, <2>6, BBegins
  <2>8. Sound(opened)
    BY <1>1, <1>2, <2>2, <2>4, <2>7 DEF Sound
  <2>9. QED
    BY <1>1, <2>1, <2>8, SoundFills
<1>4. CASE BeginPreparedDial(k)
  <2> DEFINE taken == [I EXCEPT !.prepared = "adopted"]
             opened == OpenDial(taken)
             n == FillDials(opened, k)
  <2>1. I.prepared = "waiting" /\ Commit(n) /\ Silent
    BY <1>4 DEF BeginPreparedDial
  <2>2. /\ scenario.mode = "prepared" /\ I.dial.phase = "none" /\ Live(I) = {}
    BY <1>1, <2>1 DEF IGood, InitiatorInv, Unopened, Counted
  <2>3. /\ taken \in Engines /\ taken.side = I.side /\ taken.closed = I.closed
        /\ taken.att = I.att /\ taken.res = I.res /\ taken.pending = I.pending
        /\ taken.out = I.out /\ taken.dial = I.dial /\ taken.prepared = "adopted"
    BY <1>1 DEF Engines
  <2> HIDE DEF taken
  <2>4. IGood(taken)
    BY <1>1, <2>3, IPrepares
  <2>5. IGood(opened)
    BY <1>1, <2>2, <2>3, <2>4, IOpens DEF Unopened
  <2>6. opened \in Engines
    BY <2>5 DEF IGood
  <2>7. /\ opened.att = taken.att /\ opened.res = taken.res /\ opened.side = taken.side
        /\ opened.pending = taken.pending /\ opened.closed = taken.closed
        /\ opened.prepared = taken.prepared
        /\ opened.dial.phase = "open" /\ opened.dial.running = 0
    BY <1>1, <2>3, OpenShape
  <2> HIDE DEF opened
  <2>8. Booked(opened, {})
    BY <1>1, <2>1, <2>2, <2>3, <2>6, <2>7, BBegins
  <2>9. Sound(opened)
    BY <1>1, <1>2, <2>3, <2>5, <2>7, <2>8 DEF Sound
  <2>10. QED
    BY <1>1, <2>1, <2>9, SoundFills
<1>5. QED
  BY <1>3, <1>4

LEMMA BPrepare ==
    ASSUME HandshakeInv, BooksInv, PrepareDial
    PROVE  \E n : Commit(n) /\ Squared(n, nonces) /\ Silent
<1> DEFINE r == [Reserved EXCEPT !.disposer = TRUE, !.given = TRUE]
           res == [I.res EXCEPT ![0] = r]
           n == [I EXCEPT !.prepared = "waiting",
                          !.res[0] = [Reserved EXCEPT !.disposer = TRUE, !.given = TRUE]]
<1>1. scenario.mode = "prepared" /\ I.prepared = "none" /\ Capacity(I) > 0 /\ Commit(n) /\ Silent
  BY DEF PrepareDial
<1>2. /\ I \in Engines /\ I.side = "initiator" /\ Booked(I, {}) /\ Held(I, {}) /\ Counted(I)
      /\ IGood(I) /\ 0 \in Owners
  BY BInitiator, IdsFinite
<1>3. r \in Holdings /\ Pledged(r)
  <2>1. /\ r.scope = "pending" /\ r.packet = TRUE /\ r.storage = "held" /\ r.disposer = TRUE
        /\ r.given = TRUE /\ r.called = 0
    BY DEF Reserved, Nothing
  <2>2. r \in Holdings
    BY DEF Reserved, Nothing, Holdings
  <2> HIDE DEF r
  <2>3. QED
    BY <1>1, <2>1, <2>2 DEF Pledged, Intact
<1>4. n = [I EXCEPT !.prepared = "waiting", !.res = res]
  BY <1>2 DEF Engines
<1> HIDE DEF r, n
<1>5. /\ res \in [Owners -> Holdings] /\ res[0] = r
      /\ \A o \in Owners : o # 0 => res[o] = I.res[o]
  BY <1>2, <1>3, EngineFields
<1> HIDE DEF res
<1>6. /\ n \in Engines /\ n.side = I.side /\ n.closed = I.closed /\ n.att = I.att
      /\ n.dial = I.dial /\ n.prepared = "waiting" /\ n.res = res /\ n.pending = I.pending
  BY <1>2, <1>4, <1>5 DEF Engines
<1>7. ~I.closed
  BY IPrepare, ICommitted DEF I
<1>8. I.dial.phase = "none" /\ I.dial.next = 0
  BY <1>1, <1>2, <1>7 DEF IGood, InitiatorInv, Unopened
<1>9. Live(I) = {} /\ Waiting(I) = {}
  BY <1>2, <1>8, NoneLive
<1>10. Live(n) = {} /\ Waiting(n) = {}
  BY <1>6, <1>9 DEF Live, Waiting
<1>11. Counted(n)
  <2>1. Capacity(n) >= 0
    <3>1. I.pending \in Int
      BY <1>2, EngineFields
    <3>2. QED
      BY <1>1, <1>6, <3>1, LimitsAssumption DEF Capacity
  <2>2. Prepares(n)
    BY <1>1, <1>2, <1>6 DEF Prepares
  <2>3. QED
    BY <1>2, <1>6, <1>8, <1>9, <1>10, <2>1, <2>2 DEF Counted
<1>12. ASSUME NEW o \in Owners
       PROVE  IF Keeps(n, o) THEN Pledged(n.res[o]) ELSE Spent(n.res[o])
  <2>1. CASE o = 0
    BY <1>1, <1>2, <1>3, <1>5, <1>6, <2>1 DEF Keeps, Prepares
  <2>2. CASE o # 0
    <3>1. Unused(I, o) /\ ~Keeps(I, o) /\ ~Keeps(n, o) /\ n.res[o] = I.res[o]
      BY <1>5, <1>6, <1>9, <2>2 DEF Unused, Keeps
    <3>2. QED
      BY <1>2, <3>1 DEF Held
  <2>3. QED
    BY <2>1, <2>2
<1>13. Booked(n, {})
  BY <1>6, <1>10, <1>11, <1>12 DEF Booked, Held, OwnersApart
<1>14. Squared(n, nonces)
  BY <1>2, <1>6, <1>7, <1>8, <1>10, <1>13 DEF Squared, Balanced
<1>15. QED
  BY <1>1, <1>14

LEMMA BAbort ==
    ASSUME HandshakeInv, BooksInv, AbortPreparedDial
    PROVE  \E n : Commit(n) /\ Squared(n, nonces) /\ Silent
<1> DEFINE x == [I EXCEPT !.prepared = "aborted"]
           n == Retire(x, {0})
<1>1. I.prepared = "waiting" /\ Commit(n) /\ Silent
  BY DEF AbortPreparedDial
<1>2. I \in Engines /\ I.side = "initiator" /\ Booked(I, {}) /\ Counted(I) /\ scenario \in Scenarios
  BY BInitiator
<1>3. Prepares(I) /\ Live(I) = {} /\ I.dial.phase # "open" /\ Keeps(I, 0)
  BY <1>1, <1>2 DEF Counted, Keeps
<1>4. /\ x \in Engines /\ x.side = I.side /\ x.closed = I.closed /\ x.att = I.att
      /\ x.dial = I.dial /\ x.prepared = "aborted" /\ x.pending = I.pending /\ x.res = I.res
  BY <1>2 DEF Engines
<1> HIDE DEF x
<1>5. /\ Booked(n, {}) /\ Live(n) = {} /\ Waiting(n) = {} /\ n.dial.phase # "open"
      /\ n.side = I.side
  BY <1>2, <1>3, <1>4, BGivesUp
<1> HIDE DEF n
<1>6. Squared(n, nonces)
  BY <1>2, <1>5 DEF Squared, Balanced
<1>7. QED
  BY <1>1, <1>6

LEMMA BCancels ==
    ASSUME HandshakeInv, BooksInv, CancelDial
    PROVE  \E n : Commit(n) /\ Squared(n, nonces) /\ Silent
<1> DEFINE S == {id \in Live(I) : I.att[id].phase # "established"}
           dropped == DropDial(I)
           n == FailAttempts(dropped, S, TRUE)
<1>1. I.dial.phase = "open" /\ Commit(n) /\ Silent
  BY DEF CancelDial
<1>2. /\ I \in Engines /\ I.side = "initiator" /\ Booked(I, {}) /\ Balanced(I)
      /\ scenario \in Scenarios
  BY BInitiator
<1>3. ~I.closed
  BY ICancels, ICommitted DEF I
<1>4. S = Waiting(I)
  BY DEF Waiting
<1>5. Waiting(I) # {} /\ Live(I) # {}
  BY <1>1, <1>2 DEF Balanced, Waiting
<1>6. Booked(dropped, {}) /\ Drops(I, dropped)
  BY <1>2, <1>5, BDrops
<1> HIDE DEF dropped, S
<1>7. S \subseteq Live(dropped) /\ {} \subseteq S /\ TRUE \in BOOLEAN
  BY <1>4, <1>6, LiveFinite DEF Drops
<1>8. Booked(n, {}) /\ Loses(dropped, n, S)
  BY <1>2, <1>6, <1>7, BFails
<1> HIDE DEF n
<1>9. /\ n.side = "initiator" /\ n.closed = I.closed /\ Waiting(n) = {} /\ n.dial.phase # "open"
  BY <1>2, <1>4, <1>6, <1>8 DEF Drops, Loses
<1>10. Squared(n, nonces)
  BY <1>3, <1>8, <1>9 DEF Squared, Balanced
<1>11. QED
  BY <1>1, <1>10

----------------------------------------------------------------------------
(* The calls of the responder.                                             *)

LEMMA RCommitted ==
    ASSUME HandshakeInv, \E n : Commit(n) /\ RMoves(n)
    PROVE  ~engine["responder"].closed
<1>1. PICK n : Commit(n) /\ n.side = "responder"
  BY DEF RMoves
<1>2. QED
  BY <1>1 DEF Commit

LEMMA BResponder ==
    ASSUME HandshakeInv, BooksInv
    PROVE  /\ "responder" \in Sides /\ scenario \in Scenarios
           /\ R \in Engines /\ R.side = "responder" /\ Booked(R, {}) /\ Counted(R)
           /\ R.dial.phase # "open"
           /\ R.closed \/ Sound(R)
<1>1. "responder" \in Sides
  BY DEF Sides
<1>2. /\ scenario \in Scenarios
      /\ R \in Engines /\ R.side = "responder" /\ Balanced(R) /\ Booked(R, {})
      /\ R.closed \/ Sound(R)
  BY <1>1, BooksFacts DEF R
<1>3. QED
  BY <1>1, <1>2 DEF Booked, Counted

\* Any engine of the responder that is sound may be the last of the call.
LEMMA RSquared ==
    ASSUME NEW e, Sound(e), e.side = "responder"
    PROVE  Squared(e, nonces)
<1>1. e.dial.phase # "open"
  BY SoundFields DEF Counted
<1>2. QED
  BY <1>1, SoundSquared

LEMMA RejectBooks ==
    ASSUME scenario \in Scenarios, NEW e \in Engines, NEW id \in Ids
    PROVE  SameBooks(e, Reject(e, id))
<1> DEFINE m == Packet(e, "REJECT", id)
           r == [i \in {id} \cup DOMAIN e.rejections |->
                    IF i = id THEN Lifetime ELSE e.rejections[i]]
           out == e.out \cup {m}
           n == Reject(e, id)
<1>1. SameBooks(e, e)
  BY DEF SameBooks, Alike
<1>2. m \in Packets
  BY PacketTyped DEF PacketTypes
<1>3. r \in Rejections
  <2>1. PICK D \in SUBSET Ids : e.rejections \in [D -> 0..Lifetime]
    BY EngineFields DEF Rejections
  <2>2. Lifetime \in 0..Lifetime
    BY TimesAssumption
  <2>3. r \in [{id} \cup D -> 0..Lifetime]
    BY <2>1, <2>2
  <2>4. {id} \cup D \in SUBSET Ids
    OBVIOUS
  <2>5. QED
    BY <2>3, <2>4 DEF Rejections
<1> HIDE DEF m, r
<1>4. out \in SUBSET Packets
  BY <1>2, EngineFields
<1>5. CASE n = e
  BY <1>1, <1>5
<1>6. CASE n = [e EXCEPT !.rejections = r, !.out = out]
  <2> HIDE DEF out, n
  <2>1. /\ n \in Engines /\ n.side = e.side /\ n.closed = e.closed /\ n.pending = e.pending
        /\ n.res = e.res /\ n.prepared = e.prepared /\ n.att = e.att /\ n.dial = e.dial
    BY <1>3, <1>4, <1>6 DEF Engines
  <2>2. SameBooks(e, n)
    BY <2>1 DEF SameBooks, Alike
  <2>3. QED
    BY <2>2 DEF n
<1>7. n = e \/ n = [e EXCEPT !.rejections = r, !.out = out]
  BY DEF Reject, r, m
<1>8. QED
  BY <1>5, <1>6, <1>7

LEMMA BHello ==
    ASSUME HandshakeInv, BooksInv, NEW id \in Ids, NEW admit \in BOOLEAN, ReceiveHello(id, admit)
    PROVE  \E n : Commit(n) /\ Squared(n, nonces') /\ nonces <= nonces'
<1> DEFINE a == R.att[id]
           failed == FailAttempt(R, id, TRUE)
           over == IF a.phase = "waitFinish" THEN failed ELSE R
<1>1. ~R.closed
  BY RHello, RCommitted DEF R
<1>2. /\ Sound(R) /\ scenario \in Scenarios /\ R \in Engines /\ R.side = "responder"
      /\ nonces \in 0..MaxNonce
  BY <1>1, BResponder, InvFacts
<1>3. a.phase # "established" /\ a.phase \in {"none", "waitFinish", "established"}
  <2>1. RAttempt(id, R.att[id], msgs)
    BY DEF HandshakeInv, ResponderInv
  <2>2. QED
    BY <2>1 DEF ReceiveHello, RAttempt
<1>4. CASE a.phase = "waitFinish" /\ a.ttl > 0
  <2> DEFINE again == Send(R, id, "CHALLENGE", FALSE)
  <2>1. Commit(again) /\ nonces' = nonces
    BY <1>4 DEF ReceiveHello, Silent
  <2>2. Sound(again) /\ again.side = "responder"
    <3>1. Retransmission(a) = "CHALLENGE" /\ a.phase # "none" /\ a.phase # "established"
      BY <1>4, RetransmissionType DEF Phases
    <3>2. Sound(again)
      BY <1>2, <3>1, SoundSends
    <3>3. SameBooks(R, again)
      BY <1>2, <3>1, SendBooks
    <3> HIDE DEF again
    <3>4. QED
      BY <1>2, <3>2, <3>3 DEF SameBooks
  <2> HIDE DEF again
  <2>3. Squared(again, nonces)
    BY <2>2, RSquared
  <2>4. QED
    BY <1>2, <2>1, <2>3
<1>5. CASE ~(a.phase = "waitFinish" /\ a.ttl > 0)
  <2>1. /\ admit => nonces < MaxNonce /\ Capacity(over) > 0 /\ Contract(id).valid
        /\ Commit(NewResponder(over, id, admit))
        /\ nonces' = IF admit THEN nonces + 1 ELSE nonces
    BY <1>5 DEF ReceiveHello
  <2>2. Sound(over) /\ over.side = "responder" /\ id \notin Live(over)
    <3>1. CASE a.phase = "waitFinish"
      <4>1. TRUE \in BOOLEAN /\ {} \subseteq {id} \cap Live(R)
        OBVIOUS
      <4>2. Sound(failed)
        BY <1>2, <4>1, SoundFails
      <4>3. Loses(R, failed, {id})
        BY <1>2, <4>1, BFailsOne DEF Sound
      <4>4. over = failed
        BY <3>1
      <4> HIDE DEF failed, over
      <4>5. QED
        BY <1>2, <4>2, <4>3, <4>4 DEF Loses
    <3>2. CASE a.phase # "waitFinish"
      <4>1. over = R /\ a.phase = "none"
        BY <1>3, <3>2
      <4>2. id \notin Live(R)
        BY <4>1 DEF Live
      <4> HIDE DEF over
      <4>3. QED
        BY <1>2, <4>1, <4>2
    <3>3. QED
      BY <3>1, <3>2
  <2> HIDE DEF over
  <2>3. CASE admit
    <3> DEFINE n == NewResponder(over, id, TRUE)
    <3>1. Commit(n) /\ nonces' = nonces + 1 /\ nonces < MaxNonce /\ Capacity(over) > 0
      BY <2>1, <2>3
    <3>2. /\ Booked(n, {}) /\ n.side = over.side /\ n.closed = over.closed
          /\ \A i \in Live(n) : n.att[i].owner <= nonces + 1
      <4>1. Booked(over, {}) /\ \A i \in Live(over) : over.att[i].owner <= nonces
        BY <2>2 DEF Sound
      <4>2. QED
        BY <1>2, <2>2, <3>1, <4>1, BOpens
    <3> HIDE DEF n
    <3>3. n.dial.phase # "open"
      BY <2>2, <3>2 DEF Booked, Counted
    <3>4. ~n.closed
      BY <2>2, <3>2 DEF Sound
    <3>5. Squared(n, nonces')
      BY <2>2, <3>1, <3>2, <3>3, <3>4 DEF Squared, Balanced
    <3>6. QED
      BY <1>2, <3>1, <3>5
  <2>4. CASE ~admit
    <3> DEFINE n == Reject(over, id)
    <3>1. Commit(n) /\ nonces' = nonces
      BY <2>1, <2>4 DEF NewResponder
    <3>2. SameBooks(over, n)
      BY <1>2, <2>2, SoundFields, RejectBooks
    <3> HIDE DEF n
    <3>3. n.side = "responder"
      BY <2>2, <3>2 DEF SameBooks
    <3>4. Sound(n)
      BY <2>2, <3>2, <3>3, SoundSame
    <3>5. Squared(n, nonces)
      BY <3>3, <3>4, RSquared
    <3>6. QED
      BY <1>2, <3>1, <3>5
  <2>5. QED
    BY <2>3, <2>4
<1>6. QED
  BY <1>4, <1>5

LEMMA BFinish ==
    ASSUME HandshakeInv, BooksInv, NEW m \in msgs, NEW outcome \in Outcomes,
           ReceiveFinish(m, outcome)
    PROVE  \E n : Commit(n) /\ Squared(n, nonces) /\ Silent
<1> DEFINE a == R.att[m.id]
           done == Install(R, m.id, outcome)
           again == Send(R, m.id, "READY", FALSE)
           first == Send(done, m.id, "READY", TRUE)
           h == IF a.phase = "established" THEN again
                ELSE IF outcome = "ok" THEN first ELSE done
<1>1. m.id \in Ids
  BY InvFacts
<1>2. Expects("responder", m) /\ m.type = "FINISH" /\ Receive(R, m.id, h, 0)
  BY DEF ReceiveFinish
<1>3. a.packets /\ a.phase # "none"
  BY <1>2 DEF Expects, Authentic, R
<1>4. ~R.closed
  BY RFinish, RCommitted DEF R
<1>5. Sound(R) /\ scenario \in Scenarios /\ R \in Engines /\ R.side = "responder"
      /\ Booked(R, {}) /\ R.dial.phase # "open"
  BY <1>4, BResponder
<1>6. a.phase = "established" => Sound(again)
  <2>1. SUFFICES ASSUME a.phase = "established" PROVE Sound(again)
    OBVIOUS
  <2>2. Retransmission(a) = "READY"
    BY <2>1, RetransmissionType DEF Phases
  <2>3. QED
    BY <1>1, <1>3, <1>5, <2>2, SoundSends
<1>7. a.phase # "established" => m.id \in Waiting(R)
  BY <1>1, <1>3 DEF Waiting, Live
<1>8. a.phase # "established" /\ outcome # "ok" => Sound(done)
  <2>1. SUFFICES ASSUME m.id \in Waiting(R), outcome # "ok" PROVE Sound(done)
    BY <1>7
  <2>2. Booked(done, {}) /\ Loses(R, done, {m.id})
    BY <1>5, <2>1, BInstallFails
  <2> HIDE DEF done
  <2>3. \A id \in Live(done) : id \in Live(R) /\ id \in Ids \ {m.id}
    BY <2>2, LiveFinite DEF Loses
  <2>4. \A id \in Live(done) : done.att[id].owner <= nonces
    BY <1>5, <2>2, <2>3 DEF Sound, Loses
  <2>5. QED
    BY <1>5, <2>2, <2>4 DEF Sound, Loses
<1>9. a.phase # "established" /\ outcome = "ok" => Sound(first)
  <2>1. SUFFICES ASSUME m.id \in Waiting(R), outcome = "ok" PROVE Sound(first)
    BY <1>7
  <2> DEFINE y == Install(R, m.id, "ok")
  <2>2. done = y
    BY <2>1
  <2>3. y \in Engines /\ y.dial = R.dial /\ y.side = R.side /\ y.closed = R.closed
    BY <1>1, <1>5, InstallDone
  <2>4. Booked(y, {}) /\ Wins(R, y, m.id)
    <3>1. y.dial.phase # "open" /\ y.dial.next = R.dial.next
      BY <1>5, <2>3
    <3>2. QED
      BY <1>5, <2>1, <2>3, <3>1, BWins
  <2> HIDE DEF done, y
  <2>5. \A id \in Live(y) : y.att[id].owner <= nonces
    <3>1. \A id \in Live(y) : id \in Live(R) /\ id \in Ids
      BY <2>4, LiveFinite DEF Wins
    <3>2. QED
      BY <1>5, <2>4, <3>1 DEF Sound, Wins
  <2>6. Sound(y)
    BY <1>5, <2>3, <2>4, <2>5 DEF Sound
  <2>7. y.att[m.id].phase = "established" /\ y.att[m.id].packets
    BY <1>3, <2>4 DEF Wins
  <2>8. Retransmission(y.att[m.id]) = "READY"
    BY <2>7, RetransmissionType DEF Phases
  <2>9. Sound(Send(y, m.id, "READY", TRUE))
    BY <1>1, <1>5, <2>6, <2>7, <2>8, SoundSends
  <2>10. QED
    BY <2>2, <2>9
<1> HIDE DEF again, first, done, a
<1>10. Sound(h)
  BY <1>6, <1>8, <1>9
<1>11. Receive(engine["responder"], m.id, h, 0) /\ "responder" \in Sides /\ 0 \in Nat
       /\ ~engine["responder"].closed
  BY <1>2, <1>4 DEF R, Sides
<1> HIDE DEF h
<1>12. QED
  BY <1>1, <1>10, <1>11, BReceives

----------------------------------------------------------------------------
(* Every step keeps the books.                                             *)

LEMMA BalancedStays ==
    ASSUME scenario' = scenario, NEW side \in Sides, NEW c, engine'[side] = c, Balanced(c)
    PROVE  Balanced(engine[side])'
<1>1. /\ c \in Engines /\ OwnersApart(c) /\ Counted(c)
      /\ \A id \in Live(c) : Owns(c.att[id], c.res[c.att[id].owner])
      /\ \A o \in Owners : Unused(c, o) => IF Keeps(c, o) THEN Pledged(c.res[o]) ELSE Spent(c.res[o])
  BY DEF Balanced, Booked, Held
<1>2. Live(engine[side])' = Live(c) /\ Waiting(engine[side])' = Waiting(c)
  BY DEF Live, Waiting
<1>3. (engine[side] \in Engines)'
  <2>1. Engines' = Engines
    BY DEF Engines, Attempts
  <2>2. QED
    BY <1>1, <2>1
<1>4. OwnersApart(engine[side])'
  BY <1>1, <1>2 DEF OwnersApart
<1>5. Counted(engine[side])'
  BY <1>1, <1>2 DEF Counted, Capacity, Prepares
<1>6. ASSUME NEW id \in Live(c)
      PROVE  Owns(engine[side].att[id], engine[side].res[engine[side].att[id].owner])'
  BY <1>1 DEF Owns, Promoted, Pledged, Intact
<1>7. ASSUME NEW o \in Owners, Unused(engine[side], o)'
      PROVE  (IF Keeps(engine[side], o) THEN Pledged(engine[side].res[o])
              ELSE Spent(engine[side].res[o]))'
  <2>1. Unused(c, o)
    BY <1>2, <1>7 DEF Unused
  <2>2. IF Keeps(c, o) THEN Pledged(c.res[o]) ELSE Spent(c.res[o])
    BY <1>1, <2>1
  <2>3. Keeps(engine[side], o)' <=> Keeps(c, o)
    BY DEF Keeps, Prepares
  <2>4. Pledged(engine[side].res[o])' <=> Pledged(c.res[o])
    BY DEF Pledged, Intact
  <2>5. Spent(engine[side].res[o])' <=> Spent(c.res[o])
    BY DEF Spent
  <2>6. QED
    BY <2>2, <2>3, <2>4, <2>5
<1>8. Held(engine[side], {})'
  BY <1>2, <1>4, <1>6, <1>7 DEF Held
<1>9. Booked(engine[side], {})'
  BY <1>3, <1>5, <1>8 DEF Booked
<1>10. QED
  BY <1>2, <1>9 DEF Balanced

LEMMA BSame ==
    ASSUME NEW e, NEW n, SameBooks(e, n), Balanced(e)
    PROVE  /\ Balanced(n) /\ Live(n) = Live(e)
           /\ \A id \in Ids : n.att[id].owner = e.att[id].owner
<1>1. /\ Booked(n, {}) /\ Live(n) = Live(e) /\ Waiting(n) = Waiting(e)
      /\ \A id \in Ids : n.att[id].owner = e.att[id].owner
  BY SameBooked DEF Balanced
<1>2. QED
  BY <1>1 DEF Balanced, SameBooks

LEMMA BCommits ==
    ASSUME HandshakeInv, BooksInv, nonces' \in Nat, nonces <= nonces',
           \E n : Commit(n) /\ Squared(n, nonces')
    PROVE  BooksInv'
<1>1. PICK n : Commit(n) /\ Squared(n, nonces')
  OBVIOUS
<1> DEFINE side == n.side
           f == [n EXCEPT !.out = {}]
<1>2. n \in Engines /\ Balanced(n) /\ side \in Sides /\ TypesInv
  BY <1>1, EngineFields DEF Squared, Balanced, Booked, HandshakeInv
<1>3. /\ f \in Engines /\ f.side = side /\ f.att = n.att /\ f.dial = n.dial
      /\ f.prepared = n.prepared /\ f.closed = n.closed
      /\ engine'[side] = f /\ \A s \in Sides \ {side} : engine'[s] = engine[s]
      /\ scenario' = scenario
  BY <1>1, <1>2, CommitShape
<1>4. SameBooks(n, f)
  <2>1. f.pending = n.pending /\ f.res = n.res
    BY <1>2 DEF Engines
  <2> HIDE DEF f
  <2>2. QED
    BY <1>3, <2>1 DEF SameBooks, Alike
<1> HIDE DEF f
<1>5. Balanced(f) /\ Live(f) = Live(n)
  BY <1>2, <1>4, BSame
<1>6. ASSUME NEW s \in Sides PROVE Balanced(engine[s])'
  <2>1. CASE s = side
    BY <1>3, <1>5, <2>1, BalancedStays
  <2>2. CASE s # side
    <3>1. PICK c : c = engine[s]
      OBVIOUS
    <3>2. engine'[s] = c /\ Balanced(c)
      BY <1>3, <2>2, <3>1 DEF BooksInv
    <3>3. QED
      BY <1>3, <3>2, BalancedStays
  <2>3. QED
    BY <2>1, <2>2
<1>7. ASSUME NEW id \in Live(R)' PROVE R'.att[id].owner <= nonces'
  <2>1. CASE side = "responder"
    <3>1. R' = f
      BY <1>3, <2>1 DEF R
    <3>2. id \in Live(n)
      BY <1>5, <3>1 DEF Live
    <3>3. QED
      BY <1>1, <1>3, <2>1, <3>1, <3>2 DEF Squared
  <2>2. CASE side # "responder"
    <3>1. R' = R
      BY <1>3, <2>2 DEF R, Sides
    <3>2. id \in Live(R) /\ R.att[id].owner <= nonces
      BY <3>1 DEF Live, BooksInv
    <3>3. R.att[id].owner \in Nat /\ nonces \in Nat
      <4>1. R \in Engines /\ id \in Ids /\ scenario \in Scenarios
        BY <3>2, InvFacts DEF Live
      <4>2. R.att[id].owner \in Owners
        BY <4>1, EngineFields, AttemptFields
      <4>3. QED
        <5>1. nonces \in 0..MaxNonce
          BY InvFacts
        <5>2. nonces \in Nat
          BY <5>1
        <5>3. R.att[id].owner \in Nat
          BY <4>2, OwnersNat, Zenon
        <5>4. QED
          BY <5>2, <5>3
    <3>4. QED
      BY <3>1, <3>2, <3>3
  <2>3. QED
    BY <2>1, <2>2
<1>8. QED
  BY <1>6, <1>7 DEF BooksInv

LEMMA BSilent ==
    ASSUME HandshakeInv, BooksInv, \E n : Commit(n) /\ Squared(n, nonces), Silent
    PROVE  BooksInv'
<1>1. nonces' = nonces /\ nonces \in Nat
  BY InvFacts, LimitsAssumption DEF Silent
<1>2. \E n : Commit(n) /\ Squared(n, nonces')
  BY <1>1
<1>3. QED
  BY <1>1, <1>2, BCommits

\* Steps that leave the books of both engines alone.
LEMMA BQuiet ==
    ASSUME HandshakeInv, BooksInv, scenario' = scenario, nonces' = nonces,
           \A side \in Sides : SameBooks(engine[side], engine'[side])
    PROVE  BooksInv'
<1>1. ASSUME NEW side \in Sides
      PROVE  /\ Balanced(engine[side])' /\ Live(engine[side])' = Live(engine[side])
             /\ \A id \in Ids : engine'[side].att[id].owner = engine[side].att[id].owner
  <2>1. PICK c : c = engine'[side]
    OBVIOUS
  <2>2. SameBooks(engine[side], c) /\ Balanced(engine[side])
    BY <2>1 DEF BooksInv
  <2>3. /\ Balanced(c) /\ Live(c) = Live(engine[side])
        /\ \A id \in Ids : c.att[id].owner = engine[side].att[id].owner
    BY <2>2, BSame
  <2>4. Balanced(engine[side])'
    BY <2>1, <2>3, BalancedStays
  <2>5. Live(engine[side])' = Live(c)
    BY <2>1 DEF Live
  <2>6. QED
    BY <2>1, <2>3, <2>4, <2>5
<1>2. "responder" \in Sides
  BY DEF Sides
<1>3. Live(R)' = Live(R) /\ \A id \in Ids : R'.att[id].owner = R.att[id].owner
  BY <1>1, <1>2 DEF R
<1>4. Live(R) \subseteq Ids
  BY LiveFinite
<1>5. \A id \in Live(R)' : R'.att[id].owner <= nonces'
  BY <1>3, <1>4 DEF BooksInv
<1>6. QED
  BY <1>1, <1>5 DEF BooksInv

\* Storage that is released late was given up before.
LEMMA BStorage ==
    ASSUME HandshakeInv, BooksInv, NEW side \in Sides, NEW o \in Owners, ReleaseStorage(side, o)
    PROVE  BooksInv'
<1> DEFINE e == engine[side]
           r == [e.res[o] EXCEPT !.storage = "released"]
           res == [e.res EXCEPT ![o] = r]
           f == [e EXCEPT !.res = res]
<1>1. /\ engine \in [Sides -> Engines] /\ e \in Engines
      /\ e.res \in [Owners -> Holdings] /\ e.res[o] \in Holdings
  BY EngineFields DEF HandshakeInv, TypesInv
<1>2. /\ engine' = [engine EXCEPT ![side].res[o].storage = "released"]
      /\ e.res[o].storage = "retiring"
      /\ UNCHANGED <<scenario, nonces>>
  BY DEF ReleaseStorage
<1>3. engine' = [engine EXCEPT ![side] = f]
  BY <1>1, <1>2 DEF r, Engines, Holdings
<1>4. Balanced(e)
  BY DEF BooksInv
<1>5. Unused(e, o) /\ Spent(e.res[o])
  <2>1. /\ \A id \in Live(e) : Owns(e.att[id], e.res[e.att[id].owner])
        /\ Unused(e, o) => IF Keeps(e, o) THEN Pledged(e.res[o]) ELSE Spent(e.res[o])
    BY <1>4 DEF Balanced, Booked, Held
  <2>2. Unused(e, o)
    BY <1>2, <2>1 DEF Unused, Owns, Promoted, Pledged, Intact
  <2>3. ~Pledged(e.res[o])
    BY <1>2 DEF Pledged, Intact
  <2>4. QED
    BY <2>1, <2>2, <2>3
<1>6. Spent(r) /\ r \in Holdings
  <2>1. /\ r.storage = "released" /\ r.scope = e.res[o].scope /\ r.packet = e.res[o].packet
        /\ r.called = e.res[o].called /\ r.given = e.res[o].given /\ r \in Holdings
    BY <1>1 DEF Holdings
  <2> HIDE DEF r
  <2>2. QED
    BY <1>2, <1>5, <2>1 DEF Spent
<1> HIDE DEF r
<1>7. res \in [Owners -> Holdings] /\ res[o] = r /\ \A p \in Owners : p # o => res[p] = e.res[p]
  BY <1>1, <1>6
<1> HIDE DEF res
<1>8. /\ f \in Engines /\ f.res = res /\ f.att = e.att /\ f.dial = e.dial /\ f.side = e.side
      /\ f.closed = e.closed /\ f.pending = e.pending /\ f.prepared = e.prepared
  BY <1>1, <1>7 DEF Engines
<1> HIDE DEF f
<1>9. Live(f) = Live(e) /\ Waiting(f) = Waiting(e)
  BY <1>8 DEF Live, Waiting
<1>10. OwnersApart(f) /\ Counted(f)
  <2>1. OwnersApart(e) /\ Counted(e)
    BY <1>4 DEF Balanced, Booked, Held
  <2>2. OwnersApart(f)
    BY <1>8, <1>9, <2>1 DEF OwnersApart
  <2>3. Counted(f)
    BY <1>8, <1>9, <2>1 DEF Counted, Capacity, Prepares
  <2>4. QED
    BY <2>2, <2>3
<1>11. ASSUME NEW id \in Live(f) PROVE Owns(f.att[id], f.res[f.att[id].owner])
  <2>1. id \in Live(e) /\ id \in Ids
    BY <1>9, LiveFinite
  <2>2. e.att[id].owner \in Owners /\ e.att[id].owner # o
    <3>1. e.att[id].owner \in Owners
      BY <1>1, <2>1, EngineFields, AttemptFields, InvFacts
    <3>2. QED
      BY <1>5, <2>1, <3>1 DEF Unused
  <2>3. Owns(e.att[id], e.res[e.att[id].owner])
    BY <1>4, <2>1 DEF Balanced, Booked, Held
  <2>4. QED
    BY <1>7, <1>8, <2>2, <2>3
<1>12. ASSUME NEW p \in Owners, Unused(f, p)
       PROVE  IF Keeps(f, p) THEN Pledged(f.res[p]) ELSE Spent(f.res[p])
  <2>1. Unused(e, p) /\ (Keeps(f, p) <=> Keeps(e, p))
    BY <1>8, <1>9, <1>12 DEF Unused, Keeps, Prepares
  <2>2. IF Keeps(e, p) THEN Pledged(e.res[p]) ELSE Spent(e.res[p])
    BY <1>4, <2>1 DEF Balanced, Booked, Held
  <2>3. CASE p # o
    BY <1>7, <1>8, <2>1, <2>2, <2>3
  <2>4. CASE p = o
    <3>1. ~Pledged(e.res[o])
      BY <1>2 DEF Pledged, Intact
    <3>2. ~Keeps(f, p)
      BY <2>1, <2>2, <2>4, <3>1
    <3>3. QED
      BY <1>6, <1>7, <1>8, <2>4, <3>2
  <2>5. QED
    BY <2>3, <2>4
<1>13. Balanced(f)
  <2>1. Booked(f, {})
    BY <1>8, <1>10, <1>11, <1>12 DEF Booked, Held
  <2>2. QED
    BY <1>4, <1>8, <1>9, <2>1 DEF Balanced
<1>14. ASSUME NEW s \in Sides
       PROVE  Balanced(engine[s])' /\ engine'[s].att = engine[s].att
  <2>1. PICK c : c = engine'[s]
    OBVIOUS
  <2>2. Balanced(c) /\ c.att = engine[s].att
    <3>1. CASE s = side
      <4>1. c = f
        BY <1>1, <1>3, <2>1, <3>1
      <4>2. QED
        BY <1>8, <1>13, <3>1, <4>1
    <3>2. CASE s # side
      <4>1. c = engine[s]
        BY <1>1, <1>3, <2>1, <3>2
      <4>2. QED
        BY <4>1 DEF BooksInv
    <3>3. QED
      BY <3>1, <3>2
  <2>3. Balanced(engine[s])'
    BY <1>2, <2>1, <2>2, BalancedStays
  <2>4. QED
    BY <2>1, <2>2, <2>3
<1>15. R'.att = R.att
  BY <1>14 DEF R, Sides
<1>16. \A id \in Live(R)' : R'.att[id].owner <= nonces'
  BY <1>2, <1>15 DEF Live, BooksInv
<1>17. QED
  BY <1>14, <1>16 DEF BooksInv

LEMMA NewEngineBooks ==
    ASSUME scenario \in Scenarios, NEW side \in Sides
    PROVE  Balanced(NewEngine(side)) /\ Live(NewEngine(side)) = {}
<1> DEFINE e == NewEngine(side)
<1>1. /\ e \in Engines /\ e.side = side /\ ~e.closed
      /\ e.prepared = "none" /\ e.dial.phase = "none"
      /\ \A id \in Ids : e.att[id] = NoAttempt
  BY NewEngineShape
<1>2. e.pending = 0 /\ \A o \in Owners : e.res[o] = Nothing
  BY DEF NewEngine
<1> HIDE DEF e
<1>3. Live(e) = {} /\ Waiting(e) = {}
  BY <1>1 DEF Live, Waiting, NoAttempt
<1>4. Spent(Nothing)
  BY DEF Spent, Nothing
<1>5. Held(e, {})
  <2>1. OwnersApart(e)
    BY <1>3 DEF OwnersApart
  <2>2. \A o : ~Keeps(e, o)
    BY <1>1 DEF Keeps
  <2>3. QED
    BY <1>2, <1>3, <1>4, <2>1, <2>2 DEF Held
<1>6. Counted(e)
  <2>1. Cardinality({}) = 0
    BY FS_EmptySet
  <2>2. QED
    BY <1>1, <1>2, <1>3, <2>1, LimitsAssumption DEF Counted, Capacity
<1>7. Balanced(e)
  BY <1>1, <1>3, <1>5, <1>6 DEF Balanced, Booked
<1>8. QED
  BY <1>3, <1>7 DEF e

LEMMA BInit ==
    ASSUME Init
    PROVE  BooksInv
<1>1. scenario \in Scenarios /\ \A side \in Sides : engine[side] = NewEngine(side)
  BY DEF Init
<1>2. \A side \in Sides : Balanced(engine[side]) /\ Live(engine[side]) = {}
  BY <1>1, NewEngineBooks
<1>3. Live(R) = {}
  BY <1>2 DEF R, Sides
<1>4. QED
  BY <1>2, <1>3 DEF BooksInv

LEMMA BRestart ==
    ASSUME HandshakeInv, BooksInv, Restart
    PROVE  BooksInv'
<1> DEFINE e == NewEngine("responder")
<1>1. /\ engine' = [engine EXCEPT !["responder"] = e] /\ UNCHANGED <<scenario, nonces>>
  BY DEF Restart
<1>2. "responder" \in Sides /\ engine \in [Sides -> Engines] /\ scenario \in Scenarios
  BY DEF HandshakeInv, TypesInv, Sides
<1>3. Balanced(e) /\ Live(e) = {}
  BY <1>2, NewEngineBooks
<1> HIDE DEF e
<1>4. ASSUME NEW s \in Sides PROVE Balanced(engine[s])'
  <2>1. PICK c : c = engine'[s]
    OBVIOUS
  <2>2. Balanced(c)
    BY <1>1, <1>2, <1>3, <2>1 DEF BooksInv
  <2>3. QED
    BY <1>1, <2>1, <2>2, BalancedStays
<1>5. R' = e
  BY <1>1, <1>2 DEF R
<1>6. Live(R)' = {}
  BY <1>3, <1>5 DEF Live
<1>7. QED
  BY <1>4, <1>6 DEF BooksInv

LEMMA AgeBooks ==
    ASSUME scenario \in Scenarios, NEW e \in Engines
    PROVE  SameBooks(e, Age(e))
<1> DEFINE n == Age(e)
           att == [id \in Ids |-> AgeAttempt(e.att[id])]
           t == Earlier(e.dial.ttl)
           dial == [e.dial EXCEPT !.ttl = t]
           rejections == [id \in DOMAIN e.rejections |-> Earlier(e.rejections[id])]
<1>1. /\ n \in Engines /\ n.side = e.side /\ n.prepared = e.prepared /\ n.closed = e.closed
      /\ n.dial.phase = e.dial.phase /\ n.dial.next = e.dial.next
  BY AgeShape
<1>2. ASSUME NEW a \in Attempts PROVE Alike(a, AgeAttempt(a))
  BY DEF AgeAttempt, Alike, Attempts
<1>3. \A id \in Ids : Alike(e.att[id], att[id])
  BY <1>2, EngineFields
<1>4. dial.running = e.dial.running
  BY EngineFields DEF Dials
<1>5. n = [e EXCEPT !.att = att, !.dial = dial, !.rejections = rejections]
  BY EngineFields DEF Age, Engines, Dials
<1> HIDE DEF n, att, dial, rejections
<1>6. n.att = att /\ n.dial = dial /\ n.res = e.res /\ n.pending = e.pending
  BY <1>5 DEF Engines
<1>7. SameBooks(e, n)
  BY <1>1, <1>3, <1>4, <1>6 DEF SameBooks
<1>8. QED
  BY <1>7 DEF n

LEMMA BTick ==
    ASSUME HandshakeInv, BooksInv, Tick
    PROVE  BooksInv'
<1>1. engine' = [side \in Sides |-> Age(engine[side])] /\ scenario' = scenario /\ nonces' = nonces
  BY DEF Tick
<1>2. scenario \in Scenarios /\ \A side \in Sides : engine[side] \in Engines
  BY DEF HandshakeInv, TypesInv
<1>3. \A side \in Sides : SameBooks(engine[side], engine'[side])
  BY <1>1, <1>2, AgeBooks
<1>4. QED
  BY <1>1, <1>3, BQuiet

LEMMA BInitiatorStep ==
    ASSUME HandshakeInv, BooksInv, NEW k \in Nat,
           \/ BeginDial(k) \/ BeginPreparedDial(k)
           \/ PrepareDial \/ AbortPreparedDial \/ CancelDial
           \/ \E m \in msgs : ReceiveChallenge(m, k) \/ ReceiveReject(m, k)
           \/ \E m \in msgs, o \in Outcomes : ReceiveReady(m, o, k)
           \/ \E m \in msgs : ReceiveClose(m, "initiator", k)
           \/ Advance("initiator", k)
           \/ \E id \in Ids : CloseSession("initiator", id, k)
    PROVE  BooksInv'
<1> DEFINE Done == \E n : Commit(n) /\ Squared(n, nonces) /\ Silent
<1>1. "initiator" \in Sides
  BY DEF Sides
<1>2. Done => BooksInv'
  BY BSilent
<1>3. ASSUME NEW id, NEW notify \in BOOLEAN, Silent,
             Commit(FillDials(FailAttempt(I, id, notify), k))
      PROVE  Done
  <2>1. ~engine["initiator"].closed
    BY <1>3, IEnds, ICommitted
  <2>2. Commit(FillDials(FailAttempt(engine["initiator"], id, notify), k))
    BY <1>3 DEF I
  <2>3. QED
    BY <1>1, <1>3, <2>1, <2>2, BEnds
<1>4. CASE BeginDial(k) \/ BeginPreparedDial(k)
  BY <1>2, <1>4, BDials
<1>5. CASE PrepareDial \/ AbortPreparedDial \/ CancelDial
  BY <1>2, <1>5, BPrepare, BAbort, BCancels
<1>6. CASE \E m \in msgs : ReceiveChallenge(m, k) \/ ReceiveReject(m, k)
  BY <1>2, <1>6, BChallenge, BRejected
<1>7. CASE \E m \in msgs, o \in Outcomes : ReceiveReady(m, o, k)
  BY <1>2, <1>7, BReady
<1>8. ASSUME NEW m \in msgs, ReceiveClose(m, "initiator", k) PROVE BooksInv'
  <2>1. Commit(FillDials(FailAttempt(I, m.id, FALSE), k)) /\ Silent /\ FALSE \in BOOLEAN
    BY <1>8 DEF ReceiveClose, I
  <2>2. QED
    BY <1>2, <1>3, <2>1
<1>9. CASE Advance("initiator", k)
  <2>1. ~engine["initiator"].closed
    BY <1>9, IAdvances, ICommitted
  <2>2. QED
    BY <1>1, <1>2, <1>9, <2>1, BAdvances
<1>10. ASSUME NEW id \in Ids, CloseSession("initiator", id, k) PROVE BooksInv'
  <2>1. Commit(FillDials(FailAttempt(I, id, TRUE), k)) /\ Silent /\ TRUE \in BOOLEAN
    BY <1>10 DEF CloseSession, I
  <2>2. QED
    BY <1>2, <1>3, <2>1
<1>11. QED
  BY <1>4, <1>5, <1>6, <1>7, <1>8, <1>9, <1>10

LEMMA BResponderStep ==
    ASSUME HandshakeInv, BooksInv, NEW k \in Nat,
           \/ \E id \in Ids, admit \in BOOLEAN : ReceiveHello(id, admit)
           \/ \E m \in msgs, o \in Outcomes : ReceiveFinish(m, o)
           \/ \E m \in msgs : ReceiveClose(m, "responder", k)
           \/ Advance("responder", k)
           \/ \E id \in Ids : CloseSession("responder", id, k)
    PROVE  BooksInv'
<1> DEFINE Done == \E n : Commit(n) /\ Squared(n, nonces) /\ Silent
<1>1. "responder" \in Sides
  BY DEF Sides
<1>2. Done => BooksInv'
  BY BSilent
<1>3. ASSUME NEW id, NEW notify \in BOOLEAN, Silent,
             Commit(FillDials(FailAttempt(R, id, notify), k))
      PROVE  Done
  <2>1. ~engine["responder"].closed
    BY <1>3, REnds, RCommitted
  <2>2. Commit(FillDials(FailAttempt(engine["responder"], id, notify), k))
    BY <1>3 DEF R
  <2>3. QED
    BY <1>1, <1>3, <2>1, <2>2, BEnds
<1>4. ASSUME NEW id \in Ids, NEW admit \in BOOLEAN, ReceiveHello(id, admit) PROVE BooksInv'
  <2>1. (\E n : Commit(n) /\ Squared(n, nonces')) /\ nonces <= nonces'
    BY <1>4, BHello
  <2>2. nonces' \in 0..MaxNonce
    BY <1>4, RHello
  <2>3. nonces' \in Nat
    BY <2>2, LimitsAssumption
  <2>4. QED
    BY <2>1, <2>3, BCommits
<1>5. CASE \E m \in msgs, o \in Outcomes : ReceiveFinish(m, o)
  BY <1>2, <1>5, BFinish
<1>6. ASSUME NEW m \in msgs, ReceiveClose(m, "responder", k) PROVE BooksInv'
  <2>1. Commit(FillDials(FailAttempt(R, m.id, FALSE), k)) /\ Silent /\ FALSE \in BOOLEAN
    BY <1>6 DEF ReceiveClose, R
  <2>2. QED
    BY <1>2, <1>3, <2>1
<1>7. CASE Advance("responder", k)
  <2>1. ~engine["responder"].closed
    BY <1>7, RAdvances, RCommitted
  <2>2. QED
    BY <1>1, <1>2, <1>7, <2>1, BAdvances
<1>8. ASSUME NEW id \in Ids, CloseSession("responder", id, k) PROVE BooksInv'
  <2>1. Commit(FillDials(FailAttempt(R, id, TRUE), k)) /\ Silent /\ TRUE \in BOOLEAN
    BY <1>8 DEF CloseSession, R
  <2>2. QED
    BY <1>2, <1>3, <2>1
<1>9. QED
  BY <1>4, <1>5, <1>6, <1>7, <1>8

LEMMA BooksStep ==
    ASSUME HandshakeInv, BooksInv, [Next]_vars
    PROVE  BooksInv'
<1>0. 0 \in Nat
  OBVIOUS
<1>1. ASSUME NEW k \in Starts("initiator"), BeginDial(k) \/ BeginPreparedDial(k)
      PROVE  BooksInv'
  BY <1>1, StartsNat, BInitiatorStep
<1>2. CASE PrepareDial \/ AbortPreparedDial \/ CancelDial
  BY <1>0, <1>2, BInitiatorStep
<1>3. CASE \E id \in Ids, admit \in BOOLEAN : ReceiveHello(id, admit)
  BY <1>0, <1>3, BResponderStep
<1>4. ASSUME NEW m \in msgs, NEW k \in Starts("initiator"),
             ReceiveChallenge(m, k) \/ ReceiveReject(m, k)
      PROVE  BooksInv'
  BY <1>4, StartsNat, BInitiatorStep
<1>5. CASE \E m \in msgs, o \in Outcomes : ReceiveFinish(m, o)
  BY <1>0, <1>5, BResponderStep
<1>6. ASSUME NEW m \in msgs, NEW o \in Outcomes, NEW k \in Starts("initiator"),
             ReceiveReady(m, o, k)
      PROVE  BooksInv'
  BY <1>6, StartsNat, BInitiatorStep
<1>7. ASSUME NEW side \in Sides, NEW k \in Starts(side),
             \/ \E m \in msgs : ReceiveClose(m, side, k)
             \/ Advance(side, k)
             \/ \E id \in Ids : CloseSession(side, id, k)
      PROVE  BooksInv'
  <2>1. CASE side = "initiator"
    BY <1>7, <2>1, StartsNat, BInitiatorStep
  <2>2. CASE side = "responder"
    BY <1>7, <2>2, StartsNat, BResponderStep
  <2>3. QED
    BY <2>1, <2>2 DEF Sides
<1>8. ASSUME NEW side \in Sides, CloseEngine(side) PROVE BooksInv'
  BY <1>8, BCloses, BSilent
<1>9. CASE \E side \in Sides, o \in Owners : ReleaseStorage(side, o)
  BY <1>9, BStorage
<1>10. CASE Restart \/ Tick
  BY <1>10, BRestart, BTick
<1>11. CASE UNCHANGED vars
  <2>1. scenario' = scenario /\ nonces' = nonces /\ engine' = engine
    BY <1>11 DEF vars
  <2>2. \A side \in Sides : engine[side] \in Engines
    BY DEF HandshakeInv, TypesInv
  <2>3. \A side \in Sides : SameBooks(engine[side], engine'[side])
    BY <2>1, <2>2 DEF SameBooks, Alike
  <2>4. QED
    BY <2>1, <2>3, BQuiet
<1>12. QED
  BY <1>1, <1>2, <1>3, <1>4, <1>5, <1>6, <1>7, <1>8, <1>9, <1>10, <1>11 DEF Next

\* Every engine's books are in order between two calls, whatever the network does
\* and whichever installers fail: the invariant that keeps ResourcesOwned.
THEOREM BooksInvariant == Spec => []BooksInv
<1>1. Init => BooksInv
  BY BInit
<1>2. HandshakeInv /\ BooksInv /\ [Next]_vars => BooksInv'
  BY BooksStep
<1>3. QED
  BY <1>1, <1>2, HandshakeInvariant, PTL DEF Spec

----------------------------------------------------------------------------
(* What the books say.                                                     *)

LEMMA HeldOwned ==
    ASSUME HandshakeInv, BooksInv, NEW side \in Sides, NEW o \in Owners
    PROVE  LET e == engine[side]
               r == e.res[o]
               users == {id \in Live(e) : e.att[id].owner = o}
               preparation == o = 0 /\ side = "initiator" /\ e.prepared = "waiting"
           IN  /\ Cardinality(users) <= 1
               /\ r.storage = "held" <=> users # {} \/ preparation
               /\ r.storage = "held" <=> r.scope \in {"pending", "open"}
               /\ \A id \in users :
                    r.scope = IF e.att[id].phase = "established" THEN "open" ELSE "pending"
               /\ r.packet <=> preparation \/ \E id \in users : e.att[id].packets
               /\ r.storage = "held" => r.called = 0 /\ r.disposer = r.given
               /\ r.storage \in {"retiring", "released"} => r.called = IF r.given THEN 1 ELSE 0
<1> DEFINE e == engine[side]
           r == e.res[o]
           users == {id \in Live(e) : e.att[id].owner = o}
           preparation == o = 0 /\ side = "initiator" /\ e.prepared = "waiting"
<1>1. /\ scenario \in Scenarios /\ e \in Engines /\ e.side = side /\ Balanced(e)
      /\ OwnersApart(e) /\ Counted(e)
      /\ \A id \in Live(e) : Owns(e.att[id], e.res[e.att[id].owner])
      /\ Unused(e, o) => IF Keeps(e, o) THEN Pledged(r) ELSE Spent(r)
  BY BooksFacts DEF Booked, Held
<1>2. r \in Holdings
  BY <1>1, EngineFields
<1>3. r.packet \in BOOLEAN /\ r.given \in BOOLEAN /\ r.disposer \in BOOLEAN /\ r.called \in Nat
  BY <1>2 DEF Holdings
<1>4. Unused(e, o) <=> users = {}
  BY DEF Unused
<1>5. preparation => Live(e) = {} /\ Keeps(e, o)
  BY <1>1 DEF Counted, Keeps
<1>6. Keeps(e, o) /\ users = {} => preparation
  <2>1. SUFFICES ASSUME o = 0, Prepares(e), e.prepared # "waiting", e.dial.phase = "open"
                 PROVE  users # {}
    BY <1>1 DEF Keeps, Prepares
  <2>2. PICK id \in Live(e) : TRUE
    BY <1>1, <2>1, LiveFinite DEF Balanced
  <2>3. e.att[id].owner = 0
    BY <1>1, <2>1 DEF OwnersApart, Prepares
  <2>4. QED
    BY <2>1, <2>2, <2>3
<1>7. ASSUME NEW id \in users
      PROVE  /\ users = {id} /\ Owns(e.att[id], r) /\ ~preparation
             /\ e.att[id].packets \in BOOLEAN
  <2>1. id \in Live(e) /\ e.att[id].owner = o /\ id \in Ids
    BY LiveFinite
  <2>2. \A i, j \in Live(e) : e.att[i].owner = e.att[j].owner => i = j
    BY <1>1 DEF OwnersApart
  <2>3. users = {id}
    BY <2>1, <2>2
  <2>4. e.att[id].packets \in BOOLEAN
    BY <1>1, <2>1, EngineFields, AttemptFields
  <2>5. ~preparation
    BY <1>5, <2>1
  <2>6. Owns(e.att[id], r)
    BY <1>1, <2>1
  <2>7. QED
    BY <2>3, <2>4, <2>5, <2>6
<1> HIDE DEF e, r, users, preparation
<1>8. CASE users = {}
  <2>1. Cardinality(users) <= 1
    BY <1>8, FS_EmptySet
  <2>2. CASE preparation
    <3>1. Pledged(r)
      BY <1>1, <1>4, <1>5, <1>8, <2>2
    <3>2. QED
      BY <1>3, <1>8, <2>1, <2>2, <3>1 DEF e, r, users, preparation, Pledged, Intact
  <2>3. CASE ~preparation
    <3>1. Spent(r)
      BY <1>1, <1>4, <1>6, <1>8, <2>3
    <3>2. QED
      BY <1>3, <1>8, <2>1, <2>3, <3>1 DEF e, r, users, preparation, Spent
  <2>4. QED
    BY <2>2, <2>3
<1>9. CASE users # {}
  <2>1. PICK id : id \in users
    BY <1>9
  <2>2. /\ users = {id} /\ Owns(e.att[id], r) /\ ~preparation
        /\ e.att[id].packets \in BOOLEAN
    BY <1>7, <2>1
  <2>3. Cardinality(users) <= 1
    BY <2>2, FS_Singleton
  <2>4. /\ r.storage = "held" /\ r.called = 0 /\ r.disposer = r.given
        /\ r.scope = (IF e.att[id].phase = "established" THEN "open" ELSE "pending")
        /\ r.packet <=> e.att[id].packets
    BY <1>3, <2>2 DEF Owns, Promoted, Pledged, Intact
  <2>5. QED
    BY <1>3, <2>2, <2>3, <2>4 DEF e, r, users, preparation
<1>10. QED
  BY <1>8, <1>9

LEMMA BooksOwned ==
    ASSUME HandshakeInv, BooksInv
    PROVE  ResourcesOwned
<1>1. TypeOK
  BY EngineFields DEF HandshakeInv, TypesInv, TypeOK
<1>2. ASSUME NEW side \in Sides
      PROVE  LET e == engine[side]
                 waiting == {id \in Live(e) : e.att[id].phase # "established"}
             IN  /\ e.pending = Cardinality(waiting) /\ Capacity(e) >= 0
                 /\ e.dial.phase = "open" =>
                        /\ e.dial.running = Cardinality(waiting) /\ waiting # {}
                        /\ Live(e) = waiting
                 /\ side = "initiator" /\ e.dial.phase # "open" => waiting = {}
                 /\ e.closed => Live(e) = {}
  <2>1. Balanced(engine[side]) /\ Counted(engine[side]) /\ engine[side].side = side
    BY BooksFacts DEF Booked
  <2>2. QED
    BY <2>1 DEF Balanced, Counted, Waiting
<1>3. BooksExact
  BY <1>1, <1>2 DEF BooksExact
<1>4. QED
  BY <1>3, HeldOwned DEF ResourcesOwned

\* Every reservation of every engine has exactly one owner and is given back once,
\* and the counters of the engine are exact: a promoted scope never serves two
\* attempts, a failed installer's disposer runs once, an attempt that ends by
\* CLOSE, REJECT, expiry, a lost race, cancellation or Engine.Close leaves nothing
\* reserved, for any carriers, limits and scenarios.
THEOREM ReservationsOwned == Spec => []ResourcesOwned
<1>1. HandshakeInv /\ BooksInv => ResourcesOwned
  BY BooksOwned
<1>2. QED
  BY <1>1, HandshakeInvariant, BooksInvariant, PTL

=============================================================================
