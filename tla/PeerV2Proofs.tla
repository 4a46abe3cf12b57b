---------------------------- MODULE PeerV2Proofs ----------------------------
(***************************************************************************)
(* Theorems about PeerV2: for any Sessions, carriers, queue limits and     *)
(* callers, closing is complete, no Session is stranded and no wake-up is  *)
(* lost.                                                                   *)
(*                                                                         *)
(* Every operation changes Sessions each on its own, so most of the        *)
(* invariant is about one record (Sound, Awake), and most lemmas say that  *)
(* an operation takes a good record to a good one without adding to what   *)
(* the rest of the Peer has to know of it (Tame).  What relates Sessions   *)
(* to the Listener, the Peer, the Accept queue and the dispatcher follows. *)
(***************************************************************************)
EXTENDS PeerV2, FiniteSetTheorems, TLAPS

----------------------------------------------------------------------------
(* The invariant.                                                          *)

\* Nothing is held for a closed Session.
Empty(x) ==
    /\ ~x.established /\ ~x.dialing /\ x.turn = 0
    /\ x.phase = "none" /\ x.routes = {}
    /\ x.delivery = 0 /\ x.paths = {}

\* The carrier that the constructor has opened and not registered yet.
Unregistered(x) == IF x.new = "opened" THEN {x.next} ELSE {}

\* Only a dial that was handed over has an attempt, and until it is established
\* or closed it has one.
Dials(x) ==
    /\ x.made <=> x.new # "idle"
    /\ x.new = "opened" => x.next \in Carriers
    /\ x.phase = "pending" => x.made /\ ~x.closed /\ ~x.controller /\ x.carrier \in x.routes
                              /\ x.dialing /\ x.new \in {"waking", "done"}
    /\ x.phase = "established" => x.controller
    /\ x.controller => x.new \in {"waking", "done"}
Underway(x) ==
    x.made /\ ~x.closed /\ ~x.controller /\ x.new \in {"waking", "done"} => x.phase = "pending"

\* An inbound Session exists from its installation, and waits for Accept at most
\* while it is established.
Answers(x) ==
    /\ x.new = "idle" /\ x.carrier = 0 /\ x.open = {} /\ x.paths = {}
    /\ x.made <=> x.controller
    /\ x.accepted => x.made
    /\ x.phase = "pending" => ~x.made
    /\ x.phase = "established" => x.made
    /\ x.turn # 0 => x.phase = "established" /\ ~x.accepted

Coherent(s, x) ==
    /\ x.completed <= x.admitted
    /\ x.closed => x.made /\ x.cancelled /\ Empty(x)
    /\ ~x.made => ~x.controller /\ x.paths = {}
    /\ x.open \subseteq x.paths \cup Unregistered(x)
    /\ x.routes \subseteq {x.carrier} /\ (x.routes # {} => x.phase # "none")
    /\ s \in Outbound => Dials(x)
    /\ s \in Inbound => Answers(x)
Sound(s, x) == Coherent(s, x) /\ (s \in Outbound => Underway(x))

\* Nobody sleeps on what has happened; over: the parent of the context is done.
Awake(x, over) ==
    /\ x.fence = "asleep" => x.completed < x.frontier \/ x.cancelled \/ over
    /\ x.read = "asleep" => x.delivery = 0 \/ x.cancelled \/ over

Good(s, x, over) == x \in Session /\ Sound(s, x) /\ Awake(x, over)

\* Closing the Listener leaves no inbound Session, and the Peer's Close nothing.
ListenerInv ==
    listener.closed => listener.cancelled /\ \A s \in Inbound : sessions[s].made => sessions[s].closed

ClosingInv ==
    /\ calls.closePeer \in {"idle", "cancelled", "joining", "done"}
    /\ calls.closePeer # "idle" => peer.cancelled
    /\ calls.closePeer \in {"joining", "done"} <=> peer.closed
    /\ peer.closed => listener.closed
    /\ peer.closed => \A s \in Sessions : /\ sessions[s].made => sessions[s].closed
                                          /\ sessions[s].phase = "none" /\ sessions[s].routes = {}
    /\ calls.closePeer = "done" => driver = "stopped" /\ \A s \in Outbound : ~Constructing(s)

\* A place on the Accept queue is reserved from the HELLO on, so it is there when
\* the Session is offered.
Installed == {s \in Inbound : sessions[s].controller}
AcceptInv ==
    /\ IsFiniteSet(Installed)
    /\ IsFiniteSet(Reserved) /\ Cardinality(Reserved) <= MaxPendingAccepts
    /\ ~overflow
    /\ calls.accept = "asleep" => Queue = {} \/ ListenerDone

\* The dispatcher sleeps without a timer only if there is no deadline or somebody
\* is about to wake it.
Waking(x) == "waking" \in {x.new, x.fence, x.read}
DeadlineInv ==
    driver = "select" /\ ~armed /\ HasDeadline => wake \/ \E s \in Sessions : Waking(sessions[s])

GoodSessions == \A s \in Sessions : Good(s, sessions[s], ParentDone(s))

PeerInv == TypeOK /\ GoodSessions /\ ListenerInv /\ ClosingInv /\ AcceptInv /\ DeadlineInv

----------------------------------------------------------------------------
(* Operations on one Session.                                              *)

\* What an operation that ends things or works them off does not do: it opens
\* nothing, installs nothing, starts no attempt and takes no caller further than
\* its channel wakes it.
Roused(p, q) == q = p \/ (p = "asleep" /\ q = "check")
Tame(x, y) ==
    /\ x.closed => y.closed
    /\ y.made => x.made
    /\ y.phase # "none" => y.phase = x.phase
    /\ y.accepted = x.accepted
    /\ y.controller => x.controller
    /\ y.turn # 0 => x.turn # 0
    /\ Work(y) => Work(x)
    /\ y.new = x.new /\ Roused(x.fence, y.fence) /\ Roused(x.read, y.read)

\* The part of this that concerns the Listener, the Accept queue and the Peer's
\* Close, and the part that concerns the dispatcher's timer.
Calm(x, y) ==
    /\ x.closed => y.closed
    /\ y.made => x.made
    /\ y.phase # "none" => y.phase = x.phase
    /\ x.accepted => y.accepted
    /\ y.controller => x.controller
    /\ y.turn # 0 => x.turn # 0
Quiet(x, y) ==
    /\ y.phase = "pending" => x.phase = "pending"
    /\ Work(y) => Work(x)
    /\ Waking(x) => Waking(y)

LEMMA TameCalm ==
    ASSUME NEW x, NEW y, Tame(x, y)
    PROVE  Calm(x, y) /\ Quiet(x, y)
BY DEF Tame, Calm, Quiet, Waking, Roused

LEMMA CalmTrans ==
    ASSUME NEW x, NEW y, NEW z, Calm(x, y), Calm(y, z)
    PROVE  Calm(x, z)
BY DEF Calm

LEMMA TameTrans ==
    ASSUME NEW x, NEW y, NEW z, Tame(x, y), Tame(y, z)
    PROVE  Tame(x, z)
BY DEF Tame, Roused

LEMMA TameSame ==
    ASSUME NEW x PROVE Tame(x, x)
BY DEF Tame, Roused

\* All but the callers that sleep on the Session's channel.
SameState(x, y) ==
    /\ y.made = x.made /\ y.closed = x.closed /\ y.cancelled = x.cancelled
    /\ y.controller = x.controller /\ y.draining = x.draining /\ y.accepted = x.accepted
    /\ y.paths = x.paths /\ y.open = x.open /\ y.next = x.next
    /\ y.delivery = x.delivery /\ y.admitted = x.admitted /\ y.completed = x.completed
    /\ y.frontier = x.frontier
    /\ y.phase = x.phase /\ y.carrier = x.carrier /\ y.routes = x.routes
    /\ y.dialing = x.dialing /\ y.established = x.established /\ y.turn = x.turn
    /\ y.new = x.new

\* All that Sound speaks of.
Alike(x, y) ==
    /\ y.made = x.made /\ y.closed = x.closed /\ (x.cancelled => y.cancelled)
    /\ y.controller = x.controller /\ y.accepted = x.accepted
    /\ y.paths = x.paths /\ y.open = x.open /\ y.next = x.next
    /\ (x.closed => y.delivery = 0) /\ y.completed <= y.admitted
    /\ y.phase = x.phase /\ y.carrier = x.carrier /\ y.routes = x.routes
    /\ y.dialing = x.dialing /\ y.established = x.established /\ y.turn = x.turn
    /\ y.new = x.new

LEMMA AlikeSound ==
    ASSUME NEW s, NEW x, NEW y, Sound(s, x), Alike(x, y)
    PROVE  Sound(s, y) /\ Calm(x, y)
<1>1. x.closed => (Empty(x) => Empty(y))
  BY DEF Alike, Empty
<1>2. Dials(x) => Dials(y)
  BY DEF Alike, Dials
<1>3. Answers(x) => Answers(y)
  BY DEF Alike, Answers
<1>4. Underway(x) => Underway(y)
  BY DEF Alike, Underway
<1>5. Sound(s, y)
  BY <1>1, <1>2, <1>3, <1>4 DEF Alike, Sound, Coherent, Unregistered
<1>6. QED
  BY <1>5 DEF Alike, Calm

LEMMA SameSound ==
    ASSUME NEW s, NEW x, NEW y, Sound(s, x), SameState(x, y)
    PROVE  Sound(s, y) /\ Calm(x, y)
<1>1. Alike(x, y)
  BY DEF SameState, Alike, Sound, Coherent, Empty
<1>2. QED
  BY <1>1, AlikeSound

LEMMA NotifyShape ==
    ASSUME NEW x \in Session
    PROVE  LET y == Notify(x)
           IN  /\ y \in Session /\ SameState(x, y)
               /\ Roused(x.fence, y.fence) /\ Roused(x.read, y.read) /\ y.close = x.close
               /\ y.fence # "asleep" /\ y.read # "asleep"
<1> DEFINE y == Notify(x)
<1>1. y \in Session
  <2>1. Woken(x.fence) \in Places /\ Woken(x.read) \in Places
    BY DEF Session, Woken, Places
  <2>2. QED
    BY <2>1, Zenon DEF Session, Notify
<1>2. SameState(x, y)
  BY DEF Session, Notify, SameState
<1>3. /\ Roused(x.fence, y.fence) /\ Roused(x.read, y.read) /\ y.close = x.close
      /\ y.fence # "asleep" /\ y.read # "asleep"
  BY DEF Session, Notify, Woken, Roused
<1>4. QED
  BY <1>1, <1>2, <1>3

LEMMA NotifyGood ==
    ASSUME NEW s, NEW over, NEW x \in Session, Sound(s, x)
    PROVE  /\ Good(s, Notify(x), over) /\ Tame(x, Notify(x))
           /\ Notify(x).made = x.made /\ Notify(x).closed = x.closed
<1>1. /\ Notify(x) \in Session /\ SameState(x, Notify(x))
      /\ Roused(x.fence, Notify(x).fence) /\ Roused(x.read, Notify(x).read)
      /\ Notify(x).fence # "asleep" /\ Notify(x).read # "asleep"
  BY NotifyShape
<1>2. Sound(s, Notify(x))
  BY <1>1, SameSound
<1>3. Tame(x, Notify(x))
  BY <1>1 DEF SameState, Tame, Work
<1>4. QED
  BY <1>1, <1>2, <1>3 DEF Good, Awake, SameState

\* Dispose(Forget(x)), the common end of a Session.
LEMMA EndGood ==
    ASSUME NEW s, NEW over, NEW x \in Session, Coherent(s, x), x.made, ~x.closed
    PROVE  LET y == Dispose(Forget(x))
           IN  Good(s, y, over) /\ Tame(x, y) /\ y.made /\ y.closed
<1> DEFINE f == Forget(x)
           z == [f EXCEPT !.closed = TRUE, !.cancelled = TRUE, !.delivery = 0,
                          !.open = @ \ f.paths, !.paths = {},
                          !.established = FALSE, !.dialing = FALSE, !.routes = {}, !.turn = 0]
<1>1. f \in Session
  <2>1. x.routes \ {x.carrier} \in SUBSET (0..NumCarriers) /\ 0 \in 0..NumCarriers
    BY LimitsAssumption DEF Session
  <2>2. QED
    BY <2>1, Zenon DEF Session, Forget
<1>2. /\ f.made = x.made /\ f.closed = x.closed /\ f.controller = x.controller
      /\ f.accepted = x.accepted /\ f.paths = x.paths /\ f.open = x.open /\ f.next = x.next
      /\ f.admitted = x.admitted /\ f.completed = x.completed
      /\ f.phase = "none" /\ f.carrier = 0 /\ f.new = x.new /\ f.fence = x.fence
      /\ f.read = x.read
  BY DEF Session, Forget
<1> HIDE DEF f
<1>3. z \in Session
  <2>1. /\ f.open \ f.paths \in SUBSET Carriers /\ {} \in SUBSET Carriers
        /\ {} \in SUBSET (0..NumCarriers) /\ 0 \in 0..DeliveryQueueCapacity /\ 0 \in Nat
    BY <1>1, LimitsAssumption DEF Session
  <2>2. QED
    BY <1>1, <2>1, ZenonT(60) DEF Session
<1>4. /\ z.made = f.made /\ z.closed = TRUE /\ z.controller = f.controller
      /\ z.accepted = f.accepted /\ z.paths = {} /\ z.open = f.open \ f.paths /\ z.next = f.next
      /\ z.admitted = f.admitted /\ z.completed = f.completed /\ z.cancelled = TRUE
      /\ z.delivery = 0 /\ z.established = FALSE /\ z.dialing = FALSE /\ z.routes = {}
      /\ z.turn = 0 /\ z.phase = f.phase /\ z.carrier = f.carrier /\ z.new = f.new
      /\ z.fence = f.fence /\ z.read = f.read
  BY <1>1 DEF Session
<1>5. Dispose(f) = Notify(z)
  BY <1>2 DEF Dispose
<1> HIDE DEF z
<1>6. Empty(z)
  BY <1>2, <1>4 DEF Empty
<1>7. Sound(s, z)
  <2>1. z.open \subseteq z.paths \cup Unregistered(z)
    BY <1>2, <1>4 DEF Coherent, Unregistered
  <2>2. QED
    BY <1>2, <1>4, <1>6, <2>1 DEF Sound, Coherent, Dials, Underway, Answers
<1>9. Tame(x, z)
  BY <1>2, <1>4 DEF Tame, Roused, Work
<1>10. /\ Good(s, Notify(z), over) /\ Tame(z, Notify(z))
       /\ Notify(z).made = z.made /\ Notify(z).closed = z.closed
  BY <1>3, <1>7, NotifyGood
<1>11. Tame(x, Notify(z))
  BY <1>9, <1>10, TameTrans
<1>12. QED
  BY <1>2, <1>4, <1>5, <1>10, <1>11 DEF f

LEMMA CloseSessionGood ==
    ASSUME NEW s, NEW over, NEW x, Good(s, x, over)
    PROVE  LET y == CloseSession(x)
           IN  Good(s, y, over) /\ Tame(x, y) /\ y.made = x.made /\ (x.made => y.closed)
<1>1. CASE ~x.made \/ x.closed
  BY <1>1, TameSame DEF CloseSession
<1>2. CASE x.made /\ ~x.closed
  <2>1. x.made \in BOOLEAN
    BY DEF Good, Session
  <2>2. CloseSession(x) = Dispose(Forget(x))
    BY <1>2 DEF CloseSession
  <2>3. /\ Good(s, CloseSession(x), over) /\ Tame(x, CloseSession(x))
        /\ CloseSession(x).made /\ CloseSession(x).closed
    BY <1>2, <2>2, EndGood DEF Good, Sound
  <2>4. CloseSession(x).made \in BOOLEAN
    BY <2>3 DEF Good, Session
  <2>5. QED
    BY <1>2, <2>1, <2>3, <2>4
<1>3. QED
  BY <1>1, <1>2

\* A controller's operation, from a record that may already owe its callers a
\* wake-up: handleSession notifies them.
LEMMA HandleSessionGood ==
    ASSUME NEW s, NEW over, NEW x \in Session, Sound(s, x), ~x.closed,
           NEW outcome \in Outcomes
    PROVE  LET y == HandleSession(x, outcome)
           IN  /\ Good(s, y, over) /\ Tame(x, y) /\ y.made = x.made
               /\ x.made => y.closed \/ y.phase = x.phase
<1> DEFINE w == Worked(x, outcome)
           told == Notify(w)
<1>1. w \in Session
  <2>1. /\ (IF outcome = "delivers" /\ x.delivery < DeliveryQueueCapacity
             THEN x.delivery + 1 ELSE x.delivery) \in 0..DeliveryQueueCapacity
        /\ (IF outcome = "completes" /\ x.completed < x.admitted
             THEN x.completed + 1 ELSE x.completed) \in 0..MaxWrites
    BY LimitsAssumption DEF Session
  <2>2. QED
    BY <2>1, Zenon DEF Session, Worked
<1>2. /\ Alike(x, w) /\ w.fence = x.fence /\ w.read = x.read
      /\ w.admitted = x.admitted /\ w.completed >= x.completed
  BY DEF Session, Worked, Alike, Sound, Coherent
<1>3. Sound(s, w)
  BY <1>2, AlikeSound
<1>4. Tame(x, w)
  <2>1. w.completed \in Int /\ x.completed \in Int /\ x.admitted \in Int
    BY <1>1 DEF Session
  <2>2. QED
    BY <1>2, <2>1 DEF Tame, Alike, Work, Roused
<1> HIDE DEF w
<1>5. /\ Good(s, told, over) /\ Tame(w, told)
      /\ told.made = w.made /\ told.closed = w.closed
  BY <1>1, <1>3, NotifyGood
<1>6. Tame(x, told) /\ told.made = x.made /\ told.phase = x.phase
  <2>1. told.phase = w.phase
    BY <1>1, NotifyShape DEF SameState
  <2>2. QED
    BY <1>2, <1>4, <1>5, <2>1, TameTrans DEF Alike
<1> HIDE DEF told
<1>7. HandleSession(x, outcome) = IF outcome = "terminal" THEN CloseSession(told) ELSE told
  BY DEF HandleSession, told, w
<1>8. /\ Good(s, CloseSession(told), over) /\ Tame(told, CloseSession(told))
      /\ CloseSession(told).made = told.made /\ (told.made => CloseSession(told).closed)
  BY <1>5, CloseSessionGood
<1>9. Tame(x, CloseSession(told))
  BY <1>6, <1>8, TameTrans
<1>10. QED
  BY <1>5, <1>6, <1>7, <1>8, <1>9

\* An attempt of an initiator is forgotten before its Session exists.
LEMMA ForgetGood ==
    ASSUME NEW s, NEW over, NEW x, Good(s, x, over), s \notin Outbound, x.phase = "pending"
    PROVE  LET y == Forget(x)
           IN  Good(s, y, over) /\ Tame(x, y) /\ y.made = x.made /\ y.routes = {}
<1> DEFINE y == Forget(x)
<1>0. x \in Session /\ Sound(s, x) /\ Awake(x, over)
  BY DEF Good
<1>1. y \in Session
  <2>1. x.routes \ {x.carrier} \in SUBSET (0..NumCarriers) /\ 0 \in 0..NumCarriers
    BY <1>0, LimitsAssumption DEF Session
  <2>2. QED
    BY <1>0, <2>1, Zenon DEF Session, Forget
<1>2. /\ y.made = x.made /\ y.closed = x.closed /\ y.controller = x.controller
      /\ y.cancelled = x.cancelled /\ y.delivery = x.delivery /\ y.frontier = x.frontier
      /\ y.accepted = x.accepted /\ y.paths = x.paths /\ y.open = x.open /\ y.next = x.next
      /\ y.admitted = x.admitted /\ y.completed = x.completed
      /\ y.phase = "none" /\ y.carrier = 0 /\ y.new = x.new /\ y.fence = x.fence
      /\ y.read = x.read /\ y.routes = x.routes \ {x.carrier} /\ y.turn = x.turn
  BY <1>0 DEF Session, Forget
<1> HIDE DEF y
<1>3. ~x.closed /\ y.routes = {}
  BY <1>0, <1>2 DEF Sound, Coherent, Empty
<1>4. Sound(s, y)
  <2>1. s \in Inbound => Answers(y)
    BY <1>0, <1>2, <1>3 DEF Sound, Coherent, Answers
  <2>2. QED
    BY <1>0, <1>2, <1>3, <2>1 DEF Sound, Coherent, Unregistered
<1>5. Tame(x, y)
  BY <1>2 DEF Tame, Work, Roused
<1>6. QED
  BY <1>0, <1>1, <1>2, <1>3, <1>4, <1>5 DEF Good, Awake, y

\* A dial goes on to its next carrier.
LEMMA FallBackOn ==
    ASSUME NEW s \in Outbound, NEW over, NEW x \in Session, Coherent(s, x), Awake(x, over),
           x.made, ~x.closed, ~x.controller, x.dialing, x.new \in {"waking", "done"},
           NEW n \in Carriers
    PROVE  LET y == FallBack(x, n)
           IN  /\ Good(s, y, over) /\ y.made = x.made /\ y.closed = x.closed
               /\ y.phase = "pending" /\ y.new = x.new
               /\ (x.phase = "pending" => Tame(x, y))
<1> DEFINE a == StartAttempt(Forget(x), n)
           gone == (x.carrier + 1)..(n - 1)
           y == [a EXCEPT !.open = @ \ gone]
<1>1. a \in Session
  <2>1. /\ (x.routes \ {x.carrier}) \cup {n} \in SUBSET (0..NumCarriers) /\ n \in 0..NumCarriers
        /\ x.routes \ {x.carrier} \in SUBSET (0..NumCarriers) /\ 0 \in 0..NumCarriers
    BY LimitsAssumption DEF Session, Carriers
  <2>2. Forget(x) \in Session /\ Forget(x).routes = x.routes \ {x.carrier}
    BY <2>1, Zenon DEF Session, Forget
  <2>3. Forget(x).routes \cup {n} \in SUBSET (0..NumCarriers)
    BY <2>1, <2>2
  <2> HIDE DEF Forget
  <2>4. QED
    BY <2>1, <2>2, <2>3, Zenon DEF Session, StartAttempt
<1>2. /\ a.made = x.made /\ a.closed = x.closed /\ a.controller = x.controller
      /\ a.cancelled = x.cancelled /\ a.delivery = x.delivery /\ a.frontier = x.frontier
      /\ a.accepted = x.accepted /\ a.paths = x.paths /\ a.open = x.open /\ a.next = x.next
      /\ a.admitted = x.admitted /\ a.completed = x.completed /\ a.dialing = x.dialing
      /\ a.phase = "pending" /\ a.carrier = n /\ a.new = x.new /\ a.fence = x.fence
      /\ a.read = x.read /\ a.routes = (x.routes \ {x.carrier}) \cup {n} /\ a.turn = x.turn
  BY DEF Session, Forget, StartAttempt
<1> HIDE DEF a, gone
<1>3. y \in Session
  <2>1. a.open \ gone \in SUBSET Carriers
    BY <1>1 DEF Session
  <2>2. QED
    BY <1>1, <2>1, Zenon DEF Session
<1>4. /\ y.made = a.made /\ y.closed = a.closed /\ y.controller = a.controller
      /\ y.cancelled = a.cancelled /\ y.delivery = a.delivery /\ y.frontier = a.frontier
      /\ y.accepted = a.accepted /\ y.paths = a.paths /\ y.open = a.open \ gone /\ y.next = a.next
      /\ y.admitted = a.admitted /\ y.completed = a.completed /\ y.dialing = a.dialing
      /\ y.phase = a.phase /\ y.carrier = a.carrier /\ y.new = a.new /\ y.fence = a.fence
      /\ y.read = a.read /\ y.routes = a.routes /\ y.turn = a.turn
  BY <1>1 DEF Session
<1>5. y = FallBack(x, n)
  BY LimitsAssumption DEF FallBack, Carriers, a, gone
<1> HIDE DEF y
<1>6. y.routes = {n}
  BY <1>2, <1>4 DEF Coherent
<1>7. y.open \subseteq y.paths \cup Unregistered(y)
  BY <1>2, <1>4 DEF Coherent, Unregistered
<1>8. Dials(y)
  BY <1>2, <1>4, <1>6 DEF Dials, Coherent
<1>9. Sound(s, y)
  BY <1>2, <1>4, <1>6, <1>7, <1>8, SessionsAssumption DEF Sound, Coherent, Underway
<1>10. x.phase = "pending" => Tame(x, y)
  BY <1>2, <1>4 DEF Tame, Work, Roused
<1>11. Good(s, y, over)
  BY <1>2, <1>3, <1>4, <1>9 DEF Good, Awake
<1>12. QED
  BY <1>2, <1>4, <1>5, <1>10, <1>11, ZenonT(60)

\* REJECT, CLOSE, the deadline or a lost socket ends an attempt of a dial.
LEMMA FallBackGood ==
    ASSUME NEW s \in Outbound, NEW over, NEW x, Good(s, x, over), x.phase = "pending",
           NEW n \in 0..NumCarriers
    PROVE  LET y == FallBack(x, n)
           IN  Good(s, y, over) /\ Tame(x, y) /\ y.made = x.made
<1>0. /\ x \in Session /\ Sound(s, x) /\ Awake(x, over)
      /\ x.made /\ ~x.closed /\ ~x.controller /\ x.dialing /\ x.new \in {"waking", "done"}
  BY DEF Good, Sound, Coherent, Dials, Underway
<1>1. CASE n = 0
  <2>1. FallBack(x, n) = Dispose(Forget(x))
    BY <1>1 DEF FallBack
  <2>2. /\ Good(s, FallBack(x, n), over) /\ Tame(x, FallBack(x, n))
        /\ FallBack(x, n).made
    BY <1>0, <2>1, EndGood DEF Sound
  <2>3. FallBack(x, n).made \in BOOLEAN /\ x.made \in BOOLEAN
    BY <1>0, <2>2 DEF Good, Session
  <2>4. QED
    BY <1>0, <2>2, <2>3
<1>2. CASE n # 0
  <2>1. n \in Carriers
    BY <1>2, LimitsAssumption DEF Carriers
  <2>2. QED
    BY <1>0, <2>1, FallBackOn DEF Sound
<1>3. QED
  BY <1>1, <1>2

LEMMA EndAttemptGood ==
    ASSUME NEW s \in Sessions, NEW over, NEW x, Good(s, x, over), x.phase = "pending",
           NEW n \in 0..NumCarriers
    PROVE  LET y == EndAttempt(s, x, n)
           IN  Good(s, y, over) /\ Tame(x, y) /\ y.made = x.made
<1>1. CASE s \in Outbound
  BY <1>1, FallBackGood DEF EndAttempt
<1>2. CASE s \notin Outbound
  BY <1>2, ForgetGood DEF EndAttempt
<1>3. QED
  BY <1>1, <1>2

\* A HELLO makes or renews an attempt of an initiator, or takes the route of an
\* expired one.
LEMMA HelloGood ==
    ASSUME NEW s, NEW over, NEW x, Good(s, x, over), s \in Inbound, s \notin Outbound,
           ~x.made, x.phase # "established"
    PROVE  LET y == StartAttempt(x, 0)
           IN  /\ Good(s, y, over) /\ y.made = x.made /\ y.controller = x.controller
               /\ y.turn = x.turn
<1> DEFINE y == StartAttempt(x, 0)
<1>0. x \in Session /\ Sound(s, x) /\ Awake(x, over)
  BY DEF Good
<1>1. y \in Session
  <2>1. x.routes \cup {0} \in SUBSET (0..NumCarriers) /\ 0 \in 0..NumCarriers
    BY <1>0, LimitsAssumption DEF Session
  <2>2. QED
    BY <1>0, <2>1, Zenon DEF Session, StartAttempt
<1>2. /\ y.made = x.made /\ y.closed = x.closed /\ y.controller = x.controller
      /\ y.cancelled = x.cancelled /\ y.delivery = x.delivery /\ y.frontier = x.frontier
      /\ y.accepted = x.accepted /\ y.paths = x.paths /\ y.open = x.open /\ y.next = x.next
      /\ y.admitted = x.admitted /\ y.completed = x.completed
      /\ y.phase = "pending" /\ y.carrier = 0 /\ y.new = x.new /\ y.fence = x.fence
      /\ y.read = x.read /\ y.routes = x.routes \cup {0} /\ y.turn = x.turn
  BY <1>0 DEF Session, StartAttempt
<1> HIDE DEF y
<1>3. Sound(s, y)
  BY <1>0, <1>2 DEF Sound, Coherent, Answers, Unregistered
<1>4. QED
  BY <1>0, <1>1, <1>2, <1>3 DEF Good, Awake, y

LEMMA ExpiredHelloGood ==
    ASSUME NEW s, NEW over, NEW x, Good(s, x, over), s \notin Outbound
    PROVE  LET y == [x EXCEPT !.routes = @ \ {0}]
           IN  Good(s, y, over) /\ Calm(x, y)
<1> DEFINE y == [x EXCEPT !.routes = @ \ {0}]
<1>0. x \in Session /\ Sound(s, x) /\ Awake(x, over)
  BY DEF Good
<1>1. y \in Session
  <2>1. x.routes \ {0} \in SUBSET (0..NumCarriers)
    BY <1>0 DEF Session
  <2>2. QED
    BY <1>0, <2>1, Zenon DEF Session
<1>2. /\ y.made = x.made /\ y.closed = x.closed /\ y.controller = x.controller
      /\ y.cancelled = x.cancelled /\ y.delivery = x.delivery /\ y.frontier = x.frontier
      /\ y.accepted = x.accepted /\ y.paths = x.paths /\ y.open = x.open /\ y.next = x.next
      /\ y.admitted = x.admitted /\ y.completed = x.completed
      /\ y.phase = x.phase /\ y.carrier = x.carrier /\ y.new = x.new /\ y.fence = x.fence
      /\ y.read = x.read /\ y.routes = x.routes \ {0} /\ y.turn = x.turn
      /\ y.established = x.established /\ y.dialing = x.dialing
  BY <1>0 DEF Session
<1> HIDE DEF y
<1>3. Sound(s, y)
  BY <1>0, <1>2 DEF Sound, Coherent, Answers, Unregistered, Empty
<1>4. QED
  BY <1>0, <1>1, <1>2, <1>3 DEF Good, Awake, Calm, y

\* The Session that READY or FINISH establishes.
LEMMA InstallGood ==
    ASSUME NEW s \in Sessions, NEW over, NEW x, Good(s, x, over), x.phase = "pending",
           NEW outcome \in Outcomes
    PROVE  LET y == Install(x, outcome)
           IN  /\ Good(s, y, over) /\ y.made
               /\ y.closed \/ y.phase = "established"
               /\ s \in Inbound => ~y.accepted /\ y.turn = 0
<1> DEFINE i == [x EXCEPT !.phase = "established", !.established = TRUE,
                          !.made = TRUE, !.controller = TRUE]
<1>0. x \in Session /\ Sound(s, x)
  BY DEF Good
<1>1. i \in Session
  BY <1>0, Zenon DEF Session
<1>2. /\ i.made = TRUE /\ i.closed = x.closed /\ i.controller = TRUE
      /\ i.accepted = x.accepted /\ i.paths = x.paths /\ i.open = x.open /\ i.next = x.next
      /\ i.admitted = x.admitted /\ i.completed = x.completed
      /\ i.phase = "established" /\ i.carrier = x.carrier /\ i.new = x.new
      /\ i.routes = x.routes /\ i.turn = x.turn
  BY <1>0 DEF Session
<1>3. Install(x, outcome) = HandleSession(i, outcome)
  BY DEF Install
<1> HIDE DEF i
<1>4. ~x.closed /\ (s \in Inbound => ~x.accepted /\ x.turn = 0)
  BY <1>0 DEF Sound, Coherent, Empty, Answers
<1>5. Sound(s, i)
  BY <1>0, <1>2, <1>4 DEF Sound, Coherent, Answers, Dials, Underway, Unregistered
<1> DEFINE y == HandleSession(i, outcome)
<1>6. /\ Good(s, y, over) /\ Tame(i, y) /\ y.made = i.made
      /\ i.made => y.closed \/ y.phase = i.phase
  BY <1>1, <1>2, <1>4, <1>5, HandleSessionGood
<1> HIDE DEF y
<1>7. s \in Inbound => ~y.accepted /\ y.turn = 0
  BY <1>2, <1>4, <1>6 DEF Tame
<1>8. QED
  BY <1>2, <1>3, <1>6, <1>7 DEF y

\* Its place on the Accept queue.
LEMMA OfferedGood ==
    ASSUME NEW s, NEW over, NEW x, Good(s, x, over), s \notin Outbound,
           x.phase = "established", ~x.accepted, NEW k \in Nat
    PROVE  LET y == [x EXCEPT !.turn = k]
           IN  /\ Good(s, y, over) /\ y.made = x.made /\ y.closed = x.closed
               /\ y.phase = x.phase /\ y.accepted = x.accepted
<1> DEFINE y == [x EXCEPT !.turn = k]
<1>0. x \in Session /\ Sound(s, x) /\ Awake(x, over)
  BY DEF Good
<1>1. y \in Session
  BY <1>0, Zenon DEF Session
<1>2. /\ y.made = x.made /\ y.closed = x.closed /\ y.controller = x.controller
      /\ y.cancelled = x.cancelled /\ y.delivery = x.delivery /\ y.frontier = x.frontier
      /\ y.accepted = x.accepted /\ y.paths = x.paths /\ y.open = x.open /\ y.next = x.next
      /\ y.admitted = x.admitted /\ y.completed = x.completed
      /\ y.phase = x.phase /\ y.carrier = x.carrier /\ y.new = x.new /\ y.fence = x.fence
      /\ y.read = x.read /\ y.routes = x.routes /\ y.turn = k
  BY <1>0 DEF Session
<1> HIDE DEF y
<1>3. ~x.closed
  BY <1>0 DEF Sound, Coherent, Empty
<1>4. Sound(s, y)
  BY <1>0, <1>2, <1>3 DEF Sound, Coherent, Answers, Unregistered
<1>5. QED
  BY <1>0, <1>1, <1>2, <1>4 DEF Good, Awake, y

LEMMA TakenGood ==
    ASSUME NEW s, NEW over, NEW x, Good(s, x, over), s \in Inbound, s \notin Outbound,
           x.turn # 0
    PROVE  LET y == [x EXCEPT !.turn = 0, !.accepted = @ \/ ~x.closed]
           IN  Good(s, y, over) /\ Calm(x, y) /\ Quiet(x, y)
<1> DEFINE y == [x EXCEPT !.turn = 0, !.accepted = @ \/ ~x.closed]
<1>0. x \in Session /\ Sound(s, x) /\ Awake(x, over)
  BY DEF Good
<1>1. y \in Session
  <2>1. (x.accepted \/ ~x.closed) \in BOOLEAN /\ 0 \in Nat
    OBVIOUS
  <2>2. QED
    BY <1>0, <2>1, Zenon DEF Session
<1>2. /\ y.made = x.made /\ y.closed = x.closed /\ y.controller = x.controller
      /\ y.cancelled = x.cancelled /\ y.delivery = x.delivery /\ y.frontier = x.frontier
      /\ y.accepted = (x.accepted \/ ~x.closed) /\ y.paths = x.paths /\ y.open = x.open
      /\ y.next = x.next /\ y.admitted = x.admitted /\ y.completed = x.completed
      /\ y.phase = x.phase /\ y.carrier = x.carrier /\ y.new = x.new /\ y.fence = x.fence
      /\ y.read = x.read /\ y.routes = x.routes /\ y.turn = 0
  BY <1>0 DEF Session
<1> HIDE DEF y
<1>3. ~x.closed /\ x.made
  BY <1>0 DEF Sound, Coherent, Empty, Answers
<1>4. Sound(s, y)
  BY <1>0, <1>2, <1>3 DEF Sound, Coherent, Answers, Unregistered
<1>5. Calm(x, y)
  BY <1>2 DEF Calm
<1>6. Quiet(x, y)
  BY <1>2 DEF Quiet, Work, Waking
<1>7. QED
  BY <1>0, <1>1, <1>2, <1>4, <1>5, <1>6 DEF Good, Awake, y

LEMMA SameTurn ==
    ASSUME NEW x \in Session, x.turn = 0
    PROVE  [x EXCEPT !.turn = 0] = x
BY DEF Session

LEMMA SameRoutes ==
    ASSUME NEW x \in Session, x.routes = {}
    PROVE  [x EXCEPT !.routes = {}] = x
BY DEF Session

\* closeListener on one inbound Session.
LEMMA EndInboundGood ==
    ASSUME NEW s, NEW over, NEW x, Good(s, x, over), s \in Inbound, s \notin Outbound
    PROVE  LET y == EndInbound(x)
           IN  Good(s, y, over) /\ Tame(x, y) /\ (y.made => y.closed)
<1> DEFINE ended == CloseSession(x)
           y == IF 0 \in ended.routes THEN Forget(ended) ELSE ended
<1>1. /\ Good(s, ended, over) /\ Tame(x, ended) /\ ended.made = x.made
      /\ (x.made => ended.closed)
  BY CloseSessionGood
<1> HIDE DEF ended
<1>2. 0 \in ended.routes => ended.phase = "pending" /\ ~ended.made
  BY <1>1 DEF Good, Sound, Coherent, Answers, Empty, Session
<1>3. /\ Good(s, y, over) /\ Tame(ended, y) /\ y.made = ended.made /\ (y.made => y.closed)
  <2>1. CASE 0 \in ended.routes
    BY <1>1, <1>2, <2>1, ForgetGood
  <2>2. CASE 0 \notin ended.routes
    BY <1>1, <2>2, TameSame
  <2>3. QED
    BY <2>1, <2>2
<1> HIDE DEF y
<1>4. Tame(x, y)
  BY <1>1, <1>3, TameTrans
<1>5. y.turn = 0 /\ y \in Session
  BY <1>3 DEF Good, Sound, Coherent, Answers, Empty
<1>6. EndInbound(x) = [y EXCEPT !.turn = 0]
  BY DEF EndInbound, y, ended
<1>7. EndInbound(x) = y
  BY <1>5, <1>6, SameTurn
<1>8. QED
  BY <1>3, <1>4, <1>7

\* closePeer on one Session.
LEMMA EndedGood ==
    ASSUME NEW s \in Sessions, NEW over, NEW x, Good(s, x, over)
    PROVE  LET y == Ended(s, x)
           IN  /\ Good(s, y, over) /\ Tame(x, y) /\ (y.made => y.closed)
               /\ y.phase = "none" /\ y.routes = {}
<1> DEFINE p == [x EXCEPT !.phase = "none", !.carrier = 0]
           d == Dispose(p)
           e == IF s \in Inbound /\ ~listener.closed THEN EndInbound(d) ELSE d
<1>0. x \in Session /\ Sound(s, x) /\ Awake(x, over)
  BY DEF Good
<1>1. Ended(s, x) = [e EXCEPT !.routes = {}]
  BY DEF Ended
<1>2. CASE x.made /\ ~x.closed
  <2> DEFINE z == Dispose(Forget(x))
  <2>1. Good(s, z, over) /\ Tame(x, z) /\ z.made /\ z.closed
    BY <1>0, <1>2, EndGood DEF Sound
  <2>2. d = z
    <3> DEFINE f == Forget(x)
               R == x.routes \ {x.carrier}
               Dropped(w, O) == [w EXCEPT !.closed = TRUE, !.cancelled = TRUE, !.delivery = 0,
                                          !.open = O, !.paths = {},
                                          !.established = FALSE, !.dialing = FALSE,
                                          !.routes = {}, !.turn = 0]
    <3>1. f = [p EXCEPT !.routes = R]
      BY <1>0 DEF Session, Forget
    <3>2. p.open = x.open /\ p.paths = x.paths /\ p.made = x.made /\ p.closed = x.closed
      BY <1>0 DEF Session
    <3>3. f.open = x.open /\ f.paths = x.paths /\ f.made = x.made /\ f.closed = x.closed
      BY <1>0 DEF Session, Forget
    <3>4. d = Notify(Dropped(p, x.open \ x.paths))
      BY <1>2, <3>2 DEF Dispose
    <3>5. z = Notify(Dropped(f, x.open \ x.paths))
      BY <1>2, <3>3 DEF Dispose
    <3>6. p \in Session
      <4>1. 0 \in 0..NumCarriers
        BY LimitsAssumption
      <4>2. QED
        BY <1>0, <4>1, Zenon DEF Session
    <3> HIDE DEF p, R, f
    <3>7. Dropped(p, x.open \ x.paths) = Dropped(f, x.open \ x.paths)
      BY <3>1, <3>6 DEF Session
    <3>8. QED
      BY <3>4, <3>5, <3>7
  <2> HIDE DEF z, d
  <2>3. z \in Session /\ z.turn = 0 /\ z.routes = {} /\ z.phase = "none"
    BY <2>1 DEF Good, Sound, Coherent, Empty
  <2>4. EndInbound(z) = z
    BY <2>1, <2>3, SameTurn DEF EndInbound, CloseSession
  <2>5. e = z
    BY <2>2, <2>4
  <2>6. Ended(s, x) = z
    BY <1>1, <2>3, <2>5, SameRoutes
  <2>7. QED
    BY <2>1, <2>3, <2>6
<1>3. CASE ~x.made \/ x.closed
  <2> DEFINE q == [p EXCEPT !.routes = {}]
  <2>1. p \in Session
    <3>1. 0 \in 0..NumCarriers
      BY LimitsAssumption
    <3>2. QED
      BY <1>0, <3>1, Zenon DEF Session
  <2>2. /\ p.made = x.made /\ p.closed = x.closed /\ p.controller = x.controller
        /\ p.cancelled = x.cancelled /\ p.delivery = x.delivery /\ p.frontier = x.frontier
        /\ p.accepted = x.accepted /\ p.paths = x.paths /\ p.open = x.open /\ p.next = x.next
        /\ p.admitted = x.admitted /\ p.completed = x.completed
        /\ p.phase = "none" /\ p.carrier = 0 /\ p.new = x.new /\ p.fence = x.fence
        /\ p.read = x.read /\ p.routes = x.routes /\ p.turn = x.turn
        /\ p.established = x.established /\ p.dialing = x.dialing
    BY <1>0 DEF Session
  <2>3. d = p
    BY <1>3, <2>2 DEF Dispose
  <2> HIDE DEF p, d
  <2>4. q \in Session
    <3>1. {} \in SUBSET (0..NumCarriers)
      OBVIOUS
    <3>2. QED
      BY <2>1, <3>1, Zenon DEF Session
  <2>5. /\ q.made = x.made /\ q.closed = x.closed /\ q.controller = x.controller
        /\ q.cancelled = x.cancelled /\ q.delivery = x.delivery /\ q.frontier = x.frontier
        /\ q.accepted = x.accepted /\ q.paths = x.paths /\ q.open = x.open /\ q.next = x.next
        /\ q.admitted = x.admitted /\ q.completed = x.completed
        /\ q.phase = "none" /\ q.carrier = 0 /\ q.new = x.new /\ q.fence = x.fence
        /\ q.read = x.read /\ q.routes = {} /\ q.turn = x.turn
        /\ q.established = x.established /\ q.dialing = x.dialing
    BY <2>1, <2>2 DEF Session
  <2>6. s \in Inbound => p.turn = 0
    BY <1>0, <1>3, <2>2 DEF Sound, Coherent, Answers, Empty
  <2>7. CloseSession(p) = p
    BY <1>3, <2>2 DEF CloseSession
  <2>8. s \in Inbound => [EndInbound(p) EXCEPT !.routes = {}] = q
    <3>1. HAVE s \in Inbound
    <3>2. CASE 0 \in p.routes
      <4>1. EndInbound(p) = [Forget(p) EXCEPT !.turn = 0]
        BY <2>7, <3>2 DEF EndInbound
      <4>2. QED
        BY <2>1, <2>2, <2>6, <3>1, <4>1, ZenonT(60) DEF Forget, Session
    <3>3. CASE 0 \notin p.routes
      <4>1. EndInbound(p) = [p EXCEPT !.turn = 0]
        BY <2>7, <3>3 DEF EndInbound
      <4>2. QED
        BY <2>1, <2>6, <3>1, <4>1, SameTurn
    <3>4. QED
      BY <3>2, <3>3
  <2>9. Ended(s, x) = q
    BY <1>1, <2>3, <2>8
  <2> HIDE DEF q
  <2>10. s \in Inbound => q.turn = 0
    BY <2>2, <2>5, <2>6
  <2>11. Sound(s, q)
    <3>1. x.closed => Empty(q)
      BY <1>0, <2>5 DEF Sound, Coherent, Empty
    <3>2. s \in Outbound => Dials(q) /\ Underway(q)
      BY <1>0, <1>3, <2>5 DEF Sound, Coherent, Dials, Underway
    <3>3. s \in Inbound => Answers(q)
      BY <1>0, <2>5, <2>10 DEF Sound, Coherent, Answers
    <3>4. QED
      BY <1>0, <2>5, <3>1, <3>2, <3>3 DEF Sound, Coherent, Unregistered
  <2>12. Good(s, q, over)
    BY <1>0, <2>4, <2>5, <2>11 DEF Good, Awake
  <2>13. Tame(x, q)
    BY <2>5 DEF Tame, Work, Roused
  <2>14. QED
    BY <1>3, <2>5, <2>9, <2>12, <2>13
<1>4. QED
  BY <1>2, <1>3

\* The timer advances every controller, after the attempts that ended.
LEMMA AdvancedGood ==
    ASSUME NEW s, NEW over, NEW x, Good(s, x, over), NEW outcome \in Outcomes
    PROVE  Good(s, Advanced(x, outcome), over) /\ Tame(x, Advanced(x, outcome))
<1>1. CASE x.controller /\ ~x.closed
  BY <1>1, HandleSessionGood DEF Advanced, Good
<1>2. CASE ~(x.controller /\ ~x.closed)
  BY <1>2, TameSame DEF Advanced
<1>3. QED
  BY <1>1, <1>2

\* A socket is shut.
LEMMA ShutGood ==
    ASSUME NEW s, NEW over, NEW x, Good(s, x, over), s \notin Inbound, NEW c
    PROVE  LET y == [x EXCEPT !.open = @ \ {c}]
           IN  /\ Good(s, y, over) /\ Tame(x, y) /\ y.made = x.made /\ y.closed = x.closed
               /\ y.phase = x.phase
<1> DEFINE y == [x EXCEPT !.open = @ \ {c}]
<1>0. x \in Session /\ Sound(s, x) /\ Awake(x, over)
  BY DEF Good
<1>1. y \in Session
  <2>1. x.open \ {c} \in SUBSET Carriers
    BY <1>0 DEF Session
  <2>2. QED
    BY <1>0, <2>1, Zenon DEF Session
<1>2. /\ y.made = x.made /\ y.closed = x.closed /\ y.controller = x.controller
      /\ y.cancelled = x.cancelled /\ y.delivery = x.delivery /\ y.frontier = x.frontier
      /\ y.accepted = x.accepted /\ y.paths = x.paths /\ y.open = x.open \ {c}
      /\ y.next = x.next /\ y.admitted = x.admitted /\ y.completed = x.completed
      /\ y.phase = x.phase /\ y.carrier = x.carrier /\ y.new = x.new /\ y.fence = x.fence
      /\ y.read = x.read /\ y.routes = x.routes /\ y.turn = x.turn
      /\ y.established = x.established /\ y.dialing = x.dialing
  BY <1>0 DEF Session
<1> HIDE DEF y
<1>3. Sound(s, y)
  <2>1. y.open \subseteq y.paths \cup Unregistered(y)
    BY <1>0, <1>2 DEF Sound, Coherent, Unregistered
  <2>2. QED
    BY <1>0, <1>2, <2>1 DEF Sound, Coherent, Dials, Underway, Empty
<1>4. Tame(x, y)
  BY <1>2 DEF Tame, Work, Roused
<1>5. QED
  BY <1>0, <1>1, <1>2, <1>3, <1>4 DEF Good, Awake, y

----------------------------------------------------------------------------
(* What callers do to a Session.                                           *)

LEMMA FenceMoves ==
    ASSUME NEW s, NEW over, NEW x, Good(s, x, over), NEW p \in Places,
           p = "asleep" => x.completed < x.frontier \/ x.cancelled \/ over
    PROVE  LET y == [x EXCEPT !.fence = p]
           IN  /\ Good(s, y, over) /\ Calm(x, y) /\ y.new = x.new
               /\ x.fence = "waking" \/ Quiet(x, y)
<1> DEFINE y == [x EXCEPT !.fence = p]
<1>0. x \in Session /\ Sound(s, x) /\ Awake(x, over)
  BY DEF Good
<1>1. y \in Session
  BY <1>0, Zenon DEF Session
<1>2. SameState(x, y) /\ y.fence = p /\ y.read = x.read
  BY <1>0 DEF Session, SameState
<1> HIDE DEF y
<1>3. Sound(s, y) /\ Calm(x, y)
  BY <1>0, <1>2, SameSound
<1>4. x.fence = "waking" \/ Quiet(x, y)
  BY <1>2 DEF SameState, Quiet, Work, Waking
<1>5. QED
  BY <1>0, <1>1, <1>2, <1>3, <1>4 DEF Good, Awake, SameState, y

LEMMA ReadMoves ==
    ASSUME NEW s, NEW over, NEW x, Good(s, x, over), NEW p \in Places,
           p = "asleep" => x.delivery = 0 \/ x.cancelled \/ over
    PROVE  LET y == [x EXCEPT !.read = p]
           IN  /\ Good(s, y, over) /\ Calm(x, y) /\ y.new = x.new
               /\ x.read = "waking" \/ Quiet(x, y)
<1> DEFINE y == [x EXCEPT !.read = p]
<1>0. x \in Session /\ Sound(s, x) /\ Awake(x, over)
  BY DEF Good
<1>1. y \in Session
  BY <1>0, Zenon DEF Session
<1>2. SameState(x, y) /\ y.fence = x.fence /\ y.read = p
  BY <1>0 DEF Session, SameState
<1> HIDE DEF y
<1>3. Sound(s, y) /\ Calm(x, y)
  BY <1>0, <1>2, SameSound
<1>4. x.read = "waking" \/ Quiet(x, y)
  BY <1>2 DEF SameState, Quiet, Work, Waking
<1>5. QED
  BY <1>0, <1>1, <1>2, <1>3, <1>4 DEF Good, Awake, SameState, y

LEMMA CloseMoves ==
    ASSUME NEW s, NEW over, NEW x, Good(s, x, over), NEW p \in Places
    PROVE  LET y == [x EXCEPT !.close = p]
           IN  Good(s, y, over) /\ Calm(x, y) /\ y.new = x.new /\ Quiet(x, y)
<1> DEFINE y == [x EXCEPT !.close = p]
<1>0. x \in Session /\ Sound(s, x) /\ Awake(x, over)
  BY DEF Good
<1>1. y \in Session
  BY <1>0, Zenon DEF Session
<1>2. SameState(x, y) /\ y.fence = x.fence /\ y.read = x.read
  BY <1>0 DEF Session, SameState
<1> HIDE DEF y
<1>3. Sound(s, y) /\ Calm(x, y)
  BY <1>0, <1>2, SameSound
<1>4. Quiet(x, y)
  BY <1>2 DEF SameState, Quiet, Work, Waking
<1>5. QED
  BY <1>0, <1>1, <1>2, <1>3, <1>4 DEF Good, Awake, SameState, y

\* The cancelled context: whoever sleeps has been told.
LEMMA CancelledGood ==
    ASSUME NEW s, NEW over, NEW x, Good(s, x, over)
    PROVE  LET y == [x EXCEPT !.cancelled = TRUE]
           IN  Good(s, y, over) /\ Calm(x, y) /\ y.new = x.new /\ Quiet(x, y)
<1> DEFINE y == [x EXCEPT !.cancelled = TRUE]
<1>0. x \in Session /\ Sound(s, x) /\ Awake(x, over)
  BY DEF Good
<1>1. y \in Session
  BY <1>0, Zenon DEF Session
<1>2. /\ y.cancelled = TRUE /\ y.fence = x.fence /\ y.read = x.read
      /\ y.completed = x.completed /\ y.admitted = x.admitted
  BY <1>0 DEF Session
<1>3. Alike(x, y)
  BY <1>0 DEF Session, Alike, Sound, Coherent, Empty
<1> HIDE DEF y
<1>4. Sound(s, y) /\ Calm(x, y)
  BY <1>0, <1>3, AlikeSound
<1>5. Quiet(x, y)
  BY <1>2, <1>3 DEF Alike, Quiet, Work, Waking
<1>6. QED
  BY <1>1, <1>2, <1>3, <1>4, <1>5 DEF Good, Awake, Alike, y

\* A reader takes a Datagram off the delivery queue.
LEMMA DeliveryTaken ==
    ASSUME NEW s, NEW over, NEW x, Good(s, x, over), x.delivery > 0
    PROVE  LET y == [x EXCEPT !.delivery = @ - 1, !.read = "waking"]
           IN  Good(s, y, over) /\ Calm(x, y) /\ y.new = x.new /\ Waking(y)
<1> DEFINE y == [x EXCEPT !.delivery = @ - 1, !.read = "waking"]
<1>0. x \in Session /\ Sound(s, x) /\ Awake(x, over)
  BY DEF Good
<1>1. y \in Session
  <2>1. x.delivery - 1 \in 0..DeliveryQueueCapacity /\ "waking" \in Places
    BY <1>0, LimitsAssumption DEF Session, Places
  <2>2. QED
    BY <1>0, <2>1, Zenon DEF Session
<1>2. /\ y.cancelled = x.cancelled /\ y.fence = x.fence /\ y.read = "waking"
      /\ y.completed = x.completed /\ y.frontier = x.frontier
  BY <1>0 DEF Session
<1>3. Alike(x, y)
  <2>1. ~x.closed
    BY <1>0 DEF Sound, Coherent, Empty
  <2>2. QED
    BY <1>0, <2>1 DEF Session, Alike, Sound, Coherent
<1> HIDE DEF y
<1>4. Sound(s, y) /\ Calm(x, y)
  BY <1>0, <1>3, AlikeSound
<1>5. QED
  BY <1>0, <1>1, <1>2, <1>3, <1>4 DEF Good, Awake, Alike, Waking, y

\* WritePacket, Flush or CloseGracefully takes its fence from the controller.
LEMMA FencedShape ==
    ASSUME NEW s, NEW x \in Session, Sound(s, x), NEW d \in BOOLEAN, NEW a \in 0..MaxWrites,
           NEW f \in 0..MaxWrites, a >= x.admitted
    PROVE  LET z == [x EXCEPT !.draining = d, !.admitted = a, !.frontier = f, !.fence = "waking"]
           IN  z \in Session /\ Alike(x, z) /\ z.fence = "waking"
<1> DEFINE z == [x EXCEPT !.draining = d, !.admitted = a, !.frontier = f, !.fence = "waking"]
<1>1. z \in Session
  <2>1. "waking" \in Places
    BY DEF Places
  <2>2. QED
    BY <2>1, Zenon DEF Session
<1>2. Alike(x, z) /\ z.fence = "waking"
  BY DEF Session, Alike, Sound, Coherent, Empty
<1>3. QED
  BY <1>1, <1>2

LEMMA FencedGood ==
    ASSUME NEW s, NEW over, NEW x, Good(s, x, over), ~x.closed, NEW outcome \in Outcomes,
           NEW z \in Session, Alike(x, z), z.fence = "waking"
    PROVE  LET y == HandleSession(z, outcome)
           IN  Good(s, y, over) /\ Calm(x, y) /\ y.new = x.new /\ Waking(y)
<1> DEFINE y == HandleSession(z, outcome)
<1>1. Sound(s, z) /\ Calm(x, z)
  BY AlikeSound DEF Good
<1>2. Good(s, y, over) /\ Tame(z, y)
  BY <1>1, HandleSessionGood DEF Alike
<1> HIDE DEF y
<1>3. Calm(x, y)
  BY <1>1, <1>2, TameCalm, CalmTrans
<1>4. y.new = x.new /\ Waking(y)
  BY <1>2 DEF Alike, Tame, Roused, Waking
<1>5. QED
  BY <1>2, <1>3, <1>4 DEF y

\* CloseGracefully before there is a controller.
LEMMA StoppedGood ==
    ASSUME NEW s, NEW over, NEW x, Good(s, x, over), NEW d \in BOOLEAN
    PROVE  LET y == [x EXCEPT !.draining = d]
           IN  /\ Good(s, y, over) /\ Calm(x, y) /\ y.new = x.new /\ Quiet(x, y)
               /\ y.fence = x.fence
<1> DEFINE y == [x EXCEPT !.draining = d]
<1>0. x \in Session /\ Sound(s, x) /\ Awake(x, over)
  BY DEF Good
<1>1. y \in Session
  BY <1>0, Zenon DEF Session
<1>2. /\ y.cancelled = x.cancelled /\ y.fence = x.fence /\ y.read = x.read
      /\ y.completed = x.completed /\ y.frontier = x.frontier /\ y.delivery = x.delivery
      /\ y.admitted = x.admitted
  BY <1>0 DEF Session
<1>3. Alike(x, y)
  BY <1>0 DEF Session, Alike, Sound, Coherent, Empty
<1> HIDE DEF y
<1>4. Sound(s, y) /\ Calm(x, y)
  BY <1>0, <1>3, AlikeSound
<1>5. Quiet(x, y)
  BY <1>2, <1>3 DEF Alike, Quiet, Work, Waking
<1>6. QED
  BY <1>0, <1>1, <1>2, <1>3, <1>4, <1>5 DEF Good, Awake, Alike, y

\* The constructor of an outbound Session opens its carriers one after the other.
LEMMA BuildGood ==
    ASSUME NEW s, NEW over, NEW x, Good(s, x, over), s \in Outbound, s \notin Inbound,
           x.new \in {"open", "opened"},
           NEW O \in SUBSET Carriers, NEW P \in SUBSET Carriers, NEW k \in 1..(NumCarriers + 1),
           NEW p \in {"open", "opened", "failing"},
           x.closed => P = {}, p = "opened" => k \in Carriers,
           O \subseteq P \cup (IF p = "opened" THEN {k} ELSE {})
    PROVE  LET y == [x EXCEPT !.paths = P, !.open = O, !.next = k, !.new = p]
           IN  Good(s, y, over) /\ Calm(x, y) /\ Quiet(x, y)
<1> DEFINE y == [x EXCEPT !.paths = P, !.open = O, !.next = k, !.new = p]
<1>0. x \in Session /\ Sound(s, x) /\ Awake(x, over)
  BY DEF Good
<1>1. y \in Session
  <2>1. p \in Places
    BY DEF Places
  <2>2. QED
    BY <1>0, <2>1, Zenon DEF Session
<1>2. /\ y.made = x.made /\ y.closed = x.closed /\ y.controller = x.controller
      /\ y.cancelled = x.cancelled /\ y.delivery = x.delivery /\ y.frontier = x.frontier
      /\ y.accepted = x.accepted /\ y.paths = P /\ y.open = O /\ y.next = k
      /\ y.admitted = x.admitted /\ y.completed = x.completed
      /\ y.phase = x.phase /\ y.carrier = x.carrier /\ y.new = p /\ y.fence = x.fence
      /\ y.read = x.read /\ y.routes = x.routes /\ y.turn = x.turn
      /\ y.established = x.established /\ y.dialing = x.dialing
  BY <1>0 DEF Session
<1> HIDE DEF y
<1>3. x.made
  BY <1>0 DEF Sound, Coherent, Dials
<1>4. Sound(s, y)
  <2>1. x.closed => Empty(y)
    BY <1>0, <1>2 DEF Sound, Coherent, Empty
  <2>2. Dials(y) /\ Underway(y)
    BY <1>0, <1>2, <1>3 DEF Sound, Coherent, Dials, Underway
  <2>3. QED
    BY <1>0, <1>2, <1>3, <2>1, <2>2 DEF Sound, Coherent, Unregistered
<1>5. Calm(x, y)
  BY <1>2 DEF Calm
<1>6. Quiet(x, y)
  BY <1>2 DEF Quiet, Work, Waking
<1>7. QED
  BY <1>0, <1>1, <1>2, <1>4, <1>5, <1>6 DEF Good, Awake, y

LEMMA NewSessionGood ==
    ASSUME NEW s, NEW over, NEW x, Good(s, x, over), s \in Outbound, s \notin Inbound,
           x.new = "idle"
    PROVE  LET y == [x EXCEPT !.made = TRUE, !.new = "open"]
           IN  Good(s, y, over) /\ Quiet(x, y)
<1> DEFINE y == [x EXCEPT !.made = TRUE, !.new = "open"]
<1>0. x \in Session /\ Sound(s, x) /\ Awake(x, over)
  BY DEF Good
<1>1. y \in Session
  <2>1. "open" \in Places
    BY DEF Places
  <2>2. QED
    BY <1>0, <2>1, Zenon DEF Session
<1>2. /\ y.made = TRUE /\ y.closed = x.closed /\ y.controller = x.controller
      /\ y.cancelled = x.cancelled /\ y.delivery = x.delivery /\ y.frontier = x.frontier
      /\ y.accepted = x.accepted /\ y.paths = x.paths /\ y.open = x.open /\ y.next = x.next
      /\ y.admitted = x.admitted /\ y.completed = x.completed
      /\ y.phase = x.phase /\ y.carrier = x.carrier /\ y.new = "open" /\ y.fence = x.fence
      /\ y.read = x.read /\ y.routes = x.routes /\ y.turn = x.turn
  BY <1>0 DEF Session
<1> HIDE DEF y
<1>3. ~x.made /\ ~x.closed
  BY <1>0 DEF Sound, Coherent, Dials
<1>4. Sound(s, y)
  BY <1>0, <1>2, <1>3 DEF Sound, Coherent, Dials, Underway, Unregistered
<1>5. Quiet(x, y)
  BY <1>2 DEF Quiet, Work, Waking
<1>6. QED
  BY <1>0, <1>1, <1>2, <1>4, <1>5 DEF Good, Awake, y

\* BeginDial: the dial has an attempt when NewSession hands the Session over, or is closed.
LEMMA DialGood ==
    ASSUME NEW s, NEW over, NEW x, Good(s, x, over), s \in Outbound, s \notin Inbound,
           x.new = "open", ~x.closed, NEW n \in 0..NumCarriers
    PROVE  LET y == FallBack([x EXCEPT !.dialing = TRUE, !.new = "waking"], n)
           IN  Good(s, y, over) /\ Waking(y)
<1> DEFINE b == [x EXCEPT !.dialing = TRUE, !.new = "waking"]
           y == FallBack(b, n)
<1>0. x \in Session /\ Sound(s, x) /\ Awake(x, over)
  BY DEF Good
<1>1. b \in Session
  <2>1. "waking" \in Places
    BY DEF Places
  <2>2. QED
    BY <1>0, <2>1, Zenon DEF Session
<1>2. /\ b.made = x.made /\ b.closed = x.closed /\ b.controller = x.controller
      /\ b.cancelled = x.cancelled /\ b.delivery = x.delivery /\ b.frontier = x.frontier
      /\ b.accepted = x.accepted /\ b.paths = x.paths /\ b.open = x.open /\ b.next = x.next
      /\ b.admitted = x.admitted /\ b.completed = x.completed /\ b.dialing = TRUE
      /\ b.phase = x.phase /\ b.carrier = x.carrier /\ b.new = "waking" /\ b.fence = x.fence
      /\ b.read = x.read /\ b.routes = x.routes /\ b.turn = x.turn
  BY <1>0 DEF Session
<1> HIDE DEF b
<1>3. x.made /\ ~x.controller /\ x.phase # "pending"
  BY <1>0 DEF Sound, Coherent, Dials
<1>4. Coherent(s, b) /\ Awake(b, over)
  <2>1. Dials(b)
    BY <1>0, <1>2, <1>3 DEF Sound, Coherent, Dials
  <2>2. QED
    BY <1>0, <1>2, <1>3, <2>1 DEF Sound, Coherent, Unregistered, Awake
<1>5. CASE n = 0
  <2>1. y = Dispose(Forget(b))
    BY <1>5 DEF FallBack
  <2>2. Good(s, y, over) /\ Tame(b, y)
    BY <1>1, <1>2, <1>3, <1>4, <2>1, EndGood
  <2> HIDE DEF y
  <2>3. Waking(y)
    BY <1>2, <2>2 DEF Tame, Waking
  <2>4. QED
    BY <2>2, <2>3 DEF y, b
<1>6. CASE n # 0
  <2>1. n \in Carriers
    BY <1>6, LimitsAssumption DEF Carriers
  <2>2. Good(s, y, over) /\ y.new = b.new
    BY <1>1, <1>2, <1>3, <1>4, <2>1, FallBackOn
  <2> HIDE DEF y
  <2>3. Waking(y)
    BY <1>2, <2>2 DEF Waking
  <2>4. QED
    BY <2>2, <2>3 DEF y, b
<1>7. QED
  BY <1>5, <1>6

\* NewSession returns the Session it has built.
LEMMA ReturnsGood ==
    ASSUME NEW s, NEW over, NEW x, Good(s, x, over), s \in Outbound, s \notin Inbound,
           x.new = "waking"
    PROVE  LET y == [x EXCEPT !.new = "done"] IN Good(s, y, over) /\ Calm(x, y)
<1> DEFINE y == [x EXCEPT !.new = "done"]
<1>0. x \in Session /\ Sound(s, x) /\ Awake(x, over)
  BY DEF Good
<1>1. y \in Session
  <2>1. "done" \in Places
    BY DEF Places
  <2>2. QED
    BY <1>0, <2>1, Zenon DEF Session
<1>2. /\ y.made = x.made /\ y.closed = x.closed /\ y.controller = x.controller
      /\ y.cancelled = x.cancelled /\ y.delivery = x.delivery /\ y.frontier = x.frontier
      /\ y.accepted = x.accepted /\ y.paths = x.paths /\ y.open = x.open /\ y.next = x.next
      /\ y.admitted = x.admitted /\ y.completed = x.completed
      /\ y.phase = x.phase /\ y.carrier = x.carrier /\ y.new = "done" /\ y.fence = x.fence
      /\ y.read = x.read /\ y.routes = x.routes /\ y.turn = x.turn
      /\ y.established = x.established /\ y.dialing = x.dialing
  BY <1>0 DEF Session
<1> HIDE DEF y
<1>3. Sound(s, y)
  <2>1. Dials(y) /\ Underway(y)
    BY <1>0, <1>2 DEF Sound, Coherent, Dials, Underway
  <2>2. QED
    BY <1>0, <1>2, <2>1 DEF Sound, Coherent, Unregistered, Empty
<1>4. QED
  BY <1>0, <1>1, <1>2, <1>3 DEF Good, Awake, Calm, y

\* NewSession gives up: what it built goes.
LEMMA FailsGood ==
    ASSUME NEW s, NEW over, NEW x, Good(s, x, over), s \in Outbound, s \notin Inbound,
           x.new = "failing"
    PROVE  LET y == Dispose([x EXCEPT !.new = "done"])
           IN  Good(s, y, over) /\ Calm(x, y) /\ Quiet(x, y) /\ y.new = "done"
<1> DEFINE f == [x EXCEPT !.new = "done"]
<1>0. x \in Session /\ Sound(s, x) /\ Awake(x, over)
  BY DEF Good
<1>1. f \in Session
  <2>1. "done" \in Places
    BY DEF Places
  <2>2. QED
    BY <1>0, <2>1, Zenon DEF Session
<1>2. /\ f.made = x.made /\ f.closed = x.closed /\ f.controller = x.controller
      /\ f.cancelled = x.cancelled /\ f.delivery = x.delivery /\ f.frontier = x.frontier
      /\ f.accepted = x.accepted /\ f.paths = x.paths /\ f.open = x.open /\ f.next = x.next
      /\ f.admitted = x.admitted /\ f.completed = x.completed
      /\ f.phase = x.phase /\ f.carrier = x.carrier /\ f.new = "done" /\ f.fence = x.fence
      /\ f.read = x.read /\ f.routes = x.routes /\ f.turn = x.turn
      /\ f.established = x.established /\ f.dialing = x.dialing
  BY <1>0 DEF Session
<1>3. x.made /\ ~x.controller /\ x.phase = "none" /\ x.routes = {}
  BY <1>0 DEF Sound, Coherent, Dials, Session
<1>4. Calm(x, f) /\ Quiet(x, f)
  BY <1>2 DEF Calm, Quiet, Work, Waking
<1>5. CASE x.closed
  <2>1. Dispose(f) = f
    BY <1>2, <1>5 DEF Dispose
  <2> HIDE DEF f
  <2>2. Sound(s, f)
    BY <1>0, <1>2, <1>3, <1>5 DEF Sound, Coherent, Dials, Underway, Unregistered, Empty
  <2>3. QED
    BY <1>0, <1>1, <1>2, <1>4, <2>1, <2>2, ZenonT(60) DEF Good, Awake, f
<1>6. CASE ~x.closed
  <2> DEFINE z == [f EXCEPT !.closed = TRUE, !.cancelled = TRUE, !.delivery = 0,
                            !.open = @ \ f.paths, !.paths = {},
                            !.established = FALSE, !.dialing = FALSE, !.routes = {}, !.turn = 0]
  <2>1. Dispose(f) = Notify(z)
    BY <1>2, <1>3, <1>6 DEF Dispose
  <2> HIDE DEF f
  <2>2. z \in Session
    <3>1. /\ f.open \ f.paths \in SUBSET Carriers /\ {} \in SUBSET Carriers
          /\ {} \in SUBSET (0..NumCarriers) /\ 0 \in 0..DeliveryQueueCapacity /\ 0 \in Nat
      BY <1>1, LimitsAssumption DEF Session
    <3>2. QED
      BY <1>1, <3>1, Zenon DEF Session
  <2>3. /\ z.made = f.made /\ z.closed = TRUE /\ z.controller = f.controller
        /\ z.accepted = f.accepted /\ z.paths = {} /\ z.open = f.open \ f.paths /\ z.next = f.next
        /\ z.admitted = f.admitted /\ z.completed = f.completed /\ z.cancelled = TRUE
        /\ z.delivery = 0 /\ z.established = FALSE /\ z.dialing = FALSE /\ z.routes = {}
        /\ z.turn = 0 /\ z.phase = f.phase /\ z.carrier = f.carrier /\ z.new = f.new
        /\ z.fence = f.fence /\ z.read = f.read
    BY <1>1 DEF Session
  <2> HIDE DEF z
  <2>4. z.open = {}
    BY <1>0, <1>2, <2>3 DEF Sound, Coherent, Unregistered
  <2>5. Sound(s, z)
    <3>1. Empty(z)
      BY <1>2, <1>3, <2>3 DEF Empty
    <3>2. Dials(z) /\ Underway(z)
      BY <1>0, <1>2, <1>3, <2>3 DEF Dials, Underway
    <3>3. QED
      BY <1>0, <1>2, <1>3, <2>3, <2>4, <3>1, <3>2 DEF Sound, Coherent
  <2>6. Good(s, Notify(z), over) /\ Tame(z, Notify(z))
    BY <2>2, <2>5, NotifyGood
  <2>7. Calm(f, z) /\ Quiet(f, z)
    BY <2>3 DEF Calm, Quiet, Work, Waking
  <2>8. Calm(x, Notify(z)) /\ Quiet(x, Notify(z))
    BY <1>4, <2>6, <2>7, TameCalm, CalmTrans DEF Quiet
  <2>9. Notify(z).new = "done"
    BY <1>2, <2>3, <2>6 DEF Tame
  <2>10. QED
    BY <2>1, <2>6, <2>8, <2>9 DEF f
<1>7. QED
  BY <1>5, <1>6

----------------------------------------------------------------------------
(* The Peer: what a step on some Sessions leaves true of the whole.        *)

LEMMA InboundOnly ==
    ASSUME NEW s \in Inbound
    PROVE  s \in Sessions /\ s \notin Outbound
BY SessionsAssumption DEF Sessions

LEMMA OutboundOnly ==
    ASSUME NEW s \in Outbound
    PROVE  s \in Sessions /\ s \notin Inbound
BY SessionsAssumption DEF Sessions

\* Calm steps leave reservations and queue within what they were.
LEMMA CalmSets ==
    ASSUME AcceptInv, \A s \in Inbound : Calm(sessions[s], sessions'[s])
    PROVE  /\ IsFiniteSet(Installed') /\ IsFiniteSet(Reserved')
           /\ Cardinality(Reserved') <= MaxPendingAccepts
           /\ Queue' \subseteq Queue
<1>1. Installed' \subseteq Installed
  BY DEF Installed, Calm
<1>2. Reserved' \subseteq Reserved
  BY DEF Reserved, Calm
<1>3. Queue' \subseteq Queue
  BY DEF Queue, Calm
<1>4. IsFiniteSet(Installed') /\ IsFiniteSet(Reserved')
  BY <1>1, <1>2, FS_Subset DEF AcceptInv
<1>5. Cardinality(Reserved') <= Cardinality(Reserved)
  BY <1>2, FS_Subset DEF AcceptInv
<1>6. Cardinality(Reserved) \in Nat /\ Cardinality(Reserved') \in Nat
  BY <1>4, FS_CardinalityType DEF AcceptInv
<1>7. QED
  BY <1>3, <1>4, <1>5, <1>6, LimitsAssumption DEF AcceptInv

\* What is left to show for a step that keeps to its Sessions.
LEMMA OwnSessions ==
    ASSUME PeerInv,
           sessions' \in [Sessions -> Session],
           \A s \in Sessions : Good(s, sessions'[s], ParentDone(s)),
           \A s \in Inbound : Calm(sessions[s], sessions'[s]),
           peer.closed => \A s \in Sessions : Calm(sessions[s], sessions'[s]),
           UNCHANGED <<scenario, cutOff, listener, peer, calls, overflow>>,
           driver' \in {"compute", "select", "stopped"}, armed' \in BOOLEAN, wake' \in BOOLEAN,
           calls.closePeer = "done" => driver' = "stopped" /\ \A s \in Outbound : ~Constructing(s)'
    PROVE  TypeOK' /\ GoodSessions' /\ ListenerInv' /\ ClosingInv' /\ AcceptInv'
<1> USE DEF PeerInv
<1>1. TypeOK'
  BY DEF TypeOK
<1>2. GoodSessions'
  BY DEF GoodSessions, ParentDone
<1>3. ListenerInv'
  BY DEF ListenerInv, Calm
<1>4. ClosingInv'
  <2>1. ASSUME peer.closed, NEW s \in Sessions
        PROVE  /\ sessions'[s].made => sessions'[s].closed
               /\ sessions'[s].phase = "none" /\ sessions'[s].routes = {}
    <3>1. /\ sessions[s].made => sessions[s].closed
          /\ sessions[s].phase = "none"
      BY <2>1 DEF ClosingInv
    <3>2. Calm(sessions[s], sessions'[s]) /\ Good(s, sessions'[s], ParentDone(s))
      BY <2>1
    <3>3. QED
      BY <3>1, <3>2 DEF Calm, Good, Sound, Coherent
  <2>2. QED
    BY <2>1 DEF ClosingInv
<1>5. AcceptInv'
  <2>1. /\ IsFiniteSet(Installed') /\ IsFiniteSet(Reserved')
        /\ Cardinality(Reserved') <= MaxPendingAccepts /\ Queue' \subseteq Queue
    BY CalmSets
  <2>2. QED
    BY <2>1 DEF AcceptInv, ListenerDone
<1>6. QED
  BY <1>1, <1>2, <1>3, <1>4, <1>5

\* A caller's step on its Session: it adds no deadline, or it wakes the dispatcher
\* or is about to.
LEMMA ActsStep ==
    ASSUME PeerInv, NEW s \in Sessions, NEW y,
           Good(s, y, ParentDone(s)), Acts(s, y),
           s \in Inbound \/ peer.closed => Calm(sessions[s], y),
           wake' \in BOOLEAN, wake => wake',
           wake' \/ Waking(y) \/ Quiet(sessions[s], y),
           peer.closed => y.new \in {"idle", "done"} \/ sessions[s].new \notin {"idle", "done"}
    PROVE  PeerInv'
<1>0. /\ sessions \in [Sessions -> Session] /\ y \in Session
      /\ \A t \in Sessions : Good(t, sessions[t], ParentDone(t))
  BY DEF PeerInv, TypeOK, GoodSessions, Good
<1>1. /\ sessions' \in [Sessions -> Session]
      /\ sessions'[s] = y /\ \A t \in Sessions \ {s} : sessions'[t] = sessions[t]
  BY <1>0 DEF Acts
<1>2. \A t \in Sessions : Good(t, sessions'[t], ParentDone(t))
  BY <1>0, <1>1
<1>3. \A t \in Sessions : t # s => Calm(sessions[t], sessions'[t])
  BY <1>1 DEF Calm
<1>4. \A t \in Inbound : Calm(sessions[t], sessions'[t])
  BY <1>1, <1>3, InboundOnly
<1>5. peer.closed => \A t \in Sessions : Calm(sessions[t], sessions'[t])
  BY <1>1, <1>3
<1>6. calls.closePeer = "done" => driver' = "stopped" /\ \A t \in Outbound : ~Constructing(t)'
  <2>1. calls.closePeer = "done" => /\ peer.closed /\ driver = "stopped"
                                    /\ \A t \in Outbound : sessions[t].new \in {"idle", "done"}
    BY DEF PeerInv, ClosingInv, Constructing
  <2>2. calls.closePeer = "done" => \A t \in Outbound : sessions'[t].new \in {"idle", "done"}
    BY <1>1, <2>1, OutboundOnly
  <2>3. QED
    BY <2>1, <2>2 DEF Acts, Constructing
<1>7. TypeOK' /\ GoodSessions' /\ ListenerInv' /\ ClosingInv' /\ AcceptInv'
  <2>1. /\ UNCHANGED <<scenario, cutOff, listener, peer, calls, overflow>>
        /\ driver' \in {"compute", "select", "stopped"} /\ armed' \in BOOLEAN
    BY DEF Acts, PeerInv, TypeOK
  <2>2. QED
    BY <1>1, <1>2, <1>4, <1>5, <1>6, <2>1, OwnSessions
<1>8. DeadlineInv'
  <2>1. SUFFICES ASSUME driver' = "select", ~armed', HasDeadline', ~wake'
                 PROVE  \E t \in Sessions : Waking(sessions'[t])
    BY DEF DeadlineInv
  <2>2. CASE Waking(y)
    BY <1>1, <2>2
  <2>3. CASE Quiet(sessions[s], y)
    <3>1. HasDeadline
      BY <1>1, <2>1, <2>3 DEF HasDeadline, Quiet, Acts
    <3>2. PICK t \in Sessions : Waking(sessions[t])
      BY <2>1, <3>1 DEF PeerInv, DeadlineInv, Acts
    <3>3. Waking(sessions'[t])
      BY <1>1, <2>3, <3>2 DEF Quiet
    <3>4. QED
      BY <3>3
  <2>4. QED
    BY <2>1, <2>2, <2>3
<1>9. QED
  BY <1>7, <1>8 DEF PeerInv

\* A step of the dispatcher: the deadlines are computed next.
LEMMA ServeStep ==
    ASSUME PeerInv, NEW new,
           Serve(new), UNCHANGED <<listener, calls, overflow>>,
           new \in [Sessions -> Session],
           \A s \in Sessions : Good(s, new[s], ParentDone(s)),
           \A s \in Inbound : Calm(sessions[s], new[s])
    PROVE  PeerInv'
<1>0. /\ sessions \in [Sessions -> Session]
      /\ \A t \in Sessions : Good(t, sessions[t], ParentDone(t))
  BY DEF PeerInv, TypeOK, GoodSessions
<1>1. sessions' = sessions \/ (~peer.closed /\ sessions' = new)
  BY DEF Serve
<1>2. /\ sessions' \in [Sessions -> Session]
      /\ \A s \in Sessions : Good(s, sessions'[s], ParentDone(s))
  BY <1>0, <1>1
<1>3. /\ \A s \in Inbound : Calm(sessions[s], sessions'[s])
      /\ peer.closed => \A s \in Sessions : Calm(sessions[s], sessions'[s])
  BY <1>1 DEF Calm
<1>4. /\ driver = "select" /\ driver' = "compute" /\ armed' = FALSE
      /\ UNCHANGED <<scenario, cutOff, peer, wake>>
  BY DEF Serve, Turn
<1>5. calls.closePeer # "done"
  BY <1>4 DEF PeerInv, ClosingInv
<1>6. TypeOK' /\ GoodSessions' /\ ListenerInv' /\ ClosingInv' /\ AcceptInv'
  <2>1. wake' \in BOOLEAN
    BY <1>4 DEF PeerInv, TypeOK
  <2>2. QED
    BY <1>2, <1>3, <1>4, <1>5, <2>1, OwnSessions
<1>7. DeadlineInv'
  BY <1>4 DEF DeadlineInv
<1>8. QED
  BY <1>6, <1>7 DEF PeerInv

LEMMA ServeOneStep ==
    ASSUME PeerInv, NEW s \in Sessions, NEW y, ServeOne(s, y),
           Good(s, y, ParentDone(s)), s \in Inbound => Calm(sessions[s], y)
    PROVE  PeerInv'
<1> DEFINE new == [sessions EXCEPT ![s] = y]
<1>1. /\ sessions \in [Sessions -> Session] /\ y \in Session
      /\ \A t \in Sessions : Good(t, sessions[t], ParentDone(t))
  BY DEF PeerInv, TypeOK, GoodSessions, Good
<1>2. /\ new \in [Sessions -> Session]
      /\ new[s] = y /\ \A t \in Sessions \ {s} : new[t] = sessions[t]
  BY <1>1
<1>3. Serve(new) /\ UNCHANGED <<listener, calls, overflow>>
  BY DEF ServeOne
<1> HIDE DEF new
<1>4. \A t \in Inbound : Calm(sessions[t], new[t])
  BY <1>2, InboundOnly DEF Calm
<1>5. QED
  BY <1>1, <1>2, <1>3, <1>4, ServeStep

----------------------------------------------------------------------------
(* The steps of callers.                                                   *)

LEMMA InvGood ==
    ASSUME PeerInv, NEW s \in Sessions
    PROVE  Good(s, sessions[s], ParentDone(s)) /\ sessions[s] \in Session
BY DEF PeerInv, GoodSessions, Good

LEMMA WakeOK ==
    ASSUME PeerInv, wake' = wake \/ wake' = TRUE
    PROVE  wake' \in BOOLEAN /\ (wake => wake')
BY DEF PeerInv, TypeOK

\* newSession.
LEMMA NewSessionStep ==
    ASSUME PeerInv, NEW s \in Sessions, NewSession(s)
    PROVE  PeerInv'
<1> DEFINE x == sessions[s]
           y == [x EXCEPT !.made = TRUE, !.new = "open"]
<1>1. x.new = "idle" /\ s \in Outbound /\ s \notin Inbound /\ ~peer.closed
      /\ Acts(s, y) /\ wake' = wake
  BY OutboundOnly DEF NewSession, Locked
<1>2. Good(s, y, ParentDone(s)) /\ Quiet(x, y)
  BY <1>1, InvGood, NewSessionGood
<1> HIDE DEF y
<1>3. QED
  BY <1>1, <1>2, WakeOK, ActsStep

\* openCarrier.
LEMMA OpenCarrierStep ==
    ASSUME PeerInv, NEW s \in Sessions, NEW ok \in BOOLEAN, OpenCarrier(s, ok)
    PROVE  PeerInv'
<1> DEFINE x == sessions[s]
           k == x.next
           up == [x EXCEPT !.open = @ \cup {x.next}, !.new = "opened"]
           down == [x EXCEPT !.new = "failing"]
           y == IF ok THEN up ELSE down
<1>1. x.new = "open" /\ x.next <= NumCarriers /\ Acts(s, y) /\ wake' = wake
  BY DEF OpenCarrier, Locked
<1>2. Good(s, x, ParentDone(s)) /\ x \in Session
  BY InvGood
<1>3. s \in Outbound /\ s \notin Inbound
  BY <1>1, <1>2, OutboundOnly DEF Good, Sound, Coherent, Answers, Sessions
<1>4. /\ x.open \subseteq x.paths /\ (x.closed => x.paths = {})
      /\ x.next \in Carriers /\ x.paths \in SUBSET Carriers /\ x.open \in SUBSET Carriers
      /\ x.next \in 1..(NumCarriers + 1)
  BY <1>1, <1>2, LimitsAssumption
     DEF Good, Sound, Coherent, Unregistered, Empty, Session, Carriers
<1>5. up = [x EXCEPT !.paths = x.paths, !.open = x.open \cup {k}, !.next = k, !.new = "opened"]
  BY <1>2 DEF Session
<1>6. down = [x EXCEPT !.paths = x.paths, !.open = x.open, !.next = k, !.new = "failing"]
  BY <1>2 DEF Session
<1> HIDE DEF up, down, x
<1>7. Good(s, up, ParentDone(s)) /\ Calm(x, up) /\ Quiet(x, up)
  BY <1>1, <1>2, <1>3, <1>4, <1>5, BuildGood, ZenonT(60)
<1>8. Good(s, down, ParentDone(s)) /\ Calm(x, down) /\ Quiet(x, down)
  BY <1>1, <1>2, <1>3, <1>4, <1>6, BuildGood
<1>9. Good(s, y, ParentDone(s)) /\ Calm(x, y) /\ Quiet(x, y)
  BY <1>7, <1>8
<1> HIDE DEF y
<1>10. QED
  BY <1>1, <1>9, WakeOK, ActsStep DEF x

LEMMA RegisterCarrierStep ==
    ASSUME PeerInv, NEW s \in Sessions, RegisterCarrier(s)
    PROVE  PeerInv'
<1> DEFINE x == sessions[s]
           k == x.next
           down == [x EXCEPT !.open = @ \ {x.next}, !.new = "failing"]
           up == [x EXCEPT !.paths = @ \cup {x.next}, !.next = @ + 1, !.new = "open"]
           y == IF x.closed \/ peer.closed \/ ContextDone(s) THEN down ELSE up
<1>1. x.new = "opened" /\ Acts(s, y) /\ wake' = wake
  BY DEF RegisterCarrier, Locked
<1>2. Good(s, x, ParentDone(s)) /\ x \in Session
  BY InvGood
<1>3. s \in Outbound /\ s \notin Inbound
  BY <1>1, <1>2, OutboundOnly DEF Good, Sound, Coherent, Answers, Sessions
<1>4. /\ x.open \subseteq x.paths \cup {k} /\ (x.closed => x.paths = {})
      /\ k \in Carriers /\ x.paths \in SUBSET Carriers /\ x.open \in SUBSET Carriers
      /\ k \in 1..(NumCarriers + 1) /\ k + 1 \in 1..(NumCarriers + 1)
  BY <1>1, <1>2, <1>3, LimitsAssumption
     DEF Good, Sound, Coherent, Dials, Unregistered, Empty, Session, Carriers
<1>5. up = [x EXCEPT !.paths = x.paths \cup {k}, !.open = x.open, !.next = k + 1, !.new = "open"]
  BY <1>2 DEF Session
<1>6. down = [x EXCEPT !.paths = x.paths, !.open = x.open \ {k}, !.next = k, !.new = "failing"]
  BY <1>2 DEF Session
<1> HIDE DEF up, down, x, k
<1>7. ~x.closed => Good(s, up, ParentDone(s)) /\ Calm(x, up) /\ Quiet(x, up)
  <2>1. x.open \in SUBSET Carriers /\ x.paths \cup {k} \in SUBSET Carriers
    BY <1>4
  <2>2. x.open \subseteq (x.paths \cup {k}) \cup (IF "open" = "opened" THEN {k + 1} ELSE {})
    BY <1>4
  <2>3. QED
    BY <1>1, <1>2, <1>3, <1>4, <1>5, <2>1, <2>2, BuildGood, ZenonT(60)
<1>8. Good(s, down, ParentDone(s)) /\ Calm(x, down) /\ Quiet(x, down)
  <2>1. x.open \ {k} \in SUBSET Carriers
    BY <1>4
  <2>2. x.open \ {k} \subseteq x.paths \cup (IF "failing" = "opened" THEN {k} ELSE {})
    BY <1>4
  <2>3. QED
    BY <1>1, <1>2, <1>3, <1>4, <1>6, <2>1, <2>2, BuildGood, ZenonT(60)
<1>9. Good(s, y, ParentDone(s)) /\ Calm(x, y) /\ Quiet(x, y)
  BY <1>7, <1>8
<1> HIDE DEF y
<1>10. QED
  BY <1>1, <1>9, WakeOK, ActsStep DEF x

LEMMA BeginDialStep ==
    ASSUME PeerInv, NEW s \in Sessions, NEW n \in 0..NumCarriers, NEW started \in BOOLEAN,
           BeginDial(s, n, started)
    PROVE  PeerInv'
<1> DEFINE x == sessions[s]
           k == x.next
           down == [x EXCEPT !.new = "failing"]
           up == FallBack([x EXCEPT !.dialing = TRUE, !.new = "waking"], n)
           over == ContextDone(s) \/ x.closed \/ ~started
           y == IF over THEN down ELSE up
<1>1. x.new = "open" /\ Acts(s, y) /\ wake' = wake
  BY DEF BeginDial, Locked
<1>2. Good(s, x, ParentDone(s)) /\ x \in Session
  BY InvGood
<1>3. s \in Outbound /\ s \notin Inbound /\ x.made
  BY <1>1, <1>2, OutboundOnly DEF Good, Sound, Coherent, Answers, Dials, Sessions
<1>4. /\ x.open \subseteq x.paths /\ (x.closed => x.paths = {})
      /\ x.paths \in SUBSET Carriers /\ x.open \in SUBSET Carriers
      /\ k \in 1..(NumCarriers + 1)
  BY <1>1, <1>2 DEF Good, Sound, Coherent, Unregistered, Empty, Session
<1>5. peer.closed => over
  BY <1>3 DEF PeerInv, ClosingInv
<1>6. down = [x EXCEPT !.paths = x.paths, !.open = x.open, !.next = k, !.new = "failing"]
  BY <1>2 DEF Session
<1>7. ~over => Good(s, up, ParentDone(s)) /\ Waking(up)
  BY <1>1, <1>2, <1>3, DialGood, ZenonT(60)
<1> HIDE DEF up, down, x, over
<1>8. Good(s, down, ParentDone(s)) /\ Calm(x, down) /\ Quiet(x, down)
  BY <1>1, <1>2, <1>3, <1>4, <1>6, BuildGood, ZenonT(60)
<1>9. /\ Good(s, y, ParentDone(s)) /\ (peer.closed => Calm(x, y))
      /\ Waking(y) \/ Quiet(x, y)
  BY <1>5, <1>7, <1>8
<1> HIDE DEF y
<1>10. QED
  BY <1>1, <1>3, <1>9, WakeOK, ActsStep DEF x

LEMMA NewSessionReturnsStep ==
    ASSUME PeerInv, NEW s \in Sessions, NewSessionReturns(s)
    PROVE  PeerInv'
<1> DEFINE x == sessions[s]
           y == [x EXCEPT !.new = "done"]
<1>1. x.new = "waking" /\ Acts(s, y) /\ wake' = TRUE
  BY DEF NewSessionReturns, WakeDriver
<1>2. Good(s, x, ParentDone(s)) /\ x \in Session
  BY InvGood
<1>3. s \in Outbound /\ s \notin Inbound
  BY <1>1, <1>2, OutboundOnly DEF Good, Sound, Coherent, Answers, Sessions
<1>4. Good(s, y, ParentDone(s)) /\ Calm(x, y)
  BY <1>1, <1>2, <1>3, ReturnsGood
<1> HIDE DEF y
<1>5. QED
  BY <1>1, <1>4, WakeOK, ActsStep

LEMMA NewSessionFailsStep ==
    ASSUME PeerInv, NEW s \in Sessions, NewSessionFails(s)
    PROVE  PeerInv'
<1> DEFINE x == sessions[s]
           y == Dispose([x EXCEPT !.new = "done"])
<1>1. x.new = "failing" /\ Acts(s, y) /\ wake' = wake
  BY DEF NewSessionFails, Locked
<1>2. Good(s, x, ParentDone(s)) /\ x \in Session
  BY InvGood
<1>3. s \in Outbound /\ s \notin Inbound
  BY <1>1, <1>2, OutboundOnly DEF Good, Sound, Coherent, Answers, Sessions
<1>4. Good(s, y, ParentDone(s)) /\ Calm(x, y) /\ Quiet(x, y) /\ y.new = "done"
  BY <1>1, <1>2, <1>3, FailsGood
<1> HIDE DEF y
<1>5. QED
  BY <1>1, <1>4, WakeOK, ActsStep

\* WritePacket, Flush and CloseGracefully up to the end of their section.
LEMMA FenceCallStep ==
    ASSUME PeerInv, NEW s \in Sessions, NEW outcome \in Outcomes, NEW refused \in BOOLEAN,
           FenceCall(s, outcome, refused)
    PROVE  PeerInv'
<1> DEFINE x == sessions[s]
           writes == Kind({"write", "async"})
           stopped == [x EXCEPT !.draining = @ \/ Kind({"grace"})]
           admitted == [stopped EXCEPT !.admitted = IF writes /\ ~refused THEN @ + 1 ELSE @]
           fenced == [admitted EXCEPT !.frontier = IF refused THEN 0 ELSE admitted.admitted,
                                      !.fence = "waking"]
           y == IF x.controller THEN HandleSession(fenced, outcome)
                ELSE [stopped EXCEPT !.fence = Returned]
<1>1. /\ x.fence = "idle" /\ ~x.closed /\ (writes /\ x.controller /\ ~refused => x.admitted < MaxWrites)
      /\ Acts(s, y) /\ wake' = wake
  <2>1. x.fence = "idle" /\ ~x.closed /\ (writes /\ x.controller /\ ~refused => x.admitted < MaxWrites)
    BY Zenon DEF FenceCall
  <2>2. Locked(s, y)
    BY Zenon DEF FenceCall
  <2>3. QED
    BY <2>1, <2>2, Zenon DEF Locked
<1>2. Good(s, x, ParentDone(s)) /\ x \in Session
  BY InvGood
<1>3. PICK d \in BOOLEAN : stopped = [x EXCEPT !.draining = d]
  <2>1. (x.draining \/ Kind({"grace"})) \in BOOLEAN
    OBVIOUS
  <2>2. QED
    BY <2>1, Zenon
<1> HIDE DEF stopped
<1>4. /\ Good(s, stopped, ParentDone(s)) /\ Calm(x, stopped) /\ stopped.new = x.new
      /\ Quiet(x, stopped) /\ stopped.fence = x.fence
  BY <1>2, <1>3, StoppedGood
<1>5. stopped \in Session /\ stopped.admitted = x.admitted
  BY <1>2, <1>3, <1>4 DEF Good, Session
<1>6. CASE x.controller
  <2>1. PICK a \in 0..MaxWrites : /\ a >= x.admitted
                                /\ a = IF writes /\ ~refused THEN x.admitted + 1 ELSE x.admitted
    BY <1>1, <1>2, <1>6, LimitsAssumption DEF Session
  <2>2. admitted = [stopped EXCEPT !.admitted = a] /\ admitted.admitted = a
    BY <1>5, <2>1 DEF Session
  <2> HIDE DEF admitted, writes
  <2>0. PICK f \in 0..MaxWrites : f = IF refused THEN 0 ELSE a
    BY <2>1, LimitsAssumption
  <2> DEFINE z == [x EXCEPT !.draining = d, !.admitted = a, !.frontier = f, !.fence = "waking"]
             w == HandleSession(z, outcome)
  <2>3. fenced = z
    BY <1>2, <1>3, <2>0, <2>2 DEF Session
  <2>4. Good(s, w, ParentDone(s)) /\ Calm(x, w) /\ w.new = x.new /\ Waking(w)
    <3>1. ~x.closed /\ a >= x.admitted /\ a \in 0..MaxWrites /\ f \in 0..MaxWrites /\ d \in BOOLEAN
      BY <1>1, <2>0, <2>1
    <3>2. z \in Session /\ Alike(x, z) /\ z.fence = "waking"
      BY <1>2, <3>1, FencedShape, ZenonT(60) DEF Good
    <3> HIDE DEF x, z
    <3>3. QED
      BY <1>2, <3>1, <3>2, FencedGood
  <2>5. Acts(s, w)
    BY <1>1, <1>6, <2>3
  <2> HIDE DEF w
  <2>6. QED
    BY <1>1, <2>4, <2>5, WakeOK, ActsStep
<1>7. CASE ~x.controller
  <2> DEFINE w == [stopped EXCEPT !.fence = Returned]
  <2>1. Returned \in Places /\ Returned # "asleep"
    BY DEF Returned, Places
  <2>2. /\ Good(s, w, ParentDone(s)) /\ Calm(stopped, w) /\ w.new = stopped.new
        /\ stopped.fence = "waking" \/ Quiet(stopped, w)
    BY <1>4, <2>1, FenceMoves
  <2>3. Acts(s, w)
    BY <1>1, <1>7
  <2> HIDE DEF w
  <2>4. Calm(x, w) /\ Quiet(x, w) /\ w.new = x.new
    BY <1>1, <1>4, <2>2, CalmTrans DEF Quiet
  <2>5. QED
    BY <1>1, <2>2, <2>3, <2>4, WakeOK, ActsStep
<1>8. QED
  BY <1>6, <1>7

\* The caller of a fence moves on; the first wakes the dispatcher.
LEMMA FenceStep ==
    ASSUME PeerInv, NEW s \in Sessions,
           \/ FenceWakesDriver(s) \/ CheckFence(s) \/ FenceInterrupted(s) \/ FenceTimesOut(s)
    PROVE  PeerInv'
<1> DEFINE x == sessions[s]
<1>1. Good(s, x, ParentDone(s)) /\ x \in Session
  BY InvGood
<1>2. ASSUME NEW p \in Places, Acts(s, [x EXCEPT !.fence = p]), wake' = wake \/ wake' = TRUE,
             wake' = TRUE \/ x.fence # "waking",
             p = "asleep" => x.completed < x.frontier \/ x.cancelled \/ ParentDone(s)
      PROVE  PeerInv'
  <2> DEFINE y == [x EXCEPT !.fence = p]
  <2>1. /\ Good(s, y, ParentDone(s)) /\ Calm(x, y) /\ y.new = x.new
        /\ x.fence = "waking" \/ Quiet(x, y)
    BY <1>1, <1>2, FenceMoves
  <2> HIDE DEF y
  <2>2. Acts(s, y)
    BY <1>2 DEF y
  <2>3. QED
    BY <1>2, <2>1, <2>2, WakeOK, ActsStep
<1>3. Returned \in Places \ {"asleep"} /\ {"idle", "check", "asleep"} \subseteq Places
  BY DEF Returned, Places
<1>4. CASE FenceWakesDriver(s)
  <2>1. /\ wake' = TRUE
        /\ Acts(s, [x EXCEPT !.fence = "check"]) \/ Acts(s, [x EXCEPT !.fence = "idle"])
    BY <1>4 DEF FenceWakesDriver, WakeDriver
  <2>2. QED
    BY <1>2, <1>3, <2>1
<1>5. CASE CheckFence(s)
  <2> DEFINE over == x.closed \/ ~x.controller \/ ContextDone(s) \/ x.completed >= x.frontier
             p == IF over THEN Returned ELSE "asleep"
  <2>1. x.fence = "check" /\ Acts(s, [x EXCEPT !.fence = p]) /\ wake' = wake
    BY <1>5 DEF CheckFence, Locked
  <2>2. p = "asleep" => x.completed < x.frontier
    <3>1. x.completed \in Int /\ x.frontier \in Int
      BY <1>1 DEF Session
    <3>2. QED
      BY <1>3, <3>1
  <2>3. p \in Places
    BY <1>3
  <2> HIDE DEF p
  <2>4. QED
    BY <1>2, <2>1, <2>2, <2>3
<1>6. CASE FenceInterrupted(s)
  BY <1>2, <1>3, <1>6 DEF FenceInterrupted, Locked
<1>7. CASE FenceTimesOut(s)
  BY <1>2, <1>3, <1>7 DEF FenceTimesOut, Locked
<1>8. QED
  BY <1>4, <1>5, <1>6, <1>7

\* The caller of ReadPacket.
LEMMA ReadStep ==
    ASSUME PeerInv, NEW s \in Sessions,
           ReadCall(s) \/ CheckDelivery(s) \/ ReadWakesDriver(s) \/ ReadInterrupted(s)
    PROVE  PeerInv'
<1> DEFINE x == sessions[s]
<1>1. Good(s, x, ParentDone(s)) /\ x \in Session
  BY InvGood
<1>2. ASSUME NEW p \in Places, Acts(s, [x EXCEPT !.read = p]), wake' = wake \/ wake' = TRUE,
             wake' = TRUE \/ x.read # "waking",
             p = "asleep" => x.delivery = 0 \/ x.cancelled \/ ParentDone(s)
      PROVE  PeerInv'
  <2> DEFINE y == [x EXCEPT !.read = p]
  <2>1. /\ Good(s, y, ParentDone(s)) /\ Calm(x, y) /\ y.new = x.new
        /\ x.read = "waking" \/ Quiet(x, y)
    BY <1>1, <1>2, ReadMoves
  <2> HIDE DEF y
  <2>2. Acts(s, y)
    BY <1>2 DEF y
  <2>3. QED
    BY <1>2, <2>1, <2>2, WakeOK, ActsStep
<1>3. {"idle", "check", "asleep"} \subseteq Places
  BY DEF Places
<1>4. CASE ReadCall(s)
  BY <1>2, <1>3, <1>4 DEF ReadCall, Locked
<1>5. CASE CheckDelivery(s)
  <2>0. x.read = "check"
    BY <1>5 DEF CheckDelivery
  <2>1. CASE x.closed \/ ContextDone(s)
    BY <1>2, <1>3, <1>5, <2>0, <2>1 DEF CheckDelivery, Locked
  <2>2. CASE ~(x.closed \/ ContextDone(s)) /\ x.delivery > 0
    <3> DEFINE y == [x EXCEPT !.delivery = @ - 1, !.read = "waking"]
    <3>1. Acts(s, y) /\ wake' = wake
      BY <1>5, <2>2 DEF CheckDelivery, Locked
    <3>2. Good(s, y, ParentDone(s)) /\ Calm(x, y) /\ y.new = x.new /\ Waking(y)
      BY <1>1, <2>2, DeliveryTaken
    <3> HIDE DEF y
    <3>3. QED
      BY <3>1, <3>2, WakeOK, ActsStep
  <2>3. CASE ~(x.closed \/ ContextDone(s)) /\ ~(x.delivery > 0)
    <3>1. Acts(s, [x EXCEPT !.read = "asleep"]) /\ wake' = wake
      BY <1>5, <2>3 DEF CheckDelivery, Locked
    <3>2. x.delivery = 0
      BY <1>1, <2>3, LimitsAssumption DEF Session
    <3>3. QED
      BY <1>2, <1>3, <2>0, <3>1, <3>2
  <2>4. QED
    BY <2>1, <2>2, <2>3
<1>6. CASE ReadWakesDriver(s)
  BY <1>2, <1>3, <1>6 DEF ReadWakesDriver, WakeDriver
<1>7. CASE ReadInterrupted(s)
  BY <1>2, <1>3, <1>7 DEF ReadInterrupted, Locked
<1>8. QED
  BY <1>4, <1>5, <1>6, <1>7

\* The two sections of Close, called by the user or at the end of CloseGracefully.
LEMMA CancelStep ==
    ASSUME PeerInv, NEW s \in Sessions, NEW x,
           Good(s, x, ParentDone(s)), Calm(sessions[s], x), Quiet(sessions[s], x),
           x.new = sessions[s].new, Cancel(s, x)
    PROVE  PeerInv'
<1> DEFINE y == [x EXCEPT !.cancelled = TRUE]
<1>1. Acts(s, y) /\ wake' = wake
  BY DEF Cancel, Locked
<1>2. Good(s, y, ParentDone(s)) /\ Calm(x, y) /\ y.new = x.new /\ Quiet(x, y)
  BY CancelledGood
<1> HIDE DEF y
<1>3. Calm(sessions[s], y) /\ Quiet(sessions[s], y)
  BY <1>2, CalmTrans DEF Quiet
<1>4. QED
  BY <1>1, <1>2, <1>3, WakeOK, ActsStep

LEMMA CloseLockedStep ==
    ASSUME PeerInv, NEW s \in Sessions, NEW x,
           Good(s, x, ParentDone(s)), Calm(sessions[s], x),
           x.new = sessions[s].new, CloseLocked(s, x)
    PROVE  PeerInv'
<1> DEFINE y == CloseSession(x)
<1>1. Acts(s, y) /\ wake' = TRUE
  BY DEF CloseLocked
<1>2. Good(s, y, ParentDone(s)) /\ Tame(x, y)
  BY CloseSessionGood
<1> HIDE DEF y
<1>3. Calm(sessions[s], y) /\ y.new = sessions[s].new
  BY <1>2, TameCalm, CalmTrans DEF Tame
<1>4. QED
  BY <1>1, <1>2, <1>3, WakeOK, ActsStep

LEMMA CloseStep ==
    ASSUME PeerInv, NEW s \in Sessions,
           GraceCloses(s) \/ GraceClosed(s) \/ CloseCall(s) \/ CloseReturns(s)
    PROVE  PeerInv'
<1> DEFINE x == sessions[s]
<1>1. Good(s, x, ParentDone(s))
  BY InvGood
<1>2. "cancelled" \in Places /\ "done" \in Places
  BY DEF Places
<1>3. \A p \in {"cancelled", "done"} :
        LET y == [x EXCEPT !.fence = p]
        IN  /\ Good(s, y, ParentDone(s)) /\ Calm(x, y) /\ y.new = x.new
            /\ x.fence = "waking" \/ Quiet(x, y)
  BY <1>1, <1>2, FenceMoves
<1>4. \A p \in {"cancelled", "done"} :
        LET y == [x EXCEPT !.close = p]
        IN  Good(s, y, ParentDone(s)) /\ Calm(x, y) /\ y.new = x.new /\ Quiet(x, y)
  BY <1>1, <1>2, CloseMoves
<1>5. CASE GraceCloses(s)
  BY <1>3, <1>5, CancelStep DEF GraceCloses
<1>6. CASE GraceClosed(s)
  BY <1>3, <1>6, CloseLockedStep DEF GraceClosed
<1>7. CASE CloseCall(s)
  BY <1>4, <1>7, CancelStep DEF CloseCall
<1>8. CASE CloseReturns(s)
  BY <1>4, <1>8, CloseLockedStep DEF CloseReturns
<1>9. QED
  BY <1>5, <1>6, <1>7, <1>8

LEMMA SessionCallsStep ==
    ASSUME PeerInv, NEW s \in Sessions, SessionCalls(s)
    PROVE  PeerInv'
BY NewSessionStep, OpenCarrierStep, RegisterCarrierStep, BeginDialStep, NewSessionReturnsStep,
   NewSessionFailsStep, FenceCallStep, FenceStep, ReadStep, CloseStep
   DEF SessionCalls, Construct, FenceProceeds, ReadProceeds

----------------------------------------------------------------------------
(* The steps of the dispatcher.                                            *)

\* A HELLO or FINISH, which only an open Listener takes.
LEMMA ListeningStep ==
    ASSUME PeerInv, ~listener.closed, Turn, UNCHANGED listener,
           sessions' \in [Sessions -> Session],
           \A s \in Sessions : Good(s, sessions'[s], ParentDone(s)),
           calls' \in [accept : Places, closeListener : Places, closePeer : Places],
           calls'.closePeer = calls.closePeer,
           overflow' = overflow, AcceptInv'
    PROVE  PeerInv'
<1>1. /\ driver = "select" /\ driver' = "compute" /\ armed' = FALSE
      /\ UNCHANGED <<scenario, cutOff, peer, wake>>
  BY DEF Turn
<1>2. ~peer.closed /\ calls.closePeer # "done"
  BY <1>1 DEF PeerInv, ClosingInv
<1>3. TypeOK'
  BY <1>1 DEF PeerInv, TypeOK
<1>4. GoodSessions'
  BY <1>1 DEF GoodSessions, ParentDone
<1>5. ListenerInv' /\ DeadlineInv'
  BY <1>1 DEF ListenerInv, DeadlineInv
<1>6. ClosingInv'
  BY <1>1, <1>2 DEF PeerInv, ClosingInv
<1>7. QED
  BY <1>3, <1>4, <1>5, <1>6 DEF PeerInv

LEMMA ReceiveHelloStep ==
    ASSUME PeerInv, NEW s \in Sessions, NEW expired \in BOOLEAN, ReceiveHello(s, expired)
    PROVE  PeerInv'
<1> DEFINE x == sessions[s]
           y == StartAttempt(x, 0)
           z == [x EXCEPT !.routes = @ \ {0}]
<1>1. /\ s \in Inbound /\ ~listener.closed /\ x.phase # "established" /\ ~x.made
      /\ x.phase = "none" => Cardinality(Reserved \ {s}) < MaxPendingAccepts
      /\ ServeOne(s, IF expired THEN z ELSE y)
  BY DEF ReceiveHello
<1>2. s \notin Outbound
  BY <1>1, InboundOnly
<1>3. Good(s, x, ParentDone(s)) /\ x \in Session
  BY InvGood
<1>4. CASE expired
  <2>1. Good(s, z, ParentDone(s)) /\ Calm(x, z)
    BY <1>2, <1>3, ExpiredHelloGood
  <2>2. ServeOne(s, z)
    BY <1>1, <1>4
  <2> HIDE DEF z
  <2>3. QED
    BY <2>1, <2>2, ServeOneStep
<1>5. CASE ~expired
  <2>1. /\ Good(s, y, ParentDone(s)) /\ y.made = x.made /\ y.controller = x.controller
        /\ y.turn = x.turn
    BY <1>1, <1>2, <1>3, HelloGood
  <2>2. ServeOne(s, y)
    BY <1>1, <1>5
  <2> HIDE DEF y
  <2>3. /\ sessions \in [Sessions -> Session] /\ ~peer.closed
        /\ \A t \in Sessions : Good(t, sessions[t], ParentDone(t))
    BY <1>1 DEF PeerInv, TypeOK, GoodSessions, ClosingInv
  <2>4. /\ sessions' = [sessions EXCEPT ![s] = y] /\ Turn
        /\ UNCHANGED <<listener, calls, overflow>>
    BY <2>2, <2>3 DEF ServeOne, Serve
  <2>5. /\ sessions' \in [Sessions -> Session]
        /\ sessions'[s] = y /\ \A t \in Sessions \ {s} : sessions'[t] = sessions[t]
        /\ \A t \in Sessions : Good(t, sessions'[t], ParentDone(t))
    BY <2>1, <2>3, <2>4 DEF Good
  <2>6. /\ Installed' \subseteq Installed /\ Queue' \subseteq Queue
        /\ Reserved' \subseteq (Reserved \ {s}) \cup {s}
    BY <1>1, <2>1, <2>5, InboundOnly DEF Installed, Queue, Reserved
  <2>7. /\ IsFiniteSet(Reserved) /\ Cardinality(Reserved) <= MaxPendingAccepts
        /\ IsFiniteSet(Installed) /\ ~overflow
        /\ (calls.accept = "asleep" => Queue = {} \/ ListenerDone)
    BY DEF PeerInv, AcceptInv
  <2>8. IsFiniteSet(Reserved') /\ Cardinality(Reserved') <= MaxPendingAccepts
    <3> DEFINE R == Reserved \ {s}
    <3>1. IsFiniteSet(R) /\ Cardinality(R) < MaxPendingAccepts
      <4>1. IsFiniteSet(R)
        BY <2>7, FS_Subset
      <4>2. CASE x.phase = "none"
        BY <1>1, <4>1, <4>2
      <4>3. CASE x.phase # "none"
        <5>1. s \in Reserved
          BY <1>1, <1>3, <4>3 DEF Reserved, Good, Sound, Coherent, Answers
        <5>2. Cardinality(R) = Cardinality(Reserved) - 1
          BY <2>7, <5>1, FS_RemoveElement
        <5>3. Cardinality(Reserved) \in Nat
          BY <2>7, FS_CardinalityType
        <5>4. QED
          BY <2>7, <4>1, <5>2, <5>3, LimitsAssumption
      <4>4. QED
        BY <4>2, <4>3
    <3>2. IsFiniteSet(R \cup {s}) /\ Cardinality(R \cup {s}) = Cardinality(R) + 1
      BY <3>1, FS_AddElement
    <3>3. /\ IsFiniteSet(Reserved') /\ Cardinality(Reserved') <= Cardinality(R \cup {s})
      BY <2>6, <3>2, FS_Subset
    <3>4. Cardinality(R) \in Nat /\ Cardinality(Reserved') \in Nat
      BY <3>1, <3>3, FS_CardinalityType
    <3> HIDE DEF R
    <3>5. QED
      BY <3>1, <3>2, <3>3, <3>4, LimitsAssumption
  <2>9. AcceptInv'
    <3>1. IsFiniteSet(Installed')
      BY <2>6, <2>7, FS_Subset
    <3>2. ListenerDone' = ListenerDone
      BY <2>4 DEF ListenerDone, Turn
    <3>3. QED
      BY <2>4, <2>6, <2>7, <2>8, <3>1, <3>2 DEF AcceptInv
  <2>10. /\ calls' \in [accept : Places, closeListener : Places, closePeer : Places]
         /\ calls'.closePeer = calls.closePeer
    BY <2>4 DEF PeerInv, TypeOK
  <2>11. QED
    BY <1>1, <2>4, <2>5, <2>9, <2>10, ListeningStep
<1>6. QED
  BY <1>4, <1>5

\* The place reserved with the HELLO is there for the installed Session.
LEMMA OfferFits ==
    ASSUME PeerInv, NEW s \in Inbound, sessions[s].phase = "pending"
    PROVE  s \in Reserved /\ Cardinality(Queue) < MaxPendingAccepts
<1>1. \A t \in Inbound : Answers(sessions[t])
  BY InvGood, InboundOnly DEF Good, Sound, Coherent
<1>2. s \in Reserved
  BY <1>1 DEF Reserved, Answers
<1>3. Queue \subseteq Reserved \ {s}
  BY <1>1 DEF Queue, Reserved, Answers
<1>4. IsFiniteSet(Reserved) /\ Cardinality(Reserved) <= MaxPendingAccepts
  BY DEF PeerInv, AcceptInv
<1>5. Cardinality(Reserved \ {s}) = Cardinality(Reserved) - 1 /\ IsFiniteSet(Reserved \ {s})
  BY <1>2, <1>4, FS_RemoveElement
<1>6. Cardinality(Queue) <= Cardinality(Reserved \ {s}) /\ IsFiniteSet(Queue)
  BY <1>3, <1>5, FS_Subset
<1>7. Cardinality(Queue) \in Nat /\ Cardinality(Reserved) \in Nat
  BY <1>4, <1>6, FS_CardinalityType
<1>8. QED
  BY <1>2, <1>4, <1>5, <1>6, <1>7, LimitsAssumption

LEMMA OfferStep ==
    ASSUME PeerInv, NEW s \in Inbound, ~listener.closed, sessions[s].phase = "pending", NEW x,
           Good(s, x, ParentDone(s)), x.made, x.closed \/ x.phase = "established",
           ~x.accepted, x.turn = 0, Offer(s, x)
    PROVE  PeerInv'
<1> DEFINE last == Cardinality(Installed)
           offered == [x EXCEPT !.turn = last + 1]
           y == IF x.closed THEN x ELSE offered
<1>1. s \in Sessions /\ s \notin Outbound
  BY InboundOnly
<1>2. s \in Reserved /\ Cardinality(Queue) < MaxPendingAccepts
  BY OfferFits
<1>3. /\ sessions \in [Sessions -> Session] /\ ~peer.closed
      /\ \A t \in Sessions : Good(t, sessions[t], ParentDone(t))
  BY DEF PeerInv, TypeOK, GoodSessions, ClosingInv
<1>4. /\ sessions' = [sessions EXCEPT ![s] = y] /\ Turn /\ UNCHANGED listener
      /\ calls' = [calls EXCEPT !.accept = IF ~x.closed THEN Woken(@) ELSE @]
      /\ overflow' = overflow
  BY <1>2, <1>3 DEF Offer, Serve, PeerInv, TypeOK, Installed
<1>5. IsFiniteSet(Installed) /\ last \in Nat
  BY FS_CardinalityType DEF PeerInv, AcceptInv
<1>6. Good(s, y, ParentDone(s)) /\ (x.closed => y.turn = 0)
  <2>1. CASE x.closed
    BY <2>1
  <2>2. CASE ~x.closed
    <3>1. last + 1 \in Nat
      BY <1>5
    <3> HIDE DEF last
    <3>2. QED
      BY <1>1, <2>2, <3>1, OfferedGood
  <2>3. QED
    BY <2>1, <2>2
<1> HIDE DEF y, last
<1>7. /\ sessions' \in [Sessions -> Session]
      /\ sessions'[s] = y /\ \A t \in Sessions \ {s} : sessions'[t] = sessions[t]
      /\ \A t \in Sessions : Good(t, sessions'[t], ParentDone(t))
  BY <1>1, <1>3, <1>4, <1>6 DEF Good
<1>8. /\ Installed' \subseteq Installed \cup {s} /\ Reserved' \subseteq Reserved
      /\ x.closed => Queue' \subseteq Queue
  BY <1>2, <1>6, <1>7, InboundOnly DEF Installed, Reserved, Queue
<1>9. /\ IsFiniteSet(Reserved) /\ Cardinality(Reserved) <= MaxPendingAccepts /\ ~overflow
      /\ calls.accept = "asleep" => Queue = {} \/ ListenerDone
  BY DEF PeerInv, AcceptInv
<1>10. IsFiniteSet(Reserved') /\ Cardinality(Reserved') <= MaxPendingAccepts
  <2>1. IsFiniteSet(Reserved') /\ Cardinality(Reserved') <= Cardinality(Reserved)
    BY <1>8, <1>9, FS_Subset
  <2>2. Cardinality(Reserved') \in Nat /\ Cardinality(Reserved) \in Nat
    BY <1>9, <2>1, FS_CardinalityType
  <2>3. QED
    BY <1>9, <2>1, <2>2, LimitsAssumption
<1>11. IsFiniteSet(Installed')
  <2>1. IsFiniteSet(Installed \cup {s})
    BY <1>5, FS_AddElement
  <2>2. QED
    BY <1>8, <2>1, FS_Subset
<1>12. calls \in [accept : Places, closeListener : Places, closePeer : Places]
  BY DEF PeerInv, TypeOK
<1>13. /\ calls' \in [accept : Places, closeListener : Places, closePeer : Places]
       /\ calls'.closePeer = calls.closePeer
       /\ calls'.accept = "asleep" => x.closed /\ calls.accept = "asleep"
  <2>1. Woken(calls.accept) \in Places /\ Woken(calls.accept) # "asleep"
    BY <1>12 DEF Woken, Places
  <2>2. QED
    BY <1>4, <1>12, <2>1
<1>14. AcceptInv'
  <2>1. ListenerDone' = ListenerDone
    BY <1>4 DEF ListenerDone, Turn
  <2>2. QED
    BY <1>4, <1>8, <1>9, <1>10, <1>11, <1>13, <2>1 DEF AcceptInv
<1>15. QED
  BY <1>4, <1>7, <1>13, <1>14, ListeningStep

LEMMA ReceiveFinishStep ==
    ASSUME PeerInv, NEW s \in Sessions, NEW outcome \in Outcomes, ReceiveFinish(s, outcome)
    PROVE  PeerInv'
<1> DEFINE x == sessions[s]
           y == Install(x, outcome)
<1>1. s \in Inbound /\ s \notin Outbound /\ ~listener.closed /\ x.phase = "pending"
  BY InboundOnly DEF ReceiveFinish
<1>2. Good(s, x, ParentDone(s))
  BY InvGood
<1>3. ServeOne(s, Forget(x)) \/ Offer(s, y)
  BY DEF ReceiveFinish
<1>4. CASE ServeOne(s, Forget(x))
  <2>1. Good(s, Forget(x), ParentDone(s)) /\ Tame(x, Forget(x))
    BY <1>1, <1>2, ForgetGood
  <2>2. QED
    BY <1>4, <2>1, TameCalm, ServeOneStep
<1>5. CASE Offer(s, y)
  <2>1. /\ Good(s, y, ParentDone(s)) /\ y.made /\ (y.closed \/ y.phase = "established")
        /\ ~y.accepted /\ y.turn = 0
    BY <1>1, <1>2, InstallGood
  <2> HIDE DEF y
  <2>2. QED
    BY <1>1, <1>5, <2>1, OfferStep
<1>6. QED
  BY <1>3, <1>4, <1>5

LEMMA ReceiveReadyStep ==
    ASSUME PeerInv, NEW s \in Sessions, NEW outcome \in Outcomes, NEW n \in 0..NumCarriers,
           ReceiveReady(s, outcome, n)
    PROVE  PeerInv'
<1> DEFINE x == sessions[s]
           y == Install(x, outcome)
           z == FallBack(x, n)
<1>1. s \in Outbound /\ s \notin Inbound /\ x.phase = "pending"
  BY OutboundOnly DEF ReceiveReady
<1>2. ServeOne(s, y) \/ ServeOne(s, z)
  BY DEF ReceiveReady
<1>3. Good(s, x, ParentDone(s))
  BY InvGood
<1>4. Good(s, y, ParentDone(s))
  BY <1>1, <1>3, InstallGood
<1>5. Good(s, z, ParentDone(s))
  BY <1>1, <1>3, FallBackGood
<1> HIDE DEF y, z
<1>6. QED
  BY <1>1, <1>2, <1>4, <1>5, ServeOneStep

LEMMA AttemptEndsStep ==
    ASSUME PeerInv, NEW s \in Sessions, NEW n \in 0..NumCarriers, AttemptEnds(s, n)
    PROVE  PeerInv'
<1> DEFINE x == sessions[s]
           y == EndAttempt(s, x, n)
<1>1. x.phase = "pending" /\ ServeOne(s, y)
  BY DEF AttemptEnds
<1>2. Good(s, y, ParentDone(s)) /\ Tame(x, y)
  BY <1>1, InvGood, EndAttemptGood
<1> HIDE DEF y
<1>3. QED
  BY <1>1, <1>2, TameCalm, ServeOneStep

LEMMA ReceiveCloseStep ==
    ASSUME PeerInv, NEW s \in Sessions, ReceiveClose(s)
    PROVE  PeerInv'
<1> DEFINE x == sessions[s]
           y == Dispose(Forget(x))
<1>1. x.phase = "established" /\ ServeOne(s, y)
  BY DEF ReceiveClose
<1>2. Good(s, x, ParentDone(s)) /\ x \in Session
  BY InvGood
<1>3. x.made /\ ~x.closed
  BY <1>1, <1>2 DEF Good, Sound, Coherent, Dials, Answers, Empty, Sessions
<1>4. Good(s, y, ParentDone(s)) /\ Tame(x, y)
  BY <1>2, <1>3, EndGood DEF Good, Sound
<1> HIDE DEF y
<1>5. QED
  BY <1>1, <1>4, TameCalm, ServeOneStep

LEMMA ReceiveDataStep ==
    ASSUME PeerInv, NEW s \in Sessions, NEW outcome \in Outcomes, ReceiveData(s, outcome)
    PROVE  PeerInv'
<1> DEFINE x == sessions[s]
           y == HandleSession(x, outcome)
<1>1. ~x.closed /\ ServeOne(s, y)
  BY DEF ReceiveData
<1>2. Good(s, y, ParentDone(s)) /\ Tame(x, y)
  BY <1>1, InvGood, HandleSessionGood DEF Good
<1> HIDE DEF y
<1>3. QED
  BY <1>1, <1>2, TameCalm, ServeOneStep

LEMMA CarrierFailsStep ==
    ASSUME PeerInv, NEW s \in Sessions, NEW c \in Carriers, NEW outcome \in Outcomes,
           NEW n \in 0..NumCarriers, CarrierFails(s, c, outcome, n)
    PROVE  PeerInv'
<1> DEFINE x == sessions[s]
           shut == [x EXCEPT !.open = @ \ {c}]
<1>1. s \in Outbound /\ s \notin Inbound /\ ~x.closed
  BY OutboundOnly DEF CarrierFails
<1>2. \/ ServeOne(s, HandleSession(shut, outcome))
      \/ ~x.controller /\ c \in x.routes /\ ServeOne(s, FallBack(shut, n))
      \/ ServeOne(s, shut)
  BY DEF CarrierFails
<1>3. Good(s, x, ParentDone(s)) /\ x \in Session
  BY InvGood
<1>4. /\ Good(s, shut, ParentDone(s)) /\ shut.closed = x.closed /\ shut.phase = x.phase
  BY <1>1, <1>3, ShutGood
<1>5. ~x.controller /\ c \in x.routes => x.phase = "pending"
  BY <1>1, <1>3 DEF Good, Sound, Coherent, Dials, Session
<1> HIDE DEF shut
<1>6. Good(s, HandleSession(shut, outcome), ParentDone(s))
  BY <1>1, <1>4, HandleSessionGood DEF Good
<1>7. x.phase = "pending" => Good(s, FallBack(shut, n), ParentDone(s))
  BY <1>1, <1>4, FallBackGood
<1>8. QED
  BY <1>1, <1>2, <1>4, <1>5, <1>6, <1>7, ServeOneStep

\* The timer ends some attempts and advances every controller.
LEMMA TimerFiresStep ==
    ASSUME PeerInv, NEW ends \in SUBSET Sessions, NEW next \in [ends -> 0..NumCarriers],
           NEW outcome \in [Sessions -> Outcomes], TimerFires(ends, next, outcome)
    PROVE  PeerInv'
<1> DEFINE E(s) == IF s \in ends THEN EndAttempt(s, sessions[s], next[s]) ELSE sessions[s]
           new == [s \in Sessions |-> Advanced(E(s), outcome[s])]
<1>1. Serve(new) /\ UNCHANGED <<listener, calls, overflow>>
  BY DEF TimerFires
<1>2. ASSUME NEW s \in Sessions
      PROVE  Good(s, new[s], ParentDone(s)) /\ Tame(sessions[s], new[s])
  <2>1. Good(s, sessions[s], ParentDone(s))
    BY InvGood
  <2>2. Good(s, E(s), ParentDone(s)) /\ Tame(sessions[s], E(s))
    <3>1. CASE s \in ends
      <4>1. sessions[s].phase = "pending" /\ next[s] \in 0..NumCarriers
        BY <3>1 DEF TimerFires
      <4>2. QED
        BY <2>1, <3>1, <4>1, EndAttemptGood
    <3>2. CASE s \notin ends
      BY <2>1, <3>2, TameSame
    <3>3. QED
      BY <3>1, <3>2
  <2>3. new[s] = Advanced(E(s), outcome[s])
    OBVIOUS
  <2> HIDE DEF E, new
  <2>4. Good(s, Advanced(E(s), outcome[s]), ParentDone(s)) /\ Tame(E(s), Advanced(E(s), outcome[s]))
    BY <2>2, AdvancedGood
  <2>5. QED
    BY <2>2, <2>3, <2>4, TameTrans
<1>3. new \in [Sessions -> Session]
  <2>1. \A s \in Sessions : new[s] \in Session
    BY <1>2 DEF Good
  <2>2. QED
    BY <2>1
<1> HIDE DEF new
<1>4. \A s \in Inbound : Calm(sessions[s], new[s])
  BY <1>2, TameCalm, InboundOnly
<1>5. QED
  BY <1>1, <1>2, <1>3, <1>4, ServeStep

\* closeListener, from a failed listener socket or from its Close.
LEMMA CloseListenerSessions ==
    ASSUME PeerInv, CloseListener
    PROVE  /\ sessions' \in [Sessions -> Session]
           /\ \A s \in Sessions : Good(s, sessions'[s], ParentDone(s)) /\ Tame(sessions[s], sessions'[s])
           /\ \A s \in Inbound : sessions'[s].made => sessions'[s].closed
           /\ listener' = [cancelled |-> TRUE, closed |-> TRUE]
<1>1. /\ sessions \in [Sessions -> Session]
      /\ \A s \in Sessions : Good(s, sessions[s], ParentDone(s))
      /\ listener.closed => \A s \in Inbound : sessions[s].made => sessions[s].closed
  BY DEF PeerInv, TypeOK, GoodSessions, ListenerInv
<1>2. listener' = [cancelled |-> TRUE, closed |-> TRUE]
  BY DEF CloseListener
<1>3. CASE listener.closed
  BY <1>1, <1>2, <1>3, TameSame DEF CloseListener
<1>4. CASE ~listener.closed
  <2>1. sessions' = [s \in Sessions |->
                       IF s \in Inbound THEN EndInbound(sessions[s]) ELSE sessions[s]]
    BY <1>4 DEF CloseListener
  <2>2. \A s \in Sessions : sessions'[s] = IF s \in Inbound THEN EndInbound(sessions[s]) ELSE sessions[s]
    BY <2>1
  <2>3. \A s \in Inbound : /\ Good(s, EndInbound(sessions[s]), ParentDone(s))
                           /\ Tame(sessions[s], EndInbound(sessions[s]))
                           /\ EndInbound(sessions[s]).made => EndInbound(sessions[s]).closed
    BY <1>1, InboundOnly, EndInboundGood
  <2>4. \A s \in Sessions : Good(s, sessions'[s], ParentDone(s)) /\ Tame(sessions[s], sessions'[s])
    BY <1>1, <2>2, <2>3, TameSame
  <2>5. \A s \in Inbound : sessions'[s].made => sessions'[s].closed
    BY <2>2, <2>3, InboundOnly
  <2>6. sessions' \in [Sessions -> Session]
    <3>1. \A s \in Sessions : sessions'[s] \in Session
      BY <2>4 DEF Good
    <3>2. QED
      BY <2>1, <3>1
  <2>7. QED
    BY <1>2, <2>4, <2>5, <2>6
<1>5. QED
  BY <1>3, <1>4

----------------------------------------------------------------------------
(* The Listener, the Peer and the dispatcher itself.                       *)

LEMMA GoodLater ==
    ASSUME NEW s, NEW x, NEW over, NEW later, over => later, Good(s, x, over)
    PROVE  Good(s, x, later)
BY DEF Good, Awake

LEMMA CalmSelf ==
    ASSUME NEW x PROVE Calm(x, x) /\ Quiet(x, x)
BY DEF Calm, Quiet

\* A step that closes, cancels or takes.
LEMMA PeerStep ==
    ASSUME PeerInv,
           sessions' \in [Sessions -> Session],
           \A s \in Sessions : /\ Good(s, sessions'[s], ParentDone(s))
                               /\ Calm(sessions[s], sessions'[s]) /\ Quiet(sessions[s], sessions'[s]),
           listener' \in [cancelled : BOOLEAN, closed : BOOLEAN],
           peer' \in [cancelled : BOOLEAN, closed : BOOLEAN],
           listener.cancelled => listener'.cancelled, peer.cancelled => peer'.cancelled,
           calls' \in [accept : Places, closeListener : Places, closePeer : Places],
           calls'.accept = "asleep" => calls.accept = "asleep" \/ Queue = {},
           UNCHANGED <<scenario, cutOff, overflow>>,
           \/ UNCHANGED <<driver, armed, wake>>
           \/ driver' \in {"compute", "stopped"} /\ armed' \in BOOLEAN /\ wake' \in BOOLEAN,
           ListenerInv', ClosingInv'
    PROVE  PeerInv'
<1>1. TypeOK'
  BY DEF PeerInv, TypeOK
<1>2. /\ \A s \in Sessions : ParentDone(s) => ParentDone(s)'
      /\ ListenerDone => ListenerDone'
  BY DEF ParentDone, ListenerDone
<1>3. GoodSessions'
  BY <1>2, GoodLater DEF GoodSessions
<1>4. AcceptInv'
  <2>1. /\ IsFiniteSet(Installed') /\ IsFiniteSet(Reserved')
        /\ Cardinality(Reserved') <= MaxPendingAccepts /\ Queue' \subseteq Queue
    BY CalmSets, InboundOnly DEF PeerInv
  <2>2. QED
    BY <1>2, <2>1 DEF PeerInv, AcceptInv
<1>5. DeadlineInv'
  <2>1. SUFFICES ASSUME driver' = "select", ~armed', HasDeadline', ~wake'
                 PROVE  \E s \in Sessions : Waking(sessions'[s])
    BY DEF DeadlineInv
  <2>2. UNCHANGED <<driver, armed, wake>>
    BY <2>1
  <2>3. HasDeadline
    BY <2>1 DEF HasDeadline, Quiet
  <2>4. PICK s \in Sessions : Waking(sessions[s])
    BY <2>1, <2>2, <2>3 DEF PeerInv, DeadlineInv
  <2>5. QED
    BY <2>4 DEF Quiet
<1>6. QED
  BY <1>1, <1>3, <1>4, <1>5 DEF PeerInv

LEMMA TypedPeer ==
    ASSUME PeerInv
    PROVE  /\ sessions \in [Sessions -> Session]
           /\ listener \in [cancelled : BOOLEAN, closed : BOOLEAN]
           /\ peer \in [cancelled : BOOLEAN, closed : BOOLEAN]
           /\ calls \in [accept : Places, closeListener : Places, closePeer : Places]
           /\ driver \in {"compute", "select", "stopped"} /\ armed \in BOOLEAN /\ wake \in BOOLEAN
           /\ \A s \in Sessions : /\ Good(s, sessions[s], ParentDone(s))
                                  /\ Calm(sessions[s], sessions[s])
                                  /\ Quiet(sessions[s], sessions[s])
BY CalmSelf DEF PeerInv, TypeOK, GoodSessions

\* The dispatcher computes its deadline, takes a wake-up or stops.
LEMMA DriverStep ==
    ASSUME PeerInv, ComputeDeadline \/ TakeWake \/ Stop
    PROVE  PeerInv'
<1>1. UNCHANGED <<scenario, cutOff, sessions, listener, peer, calls, overflow>>
  BY DEF ComputeDeadline, TakeWake, Stop
<1>2. calls.closePeer = "done" => driver' = "stopped"
  BY DEF PeerInv, ClosingInv, ComputeDeadline, TakeWake, Stop
<1>3. TypeOK' /\ GoodSessions' /\ ListenerInv' /\ ClosingInv' /\ AcceptInv'
  <2>1. \A s \in Sessions : Constructing(s)' = Constructing(s)
    BY <1>1 DEF Constructing
  <2>2. calls.closePeer = "done" => driver' = "stopped" /\ \A s \in Outbound : ~Constructing(s)'
    BY <1>2, <2>1, OutboundOnly DEF PeerInv, ClosingInv
  <2>3. driver' \in {"compute", "select", "stopped"} /\ armed' \in BOOLEAN /\ wake' \in BOOLEAN
    BY TypedPeer DEF ComputeDeadline, TakeWake, Stop, HasDeadline
  <2>4. /\ sessions' \in [Sessions -> Session]
        /\ \A s \in Sessions : /\ Good(s, sessions'[s], ParentDone(s))
                               /\ Calm(sessions[s], sessions'[s])
    BY <1>1, TypedPeer
  <2>5. QED
    BY <1>1, <2>2, <2>3, <2>4, InboundOnly, OwnSessions
<1>4. DeadlineInv'
  <2>1. CASE ComputeDeadline
    <3>1. armed' = HasDeadline /\ HasDeadline' = HasDeadline
      BY <1>1, <2>1 DEF ComputeDeadline, HasDeadline
    <3>2. QED
      BY <3>1 DEF DeadlineInv
  <2>2. CASE TakeWake \/ Stop
    BY <2>2 DEF DeadlineInv, TakeWake, Stop
  <2>3. QED
    BY <2>1, <2>2
<1>5. QED
  BY <1>3, <1>4 DEF PeerInv

\* The reports of lost sockets are dropped: deadlines can only go.
LEMMA ReportsDroppedStep ==
    ASSUME PeerInv, NEW s \in Sessions, ReportsDropped(s)
    PROVE  PeerInv'
<1>1. /\ UNCHANGED <<scenario, sessions, listener, peer, calls, overflow, driver, armed, wake>>
      /\ cutOff' = cutOff \cup {s}
  BY DEF ReportsDropped
<1>2. TypeOK'
  BY <1>1 DEF PeerInv, TypeOK
<1>3. GoodSessions'
  BY <1>1 DEF PeerInv, GoodSessions, ParentDone
<1>4. ListenerInv' /\ ClosingInv'
  BY <1>1 DEF PeerInv, ListenerInv, ClosingInv, Constructing
<1>5. AcceptInv'
  BY <1>1 DEF PeerInv, AcceptInv, Installed, Reserved, Queue, ListenerDone
<1>6. DeadlineInv'
  BY <1>1 DEF PeerInv, DeadlineInv, HasDeadline
<1>7. QED
  BY <1>2, <1>3, <1>4, <1>5, <1>6 DEF PeerInv

LEMMA ListenerClosesStep ==
    ASSUME PeerInv, ListenerFails \/ ListenerCloses
    PROVE  PeerInv'
<1>1. CloseListener /\ UNCHANGED <<scenario, cutOff, peer, overflow>>
  BY DEF ListenerFails, ListenerCloses, Turn
<1>2. /\ sessions' \in [Sessions -> Session]
      /\ \A s \in Sessions : Good(s, sessions'[s], ParentDone(s)) /\ Tame(sessions[s], sessions'[s])
      /\ \A s \in Inbound : sessions'[s].made => sessions'[s].closed
      /\ listener' = [cancelled |-> TRUE, closed |-> TRUE]
  BY <1>1, CloseListenerSessions
<1>3. \A s \in Sessions : Calm(sessions[s], sessions'[s]) /\ Quiet(sessions[s], sessions'[s])
  BY <1>2, TameCalm
<1>4. /\ calls' \in [accept : Places, closeListener : Places, closePeer : Places]
      /\ calls'.accept = calls.accept /\ calls'.closePeer = calls.closePeer
  <2>1. "done" \in Places
    BY DEF Places
  <2>2. QED
    BY <2>1, TypedPeer DEF ListenerFails, ListenerCloses
<1>5. \/ UNCHANGED <<driver, armed, wake>>
      \/ driver = "select" /\ driver' = "compute" /\ armed' = FALSE /\ wake' = wake
  BY DEF ListenerFails, ListenerCloses, Turn
<1>6. ListenerInv'
  BY <1>2 DEF ListenerInv
<1>7. ClosingInv'
  <2>1. \A s \in Outbound : sessions'[s].new = sessions[s].new
    BY <1>2, OutboundOnly DEF Tame
  <2>2. \A s \in Sessions : sessions'[s].routes # {} => sessions'[s].phase # "none"
    BY <1>2 DEF Good, Sound, Coherent
  <2>3. \A s \in Outbound : Constructing(s)' => Constructing(s)
    BY <2>1 DEF Constructing
  <2>4. ClosingInv
    BY DEF PeerInv
  <2>5. calls.closePeer = "done" => UNCHANGED driver
    BY <1>5, <2>4 DEF ClosingInv
  <2>6. peer.closed => \A s \in Sessions : /\ sessions'[s].made => sessions'[s].closed
                                           /\ sessions'[s].phase = "none" /\ sessions'[s].routes = {}
    BY <1>3, <2>2, <2>4 DEF ClosingInv, Calm
  <2>7. QED
    BY <1>1, <1>2, <1>4, <2>3, <2>4, <2>5, <2>6 DEF ClosingInv
<1>8. QED
  <2>1. \/ UNCHANGED <<driver, armed, wake>>
        \/ driver' \in {"compute", "stopped"} /\ armed' \in BOOLEAN /\ wake' \in BOOLEAN
    BY <1>5, TypedPeer
  <2>2. /\ listener' \in [cancelled : BOOLEAN, closed : BOOLEAN] /\ listener'.cancelled
        /\ peer' = peer /\ peer \in [cancelled : BOOLEAN, closed : BOOLEAN]
    BY <1>1, <1>2, TypedPeer
  <2>3. QED
    BY <1>1, <1>2, <1>3, <1>4, <1>6, <1>7, <2>1, <2>2, PeerStep

LEMMA PeerClosesStep ==
    ASSUME PeerInv, PeerCloses
    PROVE  PeerInv'
<1>1. /\ calls.closePeer = "cancelled" /\ peer' = [peer EXCEPT !.closed = TRUE]
      /\ sessions' = [s \in Sessions |-> Ended(s, sessions[s])]
      /\ listener' = [cancelled |-> TRUE, closed |-> TRUE]
      /\ calls' = [calls EXCEPT !.closePeer = "joining"]
      /\ UNCHANGED <<scenario, cutOff, overflow, driver, armed, wake>>
  BY DEF PeerCloses
<1>2. ASSUME NEW s \in Sessions
      PROVE  /\ Good(s, sessions'[s], ParentDone(s)) /\ Tame(sessions[s], sessions'[s])
             /\ sessions'[s].made => sessions'[s].closed
             /\ sessions'[s].phase = "none" /\ sessions'[s].routes = {}
  <2>1. sessions'[s] = Ended(s, sessions[s])
    BY <1>1
  <2>2. QED
    BY <2>1, InvGood, EndedGood
<1>3. sessions' \in [Sessions -> Session]
  <2>1. \A s \in Sessions : sessions'[s] \in Session
    BY <1>2 DEF Good
  <2>2. QED
    BY <1>1, <2>1
<1>4. \A s \in Sessions : Calm(sessions[s], sessions'[s]) /\ Quiet(sessions[s], sessions'[s])
  BY <1>2, TameCalm
<1>5. /\ calls' \in [accept : Places, closeListener : Places, closePeer : Places]
      /\ calls'.accept = calls.accept /\ calls'.closePeer = "joining"
  <2>1. "joining" \in Places
    BY DEF Places
  <2>2. QED
    BY <1>1, <2>1, TypedPeer
<1>6. /\ peer' \in [cancelled : BOOLEAN, closed : BOOLEAN]
      /\ peer'.cancelled = peer.cancelled /\ peer'.closed = TRUE
      /\ listener' \in [cancelled : BOOLEAN, closed : BOOLEAN] /\ listener'.cancelled /\ listener'.closed
  BY <1>1, TypedPeer
<1>7. ListenerInv'
  BY <1>2, <1>6, InboundOnly DEF ListenerInv
<1>8. ClosingInv'
  BY <1>1, <1>2, <1>5, <1>6 DEF PeerInv, ClosingInv
<1>9. QED
  BY <1>1, <1>2, <1>3, <1>4, <1>5, <1>6, <1>7, <1>8, PeerStep

\* The contexts are cancelled before the mutex is taken.
LEMMA CancelsStep ==
    ASSUME PeerInv, CancelListener \/ CancelParent \/ CancelPeer \/ PeerClosed
    PROVE  PeerInv'
<1>0. UNCHANGED <<scenario, cutOff, sessions, overflow, driver, armed, wake>>
  BY DEF CancelListener, CancelParent, CancelPeer, PeerClosed
<1>1. "cancelled" \in Places /\ "done" \in Places
  BY DEF Places
<1>2. /\ listener' \in [cancelled : BOOLEAN, closed : BOOLEAN] /\ listener'.closed = listener.closed
      /\ listener.cancelled => listener'.cancelled
  BY TypedPeer DEF CancelListener, CancelParent, CancelPeer, PeerClosed
<1>3. /\ peer' \in [cancelled : BOOLEAN, closed : BOOLEAN] /\ peer'.closed = peer.closed
      /\ peer.cancelled => peer'.cancelled
  BY TypedPeer DEF CancelListener, CancelParent, CancelPeer, PeerClosed
<1>4. /\ calls' \in [accept : Places, closeListener : Places, closePeer : Places]
      /\ calls'.accept = calls.accept
  BY <1>1, TypedPeer DEF CancelListener, CancelParent, CancelPeer, PeerClosed
<1>5. ListenerInv'
  BY <1>0, <1>2 DEF PeerInv, ListenerInv
<1>6. ClosingInv'
  <2>0. ClosingInv /\ \A s \in Sessions : Constructing(s)' = Constructing(s)
    BY <1>0 DEF PeerInv, Constructing
  <2>1. CASE CancelListener
    <3>1. calls'.closePeer = calls.closePeer /\ peer' = peer
      BY <2>1, TypedPeer DEF CancelListener
    <3>2. QED
      BY <1>0, <1>2, <2>0, <3>1, OutboundOnly DEF ClosingInv
  <2>2. CASE CancelParent
    <3>1. calls' = calls /\ peer'.cancelled = TRUE
      BY <2>2, TypedPeer DEF CancelParent
    <3>2. QED
      BY <1>0, <1>2, <1>3, <2>0, <3>1, OutboundOnly DEF ClosingInv
  <2>3. CASE CancelPeer
    <3>1. calls.closePeer = "idle" /\ calls'.closePeer = "cancelled" /\ peer'.cancelled = TRUE
      BY <2>3, TypedPeer DEF CancelPeer
    <3>2. QED
      BY <1>0, <1>2, <1>3, <2>0, <3>1 DEF ClosingInv
  <2>4. CASE PeerClosed
    <3>1. /\ calls.closePeer = "joining" /\ calls'.closePeer = "done" /\ peer' = peer
          /\ driver = "stopped" /\ \A s \in Outbound : ~Constructing(s)
      BY <2>4, TypedPeer DEF PeerClosed
    <3>2. QED
      BY <1>0, <1>2, <2>0, <3>1, OutboundOnly DEF ClosingInv
  <2>5. QED
    BY <2>1, <2>2, <2>3, <2>4
<1>7. /\ sessions' \in [Sessions -> Session]
      /\ \A s \in Sessions : /\ Good(s, sessions'[s], ParentDone(s))
                             /\ Calm(sessions[s], sessions'[s]) /\ Quiet(sessions[s], sessions'[s])
  BY <1>0, TypedPeer
<1>8. QED
  BY <1>0, <1>2, <1>3, <1>4, <1>5, <1>6, <1>7, PeerStep

\* Accept: its call, its look at the queue, the Session it takes and its end.
LEMMA AcceptStep ==
    ASSUME PeerInv, AcceptCall \/ CheckAccept \/ AcceptReturns
    PROVE  PeerInv'
<1>1. ASSUME NEW place \in Places, AcceptAt(place), place = "asleep" => Queue = {},
             sessions' \in [Sessions -> Session],
             \A s \in Sessions : /\ Good(s, sessions'[s], ParentDone(s))
                                 /\ Calm(sessions[s], sessions'[s]) /\ Quiet(sessions[s], sessions'[s])
                                 /\ sessions'[s].new = sessions[s].new
      PROVE  PeerInv'
  <2>1. /\ calls' = [calls EXCEPT !.accept = place]
        /\ UNCHANGED <<scenario, cutOff, listener, peer, overflow, driver, armed, wake>>
    BY <1>1 DEF AcceptAt
  <2>2. /\ calls' \in [accept : Places, closeListener : Places, closePeer : Places]
        /\ calls'.accept = place /\ calls'.closePeer = calls.closePeer
    BY <1>1, <2>1, TypedPeer
  <2>3. ListenerInv'
    BY <1>1, <2>1, InboundOnly DEF PeerInv, ListenerInv, Calm
  <2>4. ClosingInv'
    <3>1. \A s \in Outbound : Constructing(s)' = Constructing(s)
      BY <1>1, OutboundOnly DEF Constructing
    <3>2. \A s \in Sessions : sessions'[s].routes # {} => sessions'[s].phase # "none"
      BY <1>1 DEF Good, Sound, Coherent
    <3>3. peer.closed => \A s \in Sessions : /\ sessions'[s].made => sessions'[s].closed
                                             /\ sessions'[s].phase = "none" /\ sessions'[s].routes = {}
      BY <1>1, <3>2 DEF PeerInv, ClosingInv, Calm
    <3>4. QED
      BY <2>1, <2>2, <3>1, <3>3 DEF PeerInv, ClosingInv
  <2>5. QED
    BY <1>1, <2>1, <2>2, <2>3, <2>4, TypedPeer, PeerStep
<1>2. {"idle", "check", "asleep"} \subseteq Places
  BY DEF Places
<1>3. ASSUME UNCHANGED sessions
      PROVE  /\ sessions' \in [Sessions -> Session]
             /\ \A s \in Sessions : /\ Good(s, sessions'[s], ParentDone(s))
                                    /\ Calm(sessions[s], sessions'[s])
                                    /\ Quiet(sessions[s], sessions'[s])
                                    /\ sessions'[s].new = sessions[s].new
  BY <1>3, TypedPeer
<1>4. CASE AcceptCall \/ AcceptReturns
  BY <1>1, <1>2, <1>3, <1>4 DEF AcceptCall, AcceptReturns
<1>5. CASE AcceptEnds
  <2> DEFINE place == IF AcceptRefused THEN "idle" ELSE "asleep"
  <2>1. place \in Places /\ AcceptAt(place) /\ (place = "asleep" => Queue = {}) /\ UNCHANGED sessions
    BY <1>2, <1>5 DEF AcceptEnds
  <2> HIDE DEF place
  <2>2. QED
    BY <1>1, <1>3, <2>1
<1>6. ASSUME NEW s \in Inbound, AcceptTakes(s) PROVE PeerInv'
  <2> DEFINE x == sessions[s]
             y == [x EXCEPT !.turn = 0, !.accepted = @ \/ ~x.closed]
             place == IF x.closed THEN "check" ELSE "idle"
  <2>1. /\ x.turn # 0 /\ AcceptAt(place) /\ sessions' = [sessions EXCEPT ![s] = y]
    BY <1>6 DEF AcceptTakes, Queue
  <2>2. place \in Places /\ place # "asleep"
    BY <1>2
  <2>3. s \in Sessions /\ s \notin Outbound /\ Good(s, x, ParentDone(s)) /\ x \in Session
    BY InboundOnly, InvGood
  <2>4. Good(s, y, ParentDone(s)) /\ Calm(x, y) /\ Quiet(x, y)
    BY <2>1, <2>3, TakenGood
  <2>5. y.new = x.new
    BY <2>3 DEF Session
  <2> HIDE DEF y, place
  <2>6. /\ sessions' \in [Sessions -> Session] /\ sessions'[s] = y
        /\ \A t \in Sessions \ {s} : sessions'[t] = sessions[t]
    BY <2>1, <2>3, <2>4, TypedPeer DEF Good
  <2>7. \A t \in Sessions : /\ Good(t, sessions'[t], ParentDone(t))
                            /\ Calm(sessions[t], sessions'[t]) /\ Quiet(sessions[t], sessions'[t])
                            /\ sessions'[t].new = sessions[t].new
    BY <2>4, <2>5, <2>6, TypedPeer
  <2>8. QED
    BY <1>1, <2>1, <2>2, <2>6, <2>7
<1>7. QED
  BY <1>4, <1>5, <1>6 DEF CheckAccept

----------------------------------------------------------------------------
(* The theorems.                                                           *)

LEMMA InitInv == Init => PeerInv
<1> SUFFICES ASSUME Init PROVE PeerInv
  OBVIOUS
<1>1. NoSession \in Session
  <2>1. /\ 1 \in 1..(NumCarriers + 1) /\ 0 \in 0..DeliveryQueueCapacity /\ 0 \in 0..MaxWrites
        /\ 0 \in 0..NumCarriers /\ {} \in SUBSET Carriers /\ {} \in SUBSET (0..NumCarriers)
        /\ "idle" \in Places /\ 0 \in Nat
    BY LimitsAssumption DEF Places
  <2>2. QED
    BY <2>1 DEF NoSession, Session
<1>2. \A s \in Sessions : Good(s, NoSession, ParentDone(s))
  <2>1. Answers(NoSession) /\ Dials(NoSession) /\ Underway(NoSession)
    BY DEF NoSession, Answers, Dials, Underway
  <2>2. \A s \in Sessions : Coherent(s, NoSession)
    BY <2>1 DEF NoSession, Coherent, Unregistered
  <2>3. \A over : Awake(NoSession, over)
    BY DEF NoSession, Awake
  <2>4. QED
    BY <1>1, <2>1, <2>2, <2>3 DEF Good, Sound
<1>3. \A s \in Sessions : sessions[s] = NoSession
  BY DEF Init
<1>4. TypeOK
  <2>1. "idle" \in Places
    BY DEF Places
  <2>2. QED
    BY <1>1, <2>1 DEF Init, TypeOK
<1>5. GoodSessions
  BY <1>2, <1>3 DEF GoodSessions
<1>6. ListenerInv /\ ClosingInv /\ DeadlineInv
  BY DEF Init, ListenerInv, ClosingInv, DeadlineInv
<1>7. Installed = {} /\ Reserved = {} /\ Queue = {}
  BY <1>3, InboundOnly DEF NoSession, Installed, Reserved, Queue
<1>8. AcceptInv
  BY <1>7, FS_EmptySet, LimitsAssumption DEF AcceptInv, Init
<1>9. QED
  BY <1>4, <1>5, <1>6, <1>8 DEF PeerInv

LEMMA DispatchStep ==
    ASSUME PeerInv, Dispatch
    PROVE  PeerInv'
<1>1. scenario.sessions \subseteq Sessions
  BY ScenariosAssumption DEF PeerInv, TypeOK, Scenario
<1>2. CASE ComputeDeadline \/ TakeWake \/ Stop
  BY <1>2, DriverStep
<1>3. CASE ListenerFails
  BY <1>3, ListenerClosesStep
<1>4. ASSUME NEW s \in scenario.sessions,
             \/ ReceiveClose(s) \/ ReportsDropped(s)
             \/ \E expired \in BOOLEAN : ReceiveHello(s, expired)
             \/ \E n \in 0..NumCarriers : AttemptEnds(s, n)
             \/ \E outcome \in Outcomes :
                  \/ ReceiveFinish(s, outcome)
                  \/ ReceiveData(s, outcome)
                  \/ \E n \in 0..NumCarriers :
                       \/ ReceiveReady(s, outcome, n)
                       \/ \E c \in Carriers : CarrierFails(s, c, outcome, n)
      PROVE  PeerInv'
  <2>1. s \in Sessions
    BY <1>1
  <2>2. QED
    BY <1>4, <2>1, ReceiveCloseStep, ReceiveHelloStep, AttemptEndsStep, ReceiveFinishStep,
       ReportsDroppedStep, ReceiveDataStep, ReceiveReadyStep, CarrierFailsStep
<1>5. ASSUME NEW ends \in SUBSET scenario.sessions, NEW next \in [ends -> 0..NumCarriers],
             NEW outcome \in [Sessions -> Outcomes], TimerFires(ends, next, outcome)
      PROVE  PeerInv'
  <2>1. ends \in SUBSET Sessions
    BY <1>1
  <2>2. QED
    BY <1>5, <2>1, TimerFiresStep
<1>6. QED
  BY <1>2, <1>3, <1>4, <1>5 DEF Dispatch

LEMMA StepInv == PeerInv /\ [Next]_vars => PeerInv'
<1> SUFFICES ASSUME PeerInv, [Next]_vars PROVE PeerInv'
  OBVIOUS
<1>1. CASE Dispatch
  BY <1>1, DispatchStep
<1>2. ASSUME NEW s \in scenario.sessions, SessionCalls(s) PROVE PeerInv'
  <2>1. s \in Sessions
    BY ScenariosAssumption DEF PeerInv, TypeOK, Scenario
  <2>2. QED
    BY <1>2, <2>1, SessionCallsStep
<1>3. CASE PeerCalls
  BY <1>3, AcceptStep, CancelsStep, ListenerClosesStep, PeerClosesStep DEF PeerCalls
<1>4. CASE UNCHANGED vars
  <2>1. UNCHANGED <<scenario, cutOff, sessions, listener, peer, calls, overflow, driver, armed, wake>>
    BY <1>4 DEF vars
  <2>2. ListenerInv' /\ ClosingInv'
    BY <2>1 DEF PeerInv, ListenerInv, ClosingInv, Constructing
  <2>3. QED
    BY <2>1, <2>2, TypedPeer, PeerStep
<1>5. QED
  BY <1>1, <1>2, <1>3, <1>4 DEF Next

\* The inductive invariant of the v2 Peer runtime: every step of its dispatcher and
\* of its callers keeps every Session's record sound and nobody asleep on what has
\* happened, and the Listener, the Accept queue, Peer.Close and the timer consistent
\* with the Sessions.
THEOREM PeerInvariant == Spec => []PeerInv
BY InitInv, StepInv, PTL DEF Spec

\* v2Peer.dispose, closeListener and closePeer leave nothing behind: a closed Session
\* is in no table, has no attempt, no place on the Accept queue and no socket but the
\* one its constructor is about to close, and Peer.Close returns with nothing left.
THEOREM ClosedSessionsHoldNothing == Spec => []ClosedHoldsNothing
<1>1. PeerInv => ClosedHoldsNothing
  <2> SUFFICES ASSUME PeerInv PROVE ClosedHoldsNothing
    OBVIOUS
  <2>1. TypeOK /\ ListenerInv /\ ClosingInv
    BY DEF PeerInv
  <2>2. \A s \in Sessions : Coherent(s, sessions[s])
    BY InvGood DEF Good, Sound
  <2>3. \A s \in Sessions : sessions[s].closed =>
          /\ Empty(sessions[s])
          /\ sessions[s].open \subseteq Unregistered(sessions[s])
    BY <2>2 DEF Coherent, Empty
  <2>4. listener.closed => \A s \in Inbound : ~sessions[s].made \/ sessions[s].closed
    BY <2>1 DEF ListenerInv
  <2>5. calls.closePeer = "done" =>
          /\ driver = "stopped"
          /\ \A s \in Sessions : /\ sessions[s].open = {} /\ sessions[s].phase = "none"
                                 /\ sessions[s].routes = {}
                                 /\ sessions[s].made => sessions[s].closed
    <3>1. SUFFICES ASSUME calls.closePeer = "done", NEW s \in Sessions
                   PROVE  sessions[s].open = {}
      BY <2>1 DEF ClosingInv
    <3>2. Unregistered(sessions[s]) = {}
      <4>1. CASE s \in Outbound
        BY <2>1, <3>1, <4>1 DEF ClosingInv, Constructing, Unregistered
      <4>2. CASE s \in Inbound
        BY <2>2, <4>2 DEF Coherent, Answers, Unregistered
      <4>3. QED
        BY <4>1, <4>2 DEF Sessions
    <3>3. sessions[s].made => sessions[s].closed
      BY <2>1, <3>1 DEF ClosingInv
    <3>4. sessions[s].paths = {}
      BY <2>2, <2>3, <3>3 DEF Coherent, Empty
    <3>5. QED
      BY <2>2, <3>2, <3>4 DEF Coherent
  <2>6. QED
    BY <2>1, <2>3, <2>4, <2>5 DEF ClosedHoldsNothing, Empty, Unregistered
<1>2. QED
  BY <1>1, PeerInvariant, PTL

\* fillDials and handleHandshake strand nobody: a dial that NewSession handed over has
\* a live attempt until it is established or closed, an established inbound Session
\* always finds its place on the Accept queue, and no route outlives its attempt.
THEOREM NobodyIsStranded == Spec => []NothingStranded
<1>1. PeerInv => NothingStranded
  <2> SUFFICES ASSUME PeerInv PROVE NothingStranded
    OBVIOUS
  <2>1. \A s \in Sessions : sessions[s] \in Session /\ Sound(s, sessions[s])
    BY InvGood DEF Good
  <2>2. ASSUME NEW s \in Outbound
        PROVE  LET x == sessions[s]
               IN  x.made /\ ~x.closed /\ ~x.controller /\ x.new \in {"waking", "done"}
                   => x.phase = "pending" /\ x.carrier \in x.routes /\ x.dialing
    BY <2>1, OutboundOnly DEF Sound, Coherent, Dials, Underway
  <2>3. ASSUME NEW s \in Sessions, NEW c \in sessions[s].routes
        PROVE  sessions[s].phase # "none" /\ sessions[s].carrier = c
    BY <2>1 DEF Sound, Coherent
  <2>4. ~overflow
    BY DEF PeerInv, AcceptInv
  <2>5. QED
    BY <2>2, <2>3, <2>4 DEF NothingStranded
<1>2. QED
  BY <1>1, PeerInvariant, PTL

\* notify, the Accept channel and wakeDriver lose no wake-up: nobody sleeps on a fence
\* that is complete, a Datagram or a Session that is queued, and the dispatcher never
\* waits without a timer while a deadline is pending and nobody is about to wake it.
THEOREM WakeupsArrive == Spec => []NoLostWakeup
<1>1. PeerInv => NoLostWakeup
  <2> SUFFICES ASSUME PeerInv PROVE NoLostWakeup
    OBVIOUS
  <2>1. \A s \in Sessions : Awake(sessions[s], ParentDone(s))
    BY InvGood DEF Good
  <2>2. ASSUME NEW s \in Sessions
        PROVE  /\ sessions[s].fence = "asleep" =>
                    sessions[s].completed < sessions[s].frontier \/ ContextDone(s)
               /\ sessions[s].read = "asleep" => sessions[s].delivery = 0 \/ ContextDone(s)
    BY <2>1 DEF Awake, ContextDone
  <2>3. QED
    BY <2>2 DEF NoLostWakeup, PeerInv, AcceptInv, DeadlineInv, Waking
<1>2. QED
  BY <1>1, PeerInvariant, PTL

=============================================================================
