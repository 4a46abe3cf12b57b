-------------------------- MODULE PathJoinV2Proofs --------------------------
(***************************************************************************)
(* For every set of tuples, every lifetime, retry interval and grace, and  *)
(* any number of moves and failures: the responder commits a generation    *)
(* before the initiator uses it, an end relies only on routes and on an    *)
(* encoding context its peer has, and generations only rise.               *)
(*                                                                         *)
(* The network repeats what was ever sent, so the argument is about what a *)
(* message in it entitles its receiver to: each of its claims stays true   *)
(* whatever the sender does next, or the sender's history says that it     *)
(* gave the route up.                                                      *)
(***************************************************************************)
EXTENDS PathJoinV2, TLAPS

----------------------------------------------------------------------------
(* Types.                                                                  *)

Kinds == {"none", "join", "challenge", "confirm", "ready"}
Retry == [pending : BOOLEAN, left : Nat, next : Nat, sends : Nat, generation : Nat, epoch : Nat]
JoinState == [pending : BOOLEAN, left : Nat, next : Nat, sends : 0..ControlSends, kind : Kinds,
              generation : Nat, binding : Bindings, client : Nat, server : Nat, committed : BOOLEAN]
Route == [generation : Nat, epoch : Nat, binding : Bindings, left : Nat]
QueuedReply == [queued : BOOLEAN, generation : Nat, epoch : Nat]
Controller ==
    [active : BOOLEAN, generation : Nat, floor : Nat, binding : Bindings,
     sendEpoch : {1, 2}, receiveEpoch : {1, 2}, oldEpoch : {0, 1}, oldLeft : Nat, peerLeft : Nat,
     old : [1..MaxOldEpochs -> Route], join : JoinState, budget : Retry, context : Retry,
     replies : [Replies -> QueuedReply], homed : BOOLEAN, acknowledged : BOOLEAN,
     installed : BOOLEAN, ackSent : BOOLEAN, closed : BOOLEAN]
Messages ==
    [to : Sides, kind : (Kinds \ {"none"}) \cup {"budget", "budgetAck", "context", "contextAck"},
     binding : Bindings, generation : Nat, epoch : Nat, client : Nat, server : Nat]

TypesInv ==
    /\ e \in [Sides -> Controller]
    /\ net \in SUBSET Messages
    /\ scenario \in Scenarios
    /\ joins \in 0..scenario.joins
    /\ failures \in Nat
    /\ gone \in [Sides -> SUBSET Nat]

----------------------------------------------------------------------------
(* The inductive invariant.                                                *)

\* Of one controller: a join that is not committed is of a generation to come,
\* one that is committed is of the present one; retired routes are of the past;
\* a reply that waits is of the present generation.
Sound(k) ==
    /\ k.generation <= k.floor
    /\ k.join.pending => k.join.generation <= k.floor /\ k.join.kind # "none"
    /\ k.join.pending /\ ~k.join.committed => k.generation < k.join.generation
    /\ k.join.committed => k.join.generation = k.generation /\ k.join.binding = k.binding
    /\ k.join.kind = "ready" => k.join.committed
    /\ \A n \in 1..MaxOldEpochs : k.old[n].left > 0 => k.old[n].generation < k.generation
    /\ k.replies["budgetAck"].queued
         => k.replies["budgetAck"].generation = k.generation /\ k.receiveEpoch = 2
    /\ k.replies["contextAck"].queued => k.installed

\* The end has adopted the second epoch of the route, and accepts it or gave it up.
Adopted(side, binding, generation) ==
    ValidRoute(e[side], binding, generation, 2) \/ generation \in gone[side]

\* The generation is the responder's own with this tuple, or is behind it.
Behind(binding, generation) ==
    /\ generation <= e[R].generation
    /\ generation = e[R].generation => binding = e[R].binding

HasContext(side) == e[side].installed /\ e[side].ackSent

\* What a message claims of the end that sent it.
Claims(m) ==
    /\ m.kind = "ready" /\ m.to = I => Behind(m.binding, m.generation)
    /\ m.kind = "budgetAck" => Adopted(Peer(m.to), m.binding, m.generation)
    /\ m.kind = "contextAck" => HasContext(Peer(m.to))

\* What an end has taken from such messages.
Relies(side) ==
    /\ e[side].sendEpoch = 2 => Adopted(Peer(side), e[side].binding, e[side].generation)
    /\ e[side].acknowledged => HasContext(Peer(side))

JoinInv ==
    /\ TypesInv
    /\ \A side \in Sides : Sound(e[side])
    /\ Behind(e[I].binding, e[I].generation)
    /\ \A m \in net : Claims(m)
    /\ \A side \in Sides : Relies(side)

----------------------------------------------------------------------------
(* Steps of one end.                                                       *)

\* What driveControl leaves alone: it sends, and counts what it sent.
Carried(n, x) ==
    /\ x.active = n.active /\ x.generation = n.generation /\ x.floor = n.floor
    /\ x.binding = n.binding /\ x.sendEpoch = n.sendEpoch /\ x.receiveEpoch = n.receiveEpoch
    /\ x.oldEpoch = n.oldEpoch /\ x.oldLeft = n.oldLeft /\ x.old = n.old
    /\ x.acknowledged = n.acknowledged /\ x.installed = n.installed
    /\ n.ackSent => x.ackSent
    /\ x.join.pending = n.join.pending /\ x.join.generation = n.join.generation

\* What the other end may count on when a controller goes from k to n and gives
\* the generations in lost up.  A generation is taken up by the initiator, a
\* budget or a context is relied on, only for a message that says so.
Steps(side, k, n, lost) ==
    /\ \/ n.generation = k.generation /\ n.binding = k.binding
       \/ /\ n.generation > k.generation
          /\ side = I => \E m \in net : /\ m.to = I /\ m.kind = "ready"
                                        /\ m.generation = n.generation /\ m.binding = n.binding
    /\ n.floor >= k.floor
    /\ ~k.join.pending /\ n.join.pending => n.join.generation > k.floor
    /\ k.installed => n.installed
    /\ k.ackSent => n.ackSent
    /\ \A b \in Bindings, g \in Nat :
            ValidRoute(k, b, g, 2) => ValidRoute(n, b, g, 2) \/ g \in lost
    /\ n.sendEpoch = 2 =>
            \/ k.sendEpoch = 2 /\ n.generation = k.generation /\ n.binding = k.binding
            \/ \E m \in net : /\ m.to = side /\ m.kind = "budgetAck"
                              /\ m.generation = n.generation /\ m.binding = n.binding
    /\ n.acknowledged =>
            \/ k.acknowledged
            \/ \E m \in net : m.to = side /\ m.kind = "contextAck"

\* A message claims what is true of the controller that sends it.
Truthful(side, x, m) ==
    /\ m.to = Peer(side)
    /\ m.kind = "ready" => m.generation = x.generation /\ m.binding = x.binding
    /\ m.kind = "budgetAck" => ValidRoute(x, m.binding, m.generation, 2)
    /\ m.kind = "contextAck" => x.installed /\ x.ackSent

\* The ends, and the values nothing has been given to.
LEMMA EndsOfPath ==
    /\ I \in Sides /\ R \in Sides /\ I # R
    /\ \A side \in Sides : Peer(side) \in Sides /\ Peer(side) # side /\ Peer(Peer(side)) = side
    /\ Peer(I) = R /\ Peer(R) = I
  BY DEF I, R, Sides, Peer

LEMMA NoneTypes ==
    /\ NoRetry \in Retry /\ NoJoin \in JoinState /\ NoRoute \in Route /\ NoReply \in QueuedReply
<1>1. (CHOOSE b \in Bindings : TRUE) \in Bindings
  BY InstanceAssumption
<1>2. 0 \in 0..ControlSends
  BY TimesAssumption
<1>3. QED
  BY <1>1, <1>2 DEF NoRetry, Retry, NoJoin, JoinState, Kinds, NoRoute, Route, NoReply, QueuedReply

LEMMA JoinCap ==
    ASSUME NEW join \in JoinState
    PROVE  JoinLimit(join) \in Nat /\ JoinLimit(join) <= ControlSends
  BY TimesAssumption DEF JoinLimit

\* startBudget sets the budget's retry and nothing else.
LEMMA StartBudgetTypes ==
    ASSUME NEW k \in Controller
    PROVE  /\ StartBudget(k) \in Controller
           /\ StartBudget(k) = [k EXCEPT !.budget = StartBudget(k).budget]
<1> DEFINE b == [NoRetry EXCEPT !.pending = TRUE, !.left = Lifetime,
                                !.generation = k.generation, !.epoch = k.sendEpoch]
<1>0. k.generation \in Nat /\ k.sendEpoch \in Nat /\ Lifetime \in Nat
  BY TimesAssumption DEF Controller
<1>1. b \in Retry
  BY <1>0 DEF Retry, NoRetry
<1>2. StartBudget(k) = [k EXCEPT !.budget = b]
  BY DEF StartBudget
<1> HIDE DEF b
<1>3. QED
  BY <1>1, <1>2 DEF Controller

\* startEncoding sets the context's retry and its path.
LEMMA StartEncodingTypes ==
    ASSUME NEW k \in Controller
    PROVE  /\ StartEncoding(k) \in Controller
           /\ StartEncoding(k) = [k EXCEPT !.homed = TRUE, !.context = StartEncoding(k).context]
<1> DEFINE c == [pending |-> TRUE, next |-> 0,
                 left |-> IF k.context.pending THEN k.context.left ELSE Lifetime,
                 sends |-> IF k.context.pending THEN k.context.sends ELSE 0,
                 generation |-> k.generation, epoch |-> k.sendEpoch]
<1>1. c \in Retry
  BY TimesAssumption, SMTT(30) DEF Retry, Controller
<1>2. StartEncoding(k) = [k EXCEPT !.homed = TRUE, !.context = c]
  BY DEF StartEncoding
<1> HIDE DEF c
<1>3. QED
  BY <1>1, <1>2 DEF Controller

\* A step that leaves alone what driveControl leaves alone keeps routes valid.
LEMMA CarriedSteps ==
    ASSUME NEW side, NEW k \in Controller, NEW n \in Controller, NEW x \in Controller, NEW lost,
           Steps(side, k, n, lost), Carried(n, x)
    PROVE  Steps(side, k, x, lost)
<1>1. \A b, g : ValidRoute(n, b, g, 2) => ValidRoute(x, b, g, 2)
  BY DEF Carried, ValidRoute, OldRouteValid
<1>2. QED
  BY <1>1 DEF Steps, Carried

----------------------------------------------------------------------------
(* Sending.                                                                *)

LEMMA OutgoingFacts ==
    ASSUME NEW k \in Controller
    PROVE  /\ Outgoing(k) \in {"join", "budgetAck", "contextAck", "budget", "context", "nothing"}
           /\ Outgoing(k) = "join" => RetryDue(k.join, JoinLimit(k.join))
           /\ Outgoing(k) \in Replies => k.active /\ k.replies[Outgoing(k)].queued
  BY DEF Outgoing, Replies

LEMMA RefreshedCarries ==
    ASSUME NEW k \in Controller, Sound(k)
    PROVE  Refreshed(k) \in Controller /\ Sound(Refreshed(k)) /\ Carried(k, Refreshed(k))
<1>1. CASE Refreshed(k) = k
  BY <1>1 DEF Carried
<1>2. CASE Refreshed(k) = StartEncoding(k)
  <2> DEFINE c == StartEncoding(k).context
  <2>1. /\ StartEncoding(k) \in Controller
        /\ StartEncoding(k) = [k EXCEPT !.homed = TRUE, !.context = c]
    BY StartEncodingTypes
  <2> HIDE DEF c
  <2>2. Carried(k, StartEncoding(k))
    BY <2>1 DEF Controller, Carried
  <2>3. Sound(StartEncoding(k))
    BY <2>1 DEF Controller, Sound
  <2>4. QED
    BY <1>2, <2>1, <2>2, <2>3
<1>3. QED
  BY <1>1, <1>2 DEF Refreshed

\* One more send of a retry, and of a join that was due.
LEMMA AgainTypes ==
    /\ \A r \in Retry : [r EXCEPT !.sends = @ + 1, !.next = RetryInterval] \in Retry
    /\ \A j \in JoinState : RetryDue(j, JoinLimit(j)) =>
            [j EXCEPT !.sends = @ + 1, !.next = RetryInterval] \in JoinState
<1>1. RetryInterval \in Nat /\ ControlSends \in Nat
  BY TimesAssumption
<1>2. ASSUME NEW j \in JoinState, RetryDue(j, JoinLimit(j))
      PROVE  [j EXCEPT !.sends = @ + 1, !.next = RetryInterval] \in JoinState
  <2>1. j.sends + 1 \in 0..ControlSends
    <3>1. j.sends \in Nat /\ j.sends < JoinLimit(j)
      BY <1>2 DEF JoinState, RetryDue
    <3>2. QED
      BY <3>1, <1>1, JoinCap
  <2>2. QED
    BY <1>1, <2>1 DEF JoinState
<1>3. ASSUME NEW r \in Retry
      PROVE  [r EXCEPT !.sends = @ + 1, !.next = RetryInterval] \in Retry
  <2>1. r.sends + 1 \in Nat
    BY DEF Retry
  <2>2. QED
    BY <1>1, <2>1 DEF Retry
<1>4. QED
  BY <1>2, <1>3

LEMMA EmittedCarries ==
    ASSUME NEW k \in Controller, Sound(k), NEW success \in BOOLEAN, Outgoing(k) # "nothing"
    PROVE  /\ Emitted(k, success) \in Controller /\ Sound(Emitted(k, success))
           /\ Carried(k, Emitted(k, success))
           /\ Outgoing(k) = "contextAck" /\ success => Emitted(k, success).ackSent
<1> DEFINE what == Outgoing(k)
           x == Emitted(k, success)
           again(r) == [r EXCEPT !.sends = @ + 1, !.next = RetryInterval]
<1>1. CASE what = "join"
  <2>1. x = [k EXCEPT !.join = again(k.join)]
    BY <1>1 DEF Emitted, Replies
  <2>2. again(k.join) \in JoinState /\ k.join \in JoinState
    BY <1>1, OutgoingFacts, AgainTypes DEF Controller
  <2>3. x \in Controller /\ x.join = again(k.join)
    BY <2>1, <2>2 DEF Controller
  <2>4. /\ x.join.pending = k.join.pending /\ x.join.generation = k.join.generation
        /\ x.join.binding = k.join.binding /\ x.join.committed = k.join.committed
        /\ x.join.kind = k.join.kind
    BY <2>2, <2>3 DEF JoinState
  <2>5. Carried(k, x)
    BY <2>1, <2>4 DEF Controller, Carried
  <2>6. Sound(x)
    BY <2>1, <2>4 DEF Controller, Sound
  <2>7. QED
    BY <1>1, <2>3, <2>5, <2>6
<1>2. CASE what \in Replies
  <2>1. x = [k EXCEPT !.replies[what].queued = FALSE,
                      !.ackSent = @ \/ (what = "contextAck" /\ success)]
    BY <1>2 DEF Emitted, Replies
  <2>2. /\ k.replies \in [Replies -> QueuedReply]
        /\ [k.replies EXCEPT ![what].queued = FALSE] \in [Replies -> QueuedReply]
    BY <1>2 DEF Controller, QueuedReply
  <2>3. x \in Controller /\ x.replies = [k.replies EXCEPT ![what].queued = FALSE]
    BY <2>1, <2>2 DEF Controller
  <2>4. x.ackSent = (k.ackSent \/ (what = "contextAck" /\ success))
    BY <2>1 DEF Controller
  <2>5. \A r \in Replies : /\ x.replies[r].queued => k.replies[r].queued
                           /\ x.replies[r].generation = k.replies[r].generation
    BY <2>2, <2>3 DEF QueuedReply
  <2>6. Carried(k, x)
    BY <2>1, <2>4 DEF Controller, Carried
  <2>7. Sound(x)
    BY <2>1, <2>5 DEF Controller, Sound, Replies
  <2>8. QED
    BY <2>3, <2>4, <2>6, <2>7
<1>3. CASE what = "budget"
  <2>1. x = [k EXCEPT !.budget = again(k.budget)]
    BY <1>3 DEF Emitted, Replies
  <2>2. again(k.budget) \in Retry
    BY AgainTypes DEF Controller
  <2> HIDE DEF again
  <2>3. x \in Controller
    BY <2>1, <2>2 DEF Controller
  <2>4. Carried(k, x) /\ Sound(x)
    BY <2>1 DEF Controller, Carried, Sound
  <2>5. QED
    BY <1>3, <2>3, <2>4
<1>4. CASE what = "context"
  <2>1. x = [k EXCEPT !.context = again(k.context)]
    BY <1>4 DEF Emitted, Replies
  <2>2. again(k.context) \in Retry
    BY AgainTypes DEF Controller
  <2> HIDE DEF again
  <2>3. x \in Controller
    BY <2>1, <2>2 DEF Controller
  <2>4. Carried(k, x) /\ Sound(x)
    BY <2>1 DEF Controller, Carried, Sound
  <2>5. QED
    BY <1>4, <2>3, <2>4
<1>5. QED
  BY <1>1, <1>2, <1>3, <1>4, OutgoingFacts DEF Replies

\* A frame is a message, and claims what is true of its sender once it is sent.
LEMMA FrameTruthful ==
    ASSUME NEW side \in Sides, NEW k \in Controller, Sound(k), Outgoing(k) # "nothing"
    PROVE  /\ Frame(side, k) \in Messages
           /\ Truthful(side, Emitted(k, TRUE), Frame(side, k))
<1> DEFINE what == Outgoing(k)
           x == Emitted(k, TRUE)
           m == Frame(side, k)
           sent(f) == Message(side, what, k.binding, f.generation, f.epoch)
<1>1. Peer(side) \in Sides /\ k.binding \in Bindings
  BY EndsOfPath DEF Controller
<1>2. /\ x \in Controller /\ Carried(k, x)
      /\ what = "contextAck" => x.ackSent
  BY EmittedCarries
<1>3. ASSUME NEW f, f.generation \in Nat, f.epoch \in Nat,
             what \in {"budget", "budgetAck", "context", "contextAck"}, m = sent(f)
      PROVE  /\ m \in Messages /\ m.to = Peer(side) /\ m.kind = what
             /\ m.generation = f.generation /\ m.binding = k.binding
  BY <1>1, <1>3 DEF Message, Messages
<1>4. CASE what = "join"
  <2>1. m = [Message(side, k.join.kind, k.join.binding, k.join.generation, 0)
                EXCEPT !.client = k.join.client, !.server = k.join.server]
    BY <1>4 DEF Frame, Replies
  <2>2. k.join \in JoinState
    BY DEF Controller
  <2>3. m \in Messages
    <3>1. /\ k.join.kind \in Kinds \ {"none"} /\ k.join.binding \in Bindings /\ k.join.generation \in Nat
          /\ k.join.client \in Nat /\ k.join.server \in Nat
      BY <1>4, <2>2, OutgoingFacts DEF JoinState, RetryDue, Sound
    <3>2. m = [to |-> Peer(side), kind |-> k.join.kind, binding |-> k.join.binding,
               generation |-> k.join.generation, epoch |-> 0,
               client |-> k.join.client, server |-> k.join.server]
      BY <2>1 DEF Message
    <3>3. QED
      BY <1>1, <3>1, <3>2 DEF Messages
  <2>4. /\ m.to = Peer(side) /\ m.kind = k.join.kind
        /\ m.generation = k.join.generation /\ m.binding = k.join.binding
    BY <2>1 DEF Message
  <2>5. m.kind \in Kinds
    BY <2>2, <2>4 DEF JoinState
  <2>6. m.kind = "ready" => m.generation = x.generation /\ m.binding = x.binding
    BY <1>2, <2>4 DEF Sound, Carried
  <2>7. QED
    BY <2>3, <2>4, <2>5, <2>6 DEF Truthful, Kinds
<1>5. CASE what \in Replies
  <2> DEFINE f == k.replies[what]
  <2>1. m = sent(f)
    BY <1>5 DEF Frame, Replies
  <2>2. f \in QueuedReply /\ k.active /\ f.queued
    BY <1>5, OutgoingFacts DEF Controller
  <2>3. /\ m \in Messages /\ m.to = Peer(side) /\ m.kind = what
        /\ m.generation = f.generation /\ m.binding = k.binding
    BY <1>3, <1>5, <2>1, <2>2 DEF QueuedReply, Replies
  <2>4. CASE what = "budgetAck"
    <3>1. k.active /\ f.generation = k.generation /\ k.receiveEpoch = 2
      BY <2>2, <2>4 DEF Sound
    <3>2. ValidRoute(x, m.binding, m.generation, 2)
      BY <1>2, <2>3, <3>1 DEF Carried, ValidRoute
    <3>3. QED
      BY <2>3, <2>4, <3>2 DEF Truthful
  <2>5. CASE what = "contextAck"
    <3>1. k.installed
      BY <2>2, <2>5 DEF Sound
    <3>2. x.installed /\ x.ackSent
      BY <1>2, <2>5, <3>1 DEF Carried
    <3>3. QED
      BY <2>3, <2>5, <3>2 DEF Truthful
  <2>6. QED
    BY <1>5, <2>4, <2>5 DEF Replies
<1>6. CASE what \in {"budget", "context"}
  <2> DEFINE f == IF what = "budget" THEN k.budget ELSE k.context
  <2>1. m = sent(f)
    BY <1>6 DEF Frame, Replies
  <2>2. f.generation \in Nat /\ f.epoch \in Nat
    BY DEF Controller, Retry
  <2>3. m \in Messages /\ m.to = Peer(side) /\ m.kind = what
    BY <1>3, <1>6, <2>1, <2>2
  <2>4. QED
    BY <1>6, <2>3 DEF Truthful
<1>7. QED
  BY <1>4, <1>5, <1>6, OutgoingFacts DEF Replies

\* drive: what leaves is true, and what its peer counts on is left alone.
LEMMA DriveCarries ==
    ASSUME NEW side \in Sides, NEW n \in Controller, Sound(n), Drive(side, n)
    PROVE  \E x \in Controller :
              /\ Sound(x) /\ Carried(n, x)
              /\ e' = [e EXCEPT ![side] = x]
              /\ net' = net \/ \E m \in Messages : net' = net \cup {m} /\ Truthful(side, x, m)
<1> DEFINE k == Refreshed(n)
           stop(x) == IF Stranded(x) THEN [x EXCEPT !.closed = TRUE] ELSE x
<1>1. k \in Controller /\ Sound(k) /\ Carried(n, k)
  BY RefreshedCarries
<1>2. ASSUME NEW x \in Controller, Sound(x), Carried(n, x)
      PROVE  /\ stop(x) \in Controller /\ Sound(stop(x)) /\ Carried(n, stop(x))
             /\ \A m : Truthful(side, x, m) => Truthful(side, stop(x), m)
  <2>1. CASE stop(x) = x
    BY <1>2, <2>1
  <2>2. CASE stop(x) = [x EXCEPT !.closed = TRUE]
    <3>1. stop(x) \in Controller
      BY <2>2 DEF Controller
    <3>2. Carried(n, stop(x)) /\ Sound(stop(x))
      BY <1>2, <2>2 DEF Controller, Carried, Sound
    <3>3. \A m : Truthful(side, x, m) => Truthful(side, stop(x), m)
      BY <2>2 DEF Controller, Truthful, ValidRoute, OldRouteValid
    <3>4. QED
      BY <3>1, <3>2, <3>3
  <2>3. QED
    BY <2>1, <2>2
<1>3. CASE n.closed
  BY <1>3 DEF Drive, Carried
<1>4. CASE ~n.closed /\ Outgoing(k) = "nothing"
  <2>1. e' = [e EXCEPT ![side] = stop(k)] /\ net' = net
    BY <1>4 DEF Drive
  <2>2. QED
    BY <1>1, <1>2, <2>1
<1>5. CASE ~n.closed /\ Outgoing(k) # "nothing"
  <2>1. PICK success \in BOOLEAN :
            /\ e' = [e EXCEPT ![side] = stop(Emitted(k, success))]
            /\ net' = net \/ (success /\ net' = net \cup {Frame(side, k)})
    BY <1>5 DEF Drive
  <2> DEFINE x == Emitted(k, success)
  <2>2. x \in Controller /\ Sound(x) /\ Carried(k, x)
    BY <1>1, <1>5, EmittedCarries
  <2>3. Carried(n, x)
    BY <1>1, <2>2 DEF Carried
  <2>4. success => Frame(side, k) \in Messages /\ Truthful(side, x, Frame(side, k))
    BY <1>1, <1>5, FrameTruthful
  <2> HIDE DEF x, stop, k
  <2>5. QED
    BY <1>2, <2>1, <2>2, <2>3, <2>4 DEF x
<1>6. QED
  BY <1>3, <1>4, <1>5

----------------------------------------------------------------------------
(* Committing a path.                                                      *)

\* The first free slot of a contract's old epochs, at most eight.
LEMMA SmallestSlot ==
    ASSUME NEW S \in SUBSET (1..8), S # {}
    PROVE  \E n \in S : \A m \in S : n <= m
<1>1. CASE \E n \in 1..4 : n \in S
  <2>1. CASE 1 \in S
    BY <2>1
  <2>2. CASE 1 \notin S /\ 2 \in S
    BY <2>2
  <2>3. CASE 1 \notin S /\ 2 \notin S /\ 3 \in S
    BY <2>3
  <2>4. CASE 1 \notin S /\ 2 \notin S /\ 3 \notin S /\ 4 \in S
    BY <2>4
  <2>5. QED
    BY <1>1, <2>1, <2>2, <2>3, <2>4
<1>2. CASE \A n \in 1..4 : n \notin S
  <2>1. CASE 5 \in S
    BY <1>2, <2>1
  <2>2. CASE 5 \notin S /\ 6 \in S
    BY <1>2, <2>2
  <2>3. CASE 5 \notin S /\ 6 \notin S /\ 7 \in S
    BY <1>2, <2>3
  <2>4. CASE 5 \notin S /\ 6 \notin S /\ 7 \notin S /\ 8 \in S
    BY <1>2, <2>4
  <2>5. 5 \in S \/ 6 \in S \/ 7 \in S \/ 8 \in S
    <3>1. PICK n \in S : TRUE
      OBVIOUS
    <3>2. n = 5 \/ n = 6 \/ n = 7 \/ n = 8
      BY <1>2
    <3>3. QED
      BY <3>2
  <2>6. QED
    BY <2>1, <2>2, <2>3, <2>4, <2>5
<1>3. QED
  BY <1>1, <1>2

\* A join takes the place of another.
LEMMA JoinReplaced ==
    ASSUME NEW side, NEW k \in Controller, NEW x \in Controller, NEW lost, NEW j \in JoinState,
           Sound(x), Steps(side, k, x, lost),
           j.generation = x.join.generation, j.binding = x.join.binding,
           j.committed = x.join.committed, j.pending => x.join.pending /\ j.kind # "none",
           j.kind = "ready" => j.committed
    PROVE  LET n == [x EXCEPT !.join = j]
           IN  n \in Controller /\ Sound(n) /\ Steps(side, k, n, lost) /\ n.join = j
<1> DEFINE n == [x EXCEPT !.join = j]
<1>1. n \in Controller /\ n.join = j
  BY DEF Controller
<1>2. Sound(n)
  BY DEF Controller, Sound
<1>3. \A b, g : ValidRoute(n, b, g, 2) = ValidRoute(x, b, g, 2)
  BY DEF Controller, ValidRoute, OldRouteValid
<1>4. Steps(side, k, n, lost)
  BY <1>3, SMTT(30) DEF Controller, Steps
<1>5. QED
  BY <1>1, <1>2, <1>4

\* commitPath: the route that was active becomes a retired one in a free slot,
\* and no route in its grace is lost.
LEMMA CommitSteps ==
    ASSUME NEW side \in Sides, NEW k \in Controller, Sound(k), CanCommit(k),
           k.join.pending, ~k.join.committed,
           side = I => \E m \in net : /\ m.to = I /\ m.kind = "ready"
                                      /\ m.generation = k.join.generation
                                      /\ m.binding = k.join.binding
    PROVE  /\ Commit(k) \in Controller /\ Sound(Commit(k)) /\ Steps(side, k, Commit(k), {})
           /\ Commit(k).join = [k.join EXCEPT !.committed = TRUE]
<1> DEFINE first == CHOOSE n \in FreeOld(k) : \A m \in FreeOld(k) : n <= m
           old == IF k.active THEN [k.old EXCEPT ![first] = RetiredRoute(k)] ELSE k.old
           j == [k.join EXCEPT !.committed = TRUE]
           none == [r \in Replies |-> NoReply]
           c == [k EXCEPT
                    !.old = old,
                    !.active = TRUE, !.generation = k.join.generation, !.binding = k.join.binding,
                    !.sendEpoch = 1, !.receiveEpoch = 1, !.oldEpoch = 0, !.oldLeft = 0,
                    !.peerLeft = 0, !.replies = none, !.join = j]
           n == Commit(k)
<1>1. k.active => first \in FreeOld(k)
  <2>1. ASSUME k.active
        PROVE  \E n1 \in FreeOld(k) : \A m \in FreeOld(k) : n1 <= m
    <3>1. FreeOld(k) \in SUBSET (1..8) /\ FreeOld(k) # {}
      BY <2>1, TimesAssumption DEF FreeOld, CanCommit
    <3>2. QED
      BY <3>1, SmallestSlot
  <2>2. QED
    BY <2>1
<1> HIDE DEF first
<1>2. /\ k.join \in JoinState /\ j \in JoinState
      /\ j.generation = k.join.generation /\ j.binding = k.join.binding
      /\ j.pending = k.join.pending /\ j.committed /\ j.kind = k.join.kind
  BY DEF Controller, JoinState
<1>3. /\ RetiredRoute(k) \in Route
      /\ RetiredRoute(k).generation = k.generation /\ RetiredRoute(k).left > 0
      /\ RetiredRoute(k).epoch = k.receiveEpoch /\ RetiredRoute(k).binding = k.binding
  BY TimesAssumption DEF Controller, RetiredRoute, Route
<1>4. old \in [1..MaxOldEpochs -> Route] /\ k.old \in [1..MaxOldEpochs -> Route]
  BY <1>1, <1>3 DEF Controller, FreeOld
<1>5. \A i \in 1..MaxOldEpochs :
        \/ old[i] = k.old[i]
        \/ k.active /\ i = first /\ old[i] = RetiredRoute(k) /\ k.old[i].left = 0
  BY <1>1, <1>4 DEF FreeOld
<1>6. k.active => first \in 1..MaxOldEpochs /\ old[first] = RetiredRoute(k)
  BY <1>1, <1>4 DEF FreeOld
<1> HIDE DEF old, j
<1>7. none \in [Replies -> QueuedReply] /\ \A r \in Replies : ~none[r].queued
  BY NoneTypes DEF NoReply
<1> HIDE DEF none
<1>8. k.join.generation \in Nat /\ k.join.binding \in Bindings
  BY <1>2 DEF JoinState
<1>9. c \in Controller
  BY <1>2, <1>4, <1>7, <1>8 DEF Controller
<1>10. /\ c.old = old /\ c.active /\ c.generation = k.join.generation
       /\ c.binding = k.join.binding /\ c.sendEpoch = 1 /\ c.receiveEpoch = 1
       /\ c.oldEpoch = 0 /\ c.replies = none /\ c.join = j /\ c.floor = k.floor
       /\ c.installed = k.installed /\ c.ackSent = k.ackSent /\ c.acknowledged = k.acknowledged
  BY DEF Controller
<1>11. n = StartBudget(c)
  BY DEF Commit, first, old, j, none
<1> HIDE DEF c, n
<1>12. n \in Controller /\ n = [c EXCEPT !.budget = n.budget]
  BY <1>9, <1>11, StartBudgetTypes
<1>13. /\ n.old = old /\ n.active /\ n.generation = k.join.generation
       /\ n.binding = k.join.binding /\ n.sendEpoch = 1 /\ n.receiveEpoch = 1
       /\ n.oldEpoch = 0 /\ n.replies = none /\ n.join = j /\ n.floor = k.floor
       /\ n.installed = k.installed /\ n.ackSent = k.ackSent /\ n.acknowledged = k.acknowledged
  BY <1>9, <1>10, <1>12 DEF Controller
<1>14. k.generation \in Nat /\ k.floor \in Nat
  BY DEF Controller
<1>15. /\ k.generation < k.join.generation /\ k.join.generation <= k.floor
  BY DEF Sound
<1>16. \A i \in 1..MaxOldEpochs : old[i].left > 0 => old[i].generation < k.join.generation
  <2> SUFFICES ASSUME NEW i \in 1..MaxOldEpochs, old[i].left > 0
               PROVE  old[i].generation < k.join.generation
    OBVIOUS
  <2>1. CASE old[i] = k.old[i]
    <3>1. k.old[i].generation < k.generation /\ k.old[i].generation \in Nat
      BY <1>4, <2>1 DEF Sound, Route
    <3>2. QED
      BY <1>8, <1>14, <1>15, <2>1, <3>1
  <2>2. CASE old[i] = RetiredRoute(k)
    BY <1>3, <1>15, <2>2
  <2>3. QED
    BY <1>5, <2>1, <2>2
<1>17. Sound(n)
  BY <1>2, <1>7, <1>13, <1>15, <1>16 DEF Sound, Replies
<1>18. ASSUME NEW b \in Bindings, NEW g \in Nat, ValidRoute(k, b, g, 2)
       PROVE  ValidRoute(n, b, g, 2)
  <2>1. CASE k.active /\ k.binding = b /\ k.generation = g /\ k.receiveEpoch = 2
    <3>1. /\ old[first].generation = g /\ old[first].epoch = 2
          /\ old[first].binding = b /\ old[first].left > 0
      BY <1>3, <1>6, <2>1
    <3>2. OldRouteValid(n, b, g, 2)
      BY <1>6, <1>13, <2>1, <3>1 DEF OldRouteValid
    <3>3. QED
      BY <3>2 DEF ValidRoute
  <2>2. CASE OldRouteValid(k, b, g, 2)
    <3>1. PICK i \in 1..MaxOldEpochs :
              /\ k.old[i].generation = g /\ k.old[i].epoch = 2
              /\ k.old[i].binding = b /\ k.old[i].left > 0
      BY <2>2 DEF OldRouteValid
    <3>2. old[i] = k.old[i]
      BY <1>5, <3>1
    <3>3. QED
      BY <1>13, <3>1, <3>2 DEF OldRouteValid, ValidRoute
  <2>3. k.oldEpoch # 2
    BY DEF Controller
  <2>4. QED
    BY <1>18, <2>1, <2>2, <2>3 DEF ValidRoute
<1>19. Steps(side, k, n, {})
  <2>1. \/ n.generation = k.generation /\ n.binding = k.binding
        \/ /\ n.generation > k.generation
           /\ side = I => \E m \in net : /\ m.to = I /\ m.kind = "ready"
                                         /\ m.generation = n.generation /\ m.binding = n.binding
    BY <1>8, <1>13, <1>14, <1>15
  <2>2. n.floor >= k.floor
    BY <1>13, <1>14
  <2>3. QED
    BY <2>1, <2>2, <1>13, <1>18 DEF Steps
<1>20. QED
  BY <1>12, <1>13, <1>17, <1>19 DEF n, j

----------------------------------------------------------------------------
(* Receiving.                                                              *)

\* The controller n is one its peer can live with after k.
Handled(side, k, n, lost) ==
    n \in Controller /\ Sound(n) /\ Steps(side, k, n, lost)

LEMMA NothingDone ==
    ASSUME NEW side \in Sides, NEW k \in Controller, Sound(k)
    PROVE  Handled(side, k, k, {})
  BY DEF Handled, Steps, Controller

\* A join is opened above the floor.
LEMMA JoinOpened ==
    ASSUME NEW side \in Sides, NEW k \in Controller, Sound(k), NEW g \in Nat, g > k.floor,
           NEW j \in JoinState, j.generation = g, ~j.committed, j.kind \notin {"ready", "none"}
    PROVE  Handled(side, k, [k EXCEPT !.floor = g, !.join = j], {})
<1> DEFINE n == [k EXCEPT !.floor = g, !.join = j]
<1>1. n \in Controller
  BY DEF Controller
<1>2. /\ n.floor = g /\ n.join = j /\ n.generation = k.generation /\ n.binding = k.binding
      /\ n.old = k.old /\ n.replies = k.replies /\ n.installed = k.installed
      /\ n.receiveEpoch = k.receiveEpoch /\ n.sendEpoch = k.sendEpoch
      /\ n.ackSent = k.ackSent /\ n.acknowledged = k.acknowledged
      /\ n.active = k.active /\ n.oldEpoch = k.oldEpoch /\ n.oldLeft = k.oldLeft
  BY DEF Controller
<1> HIDE DEF n
<1>3. k.generation \in Nat /\ k.floor \in Nat
  BY DEF Controller
<1>4. k.generation < g
  BY <1>3 DEF Sound
<1>5. Sound(n)
  <2>1. n.generation <= n.floor /\ n.join.generation <= n.floor /\ n.generation < n.join.generation
    BY <1>2, <1>3, <1>4
  <2>2. QED
    BY <1>2, <2>1 DEF Sound
<1>6. \A b \in Bindings, h \in Nat : ValidRoute(k, b, h, 2) => ValidRoute(n, b, h, 2)
  BY <1>2 DEF ValidRoute, OldRouteValid
<1>7. n.floor >= k.floor
  BY <1>2, <1>3
<1>8. Steps(side, k, n, {})
  BY <1>2, <1>6, <1>7 DEF Steps
<1>9. QED
  BY <1>1, <1>5, <1>8 DEF Handled, n

LEMMA PathJoinHandled ==
    ASSUME NEW k \in Controller, Sound(k), NEW m \in Messages, NEW n \in ReceivePathJoin(k, m)
    PROVE  Handled(R, k, n, {})
<1> DEFINE j == [NoJoin EXCEPT !.pending = TRUE, !.left = Lifetime, !.kind = "challenge",
                               !.generation = m.generation, !.binding = m.binding,
                               !.client = m.client, !.server = m.generation]
<1>1. CASE n = k
  BY <1>1, NothingDone, EndsOfPath
<1>2. CASE n = [k EXCEPT !.floor = m.generation, !.join = j] /\ AboveFloor(k, m)
  <2>1. /\ m.generation \in Nat /\ m.binding \in Bindings /\ m.client \in Nat /\ Lifetime \in Nat
    BY TimesAssumption DEF Messages
  <2>2. NoJoin \in JoinState /\ NoJoin.committed = FALSE
    BY NoneTypes DEF NoJoin
  <2>3. j \in JoinState
    BY <2>1, <2>2 DEF JoinState, Kinds
  <2>4. j.generation = m.generation /\ ~j.committed /\ j.kind = "challenge"
    BY <2>2 DEF JoinState
  <2> HIDE DEF j
  <2>5. QED
    BY <1>2, <2>1, <2>3, <2>4, JoinOpened, EndsOfPath DEF AboveFloor
<1>3. QED
  BY <1>1, <1>2 DEF ReceivePathJoin

LEMMA ChallengeHandled ==
    ASSUME NEW k \in Controller, Sound(k), NEW m \in Messages, NEW n \in ReceiveChallenge(k, m)
    PROVE  Handled(I, k, n, {})
<1>1. CASE n = k
  BY <1>1, NothingDone, EndsOfPath
<1>2. CASE n = [k EXCEPT !.join.server = m.server, !.join.next = 0, !.join.kind = "confirm"]
  <2> DEFINE j == [k.join EXCEPT !.server = m.server, !.next = 0, !.kind = "confirm"]
  <2>1. n = [k EXCEPT !.join = j]
    BY <1>2 DEF Controller
  <2>2. k.join \in JoinState /\ m.server \in Nat
    BY DEF Controller, Messages
  <2>3. /\ j \in JoinState /\ j.generation = k.join.generation /\ j.binding = k.join.binding
        /\ j.committed = k.join.committed /\ j.pending = k.join.pending /\ j.kind = "confirm"
    BY <2>2 DEF JoinState, Kinds
  <2> HIDE DEF j
  <2>4. Steps(I, k, k, {})
    BY NothingDone, EndsOfPath DEF Handled
  <2>5. QED
    BY <2>1, <2>3, <2>4, JoinReplaced DEF Handled
<1>3. QED
  BY <1>1, <1>2 DEF ReceiveChallenge

LEMMA ConfirmHandled ==
    ASSUME NEW k \in Controller, Sound(k), NEW m \in Messages, NEW n \in ReceiveConfirm(k, m)
    PROVE  Handled(R, k, n, {})
<1>1. CASE n = k
  BY <1>1, NothingDone, EndsOfPath
<1>2. CASE /\ n = [Commit(k) EXCEPT !.join.next = 0, !.join.kind = "ready"]
           /\ SameJoin(k, m) /\ ~k.join.committed /\ CanCommit(k)
  <2> DEFINE x == Commit(k)
             j == [x.join EXCEPT !.next = 0, !.kind = "ready"]
  <2>1. /\ x \in Controller /\ Sound(x) /\ Steps(R, k, x, {})
        /\ x.join = [k.join EXCEPT !.committed = TRUE]
    BY <1>2, CommitSteps, EndsOfPath DEF SameJoin
  <2> HIDE DEF x
  <2>2. n = [x EXCEPT !.join = j]
    BY <1>2, <2>1 DEF Controller, x
  <2>3. x.join \in JoinState /\ x.join.committed
    BY <2>1 DEF Controller, JoinState
  <2>4. /\ j \in JoinState /\ j.generation = x.join.generation /\ j.binding = x.join.binding
        /\ j.committed = x.join.committed /\ j.pending = x.join.pending /\ j.kind = "ready"
    BY <2>3 DEF JoinState, Kinds
  <2> HIDE DEF j
  <2>5. QED
    BY <2>1, <2>2, <2>3, <2>4, JoinReplaced DEF Handled
<1>3. QED
  BY <1>1, <1>2 DEF ReceiveConfirm

LEMMA ReadyHandled ==
    ASSUME NEW k \in Controller, Sound(k), NEW m \in Messages, NEW n \in ReceiveReady(k, m),
           m \in net, m.to = I, m.kind = "ready"
    PROVE  Handled(I, k, n, {})
<1>1. CASE n = k
  BY <1>1, NothingDone, EndsOfPath
<1>2. CASE /\ n = [Commit(k) EXCEPT !.join.pending = FALSE]
           /\ SameJoin(k, m) /\ ~k.join.committed /\ CanCommit(k)
  <2> DEFINE x == Commit(k)
             j == [x.join EXCEPT !.pending = FALSE]
  <2>1. /\ x \in Controller /\ Sound(x) /\ Steps(I, k, x, {})
        /\ x.join = [k.join EXCEPT !.committed = TRUE]
    BY <1>2, CommitSteps, EndsOfPath DEF SameJoin
  <2> HIDE DEF x
  <2>2. n = [x EXCEPT !.join = j]
    BY <1>2, <2>1 DEF Controller, x
  <2>3. x.join \in JoinState /\ x.join.committed
    BY <2>1 DEF Controller, JoinState
  <2>4. /\ j \in JoinState /\ j.generation = x.join.generation /\ j.binding = x.join.binding
        /\ j.committed = x.join.committed /\ ~j.pending
    BY <2>3 DEF JoinState
  <2> HIDE DEF j
  <2>5. QED
    BY <2>1, <2>2, <2>3, <2>4, JoinReplaced DEF Handled
<1>3. QED
  BY <1>1, <1>2 DEF ReceiveReady, SameJoin

\* queueReply.
LEMMA ReplyHandled ==
    ASSUME NEW side \in Sides, NEW k \in Controller, NEW x, NEW lost, Handled(side, k, x, lost),
           NEW r \in Replies, r = "budgetAck" => x.receiveEpoch = 2,
           r = "contextAck" => x.installed
    PROVE  Handled(side, k, Reply(x, r), lost)
<1> DEFINE q == [queued |-> TRUE, generation |-> x.generation, epoch |-> x.sendEpoch]
           rs == [x.replies EXCEPT ![r] = q]
           n == Reply(x, r)
<1>1. x \in Controller /\ Sound(x) /\ Steps(side, k, x, lost)
  BY DEF Handled
<1>2. q \in QueuedReply /\ x.replies \in [Replies -> QueuedReply]
  BY <1>1 DEF Controller, QueuedReply
<1>3. /\ rs \in [Replies -> QueuedReply]
      /\ \A s \in Replies : rs[s] = IF s = r THEN q ELSE x.replies[s]
  BY <1>2
<1>4. n = [x EXCEPT !.replies = rs]
  BY <1>1 DEF Reply, Controller
<1>5. /\ rs["budgetAck"].queued
           => rs["budgetAck"].generation = x.generation /\ x.receiveEpoch = 2
      /\ rs["contextAck"].queued => x.installed
  <2>1. rs["budgetAck"] = IF r = "budgetAck" THEN q ELSE x.replies["budgetAck"]
    BY <1>3 DEF Replies
  <2>2. rs["contextAck"] = IF r = "contextAck" THEN q ELSE x.replies["contextAck"]
    BY <1>3 DEF Replies
  <2> HIDE DEF rs
  <2>3. QED
    BY <1>1, <2>1, <2>2 DEF Sound
<1> HIDE DEF rs, n
<1>6. n \in Controller
  BY <1>1, <1>3, <1>4 DEF Controller
<1>7. /\ n.replies = rs /\ n.floor = x.floor /\ n.join = x.join
      /\ n.generation = x.generation /\ n.binding = x.binding /\ n.old = x.old
      /\ n.installed = x.installed /\ n.receiveEpoch = x.receiveEpoch
  BY <1>1, <1>4 DEF Controller
<1>8. Sound(n)
  BY <1>1, <1>5, <1>7 DEF Sound
<1>9. Carried(x, n)
  BY <1>1, <1>4 DEF Controller, Carried
<1>10. Steps(side, k, n, lost)
  BY <1>1, <1>6, <1>9, CarriedSteps
<1>11. QED
  BY <1>6, <1>8, <1>10 DEF Handled, n

\* A control message is let through for the present route only: retired routes
\* have generations of the past.
LEMMA AdmittedRoute ==
    ASSUME NEW k \in Controller, Sound(k), NEW m \in Messages, Admitted(k, m)
    PROVE  k.active /\ m.generation = k.generation /\ m.binding = k.binding
<1>1. k.generation \in Nat /\ m.generation = k.generation
  BY DEF Controller, Admitted
<1>2. ~OldRouteValid(k, m.binding, m.generation, m.epoch)
  BY <1>1 DEF OldRouteValid, Sound
<1>3. QED
  BY <1>1, <1>2 DEF Admitted, ValidRoute, AllowBudgetRetry

LEMMA BudgetHandled ==
    ASSUME NEW side \in Sides, NEW k \in Controller, Sound(k), NEW m \in Messages,
           NEW n \in ReceiveBudget(k, m)
    PROVE  Handled(side, k, n, {})
<1> DEFINE up == [k EXCEPT !.oldEpoch = k.receiveEpoch, !.oldLeft = Grace,
                           !.peerLeft = Lifetime, !.receiveEpoch = 2]
           x == IF k.receiveEpoch = 2 THEN k ELSE up
<1>1. n = Reply(x, "budgetAck")
  BY DEF ReceiveBudget
<1>2. CASE k.receiveEpoch = 2
  BY <1>1, <1>2, NothingDone, ReplyHandled DEF Replies
<1>3. CASE k.receiveEpoch = 1
  <2>1. up \in Controller
    BY <1>3, TimesAssumption DEF Controller
  <2>2. /\ up.receiveEpoch = 2 /\ up.join = k.join /\ up.floor = k.floor
        /\ up.generation = k.generation /\ up.binding = k.binding /\ up.old = k.old
        /\ up.installed = k.installed /\ up.replies = k.replies
        /\ up.ackSent = k.ackSent /\ up.acknowledged = k.acknowledged
        /\ up.sendEpoch = k.sendEpoch /\ up.active = k.active /\ k.oldEpoch # 2
    BY DEF Controller
  <2> HIDE DEF up
  <2>3. Sound(up)
    BY <2>2 DEF Sound
  <2>4. \A b \in Bindings, g \in Nat : ValidRoute(k, b, g, 2) => ValidRoute(up, b, g, 2)
    BY <2>2 DEF ValidRoute, OldRouteValid
  <2>5. Steps(side, k, k, {})
    BY NothingDone DEF Handled
  <2>6. Steps(side, k, up, {})
    BY <2>2, <2>4, <2>5 DEF Steps
  <2>7. QED
    BY <1>1, <1>3, <2>1, <2>2, <2>3, <2>6, ReplyHandled DEF Handled, Replies
<1>4. QED
  BY <1>2, <1>3 DEF Controller

LEMMA BudgetAckHandled ==
    ASSUME NEW side \in Sides, NEW k \in Controller, Sound(k), NEW m \in Messages,
           m \in net, m.to = side, m.kind = "budgetAck", Admitted(k, m),
           NEW n \in ReceiveBudgetAck(k, m)
    PROVE  Handled(side, k, n, {})
<1> DEFINE acked == [k EXCEPT !.sendEpoch = 2, !.budget.pending = FALSE]
           b == [k.budget EXCEPT !.pending = FALSE]
<1>1. CASE n = k
  BY <1>1, NothingDone
<1>2. acked = [k EXCEPT !.sendEpoch = 2, !.budget = b]
  BY DEF Controller
<1>3. b \in Retry
  BY DEF Controller, Retry
<1> HIDE DEF b
<1>4. acked \in Controller
  BY <1>2, <1>3 DEF Controller
<1>5. /\ acked.join = k.join /\ acked.floor = k.floor /\ acked.receiveEpoch = k.receiveEpoch
      /\ acked.generation = k.generation /\ acked.binding = k.binding /\ acked.old = k.old
      /\ acked.installed = k.installed /\ acked.replies = k.replies
      /\ acked.ackSent = k.ackSent /\ acked.acknowledged = k.acknowledged
      /\ acked.sendEpoch = 2 /\ acked.active = k.active
      /\ acked.oldEpoch = k.oldEpoch /\ acked.oldLeft = k.oldLeft
  BY <1>2 DEF Controller
<1> HIDE DEF acked
<1>6. Sound(acked)
  BY <1>5 DEF Sound
<1>7. Steps(side, k, acked, {})
  <2>1. \A c \in Bindings, g \in Nat : ValidRoute(k, c, g, 2) => ValidRoute(acked, c, g, 2)
    BY <1>5 DEF ValidRoute, OldRouteValid
  <2>2. Steps(side, k, k, {})
    BY NothingDone DEF Handled
  <2>3. m.generation = acked.generation /\ m.binding = acked.binding
    BY <1>5, AdmittedRoute
  <2>4. QED
    BY <1>5, <2>1, <2>2, <2>3 DEF Steps
<1>8. CASE n = acked
  BY <1>4, <1>6, <1>7, <1>8 DEF Handled
<1>9. CASE n = [acked EXCEPT !.closed = TRUE]
  <2>1. n \in Controller
    BY <1>4, <1>9 DEF Controller
  <2>2. Sound(n) /\ Carried(acked, n)
    BY <1>4, <1>6, <1>9 DEF Controller, Sound, Carried
  <2>3. QED
    BY <1>4, <1>7, <2>1, <2>2, CarriedSteps DEF Handled
<1>10. CASE n = StartEncoding(acked)
  <2> DEFINE c == n.context
  <2>1. n \in Controller /\ n = [acked EXCEPT !.homed = TRUE, !.context = c]
    BY <1>4, <1>10, StartEncodingTypes
  <2> HIDE DEF c
  <2>2. Sound(n) /\ Carried(acked, n)
    BY <1>4, <1>6, <2>1 DEF Controller, Sound, Carried
  <2>3. QED
    BY <1>4, <1>7, <2>1, <2>2, CarriedSteps DEF Handled
<1>11. QED
  BY <1>1, <1>8, <1>9, <1>10 DEF ReceiveBudgetAck, acked

LEMMA ContextHandled ==
    ASSUME NEW side \in Sides, NEW k \in Controller, Sound(k), NEW m \in Messages,
           NEW n \in ReceiveContext(k, m)
    PROVE  Handled(side, k, n, {})
<1> DEFINE x == [k EXCEPT !.installed = TRUE]
<1>1. n = Reply(x, "contextAck")
  BY DEF ReceiveContext
<1>2. x \in Controller
  BY DEF Controller
<1>3. /\ x.join = k.join /\ x.floor = k.floor /\ x.receiveEpoch = k.receiveEpoch
      /\ x.generation = k.generation /\ x.binding = k.binding /\ x.old = k.old
      /\ x.installed /\ x.replies = k.replies /\ x.sendEpoch = k.sendEpoch
      /\ x.ackSent = k.ackSent /\ x.acknowledged = k.acknowledged
      /\ x.active = k.active /\ x.oldEpoch = k.oldEpoch /\ x.oldLeft = k.oldLeft
  BY DEF Controller
<1> HIDE DEF x
<1>4. Sound(x)
  BY <1>3 DEF Sound
<1>5. \A c \in Bindings, g \in Nat : ValidRoute(k, c, g, 2) => ValidRoute(x, c, g, 2)
  BY <1>3 DEF ValidRoute, OldRouteValid
<1>6. Steps(side, k, k, {})
  BY NothingDone DEF Handled
<1>7. Steps(side, k, x, {})
  BY <1>3, <1>5, <1>6 DEF Steps
<1>8. QED
  BY <1>1, <1>2, <1>3, <1>4, <1>7, ReplyHandled DEF Handled, Replies

LEMMA ContextAckHandled ==
    ASSUME NEW side \in Sides, NEW k \in Controller, Sound(k), NEW m \in Messages,
           m \in net, m.to = side, m.kind = "contextAck", NEW n \in ReceiveContextAck(k, m)
    PROVE  Handled(side, k, n, {})
<1> DEFINE x == [k EXCEPT !.acknowledged = TRUE, !.context.pending = FALSE]
           c == [k.context EXCEPT !.pending = FALSE]
<1>1. CASE n = k
  BY <1>1, NothingDone
<1>2. CASE n = x
  <2>1. x = [k EXCEPT !.acknowledged = TRUE, !.context = c]
    BY DEF Controller
  <2>2. c \in Retry
    BY DEF Controller, Retry
  <2> HIDE DEF c
  <2>3. x \in Controller
    BY <2>1, <2>2 DEF Controller
  <2>4. /\ x.join = k.join /\ x.floor = k.floor /\ x.receiveEpoch = k.receiveEpoch
        /\ x.generation = k.generation /\ x.binding = k.binding /\ x.old = k.old
        /\ x.installed = k.installed /\ x.replies = k.replies /\ x.sendEpoch = k.sendEpoch
        /\ x.ackSent = k.ackSent /\ x.active = k.active
        /\ x.oldEpoch = k.oldEpoch /\ x.oldLeft = k.oldLeft
    BY <2>1 DEF Controller
  <2> HIDE DEF x
  <2>5. Sound(x)
    BY <2>4 DEF Sound
  <2>6. \A d \in Bindings, g \in Nat : ValidRoute(k, d, g, 2) => ValidRoute(x, d, g, 2)
    BY <2>4 DEF ValidRoute, OldRouteValid
  <2>7. Steps(side, k, k, {})
    BY NothingDone DEF Handled
  <2>8. Steps(side, k, x, {})
    BY <2>4, <2>6, <2>7 DEF Steps
  <2>9. QED
    BY <1>2, <2>3, <2>5, <2>8 DEF Handled
<1>3. QED
  BY <1>1, <1>2 DEF ReceiveContextAck

\* Receive, whatever the message.
LEMMA ReceivedHandled ==
    ASSUME NEW side \in Sides, NEW k \in Controller, Sound(k), NEW m \in Messages,
           m \in net, m.to = side, NEW n \in Received(side, k, m)
    PROVE  Handled(side, k, n, {})
<1>1. CASE m.kind = "join"
  BY <1>1, PathJoinHandled DEF Received
<1>2. CASE m.kind = "challenge"
  BY <1>2, ChallengeHandled DEF Received
<1>3. CASE m.kind = "confirm"
  BY <1>3, ConfirmHandled DEF Received
<1>4. CASE m.kind = "ready"
  BY <1>4, ReadyHandled DEF Received
<1>5. CASE m.kind \notin {"join", "challenge", "confirm", "ready"}
  <2>1. Admitted(k, m) /\ n \in ReceivedControl(k, m)
    BY <1>5 DEF Received
  <2>3. m.kind \in {"budget", "budgetAck", "context", "contextAck"}
    BY <1>5 DEF Messages, Kinds
  <2>4. CASE m.kind = "budget"
    BY <2>1, <2>4, BudgetHandled DEF ReceivedControl
  <2>5. CASE m.kind = "budgetAck"
    BY <2>1, <2>5, BudgetAckHandled DEF ReceivedControl
  <2>6. CASE m.kind = "context"
    BY <2>1, <2>6, ContextHandled DEF ReceivedControl
  <2>7. CASE m.kind = "contextAck"
    BY <2>1, <2>7, ContextAckHandled DEF ReceivedControl
  <2>8. QED
    BY <2>3, <2>4, <2>5, <2>6, <2>7
<1>6. QED
  BY <1>1, <1>2, <1>3, <1>4, <1>5

----------------------------------------------------------------------------
(* Time and failures.                                                      *)

\* expireControl and a context that starts over: the route of a budget that ran
\* out is given up, and no other.
LEMMA ExpiredHandled ==
    ASSUME NEW side \in Sides, NEW k \in Controller, Sound(k), NEW late \in BOOLEAN
    PROVE  LET expired == [k EXCEPT !.join = IF @.left = 0 THEN NoJoin ELSE @,
                                    !.active = @ /\ ~late, !.budget.pending = @ /\ ~late,
                                    !.homed = @ /\ ~(late /\ ~k.acknowledged)]
               lost == IF late THEN {k.generation} ELSE {}
           IN  /\ Handled(side, k, expired, lost)
               /\ Handled(side, k, StartEncoding(expired), lost)
<1> DEFINE expired == [k EXCEPT !.join = IF @.left = 0 THEN NoJoin ELSE @,
                                !.active = @ /\ ~late, !.budget.pending = @ /\ ~late,
                                !.homed = @ /\ ~(late /\ ~k.acknowledged)]
           lost == IF late THEN {k.generation} ELSE {}
           j == IF k.join.left = 0 THEN NoJoin ELSE k.join
           b == [k.budget EXCEPT !.pending = @ /\ ~late]
           x == expired
<1>1. x = [k EXCEPT !.join = j, !.active = k.active /\ ~late, !.budget = b,
                    !.homed = k.homed /\ ~(late /\ ~k.acknowledged)]
  BY DEF Controller
<1>2. b \in Retry
  BY DEF Controller, Retry
<1>3. j \in JoinState
  BY NoneTypes DEF Controller
<1>4. j = k.join \/ (~j.pending /\ ~j.committed /\ j.kind = "none")
  BY DEF NoJoin
<1> HIDE DEF j, b, x, expired
<1>5. x \in Controller
  BY <1>1, <1>2, <1>3, ZenonT(40) DEF Controller
<1>6. /\ x.join = j /\ x.active = (k.active /\ ~late)
      /\ x.floor = k.floor /\ x.receiveEpoch = k.receiveEpoch
      /\ x.generation = k.generation /\ x.binding = k.binding /\ x.old = k.old
      /\ x.installed = k.installed /\ x.replies = k.replies /\ x.sendEpoch = k.sendEpoch
      /\ x.ackSent = k.ackSent /\ x.acknowledged = k.acknowledged
      /\ x.oldEpoch = k.oldEpoch /\ x.oldLeft = k.oldLeft
  BY <1>1 DEF Controller
<1>7. Sound(x)
  BY <1>4, <1>6 DEF Sound
<1>8. \A c \in Bindings, g \in Nat : ValidRoute(k, c, g, 2) => ValidRoute(x, c, g, 2) \/ g \in lost
  BY <1>6 DEF ValidRoute, OldRouteValid
<1>9. Steps(side, k, k, {})
  BY NothingDone DEF Handled
<1>10. Steps(side, k, x, lost)
  BY <1>4, <1>6, <1>8, <1>9 DEF Steps
<1>11. Handled(side, k, x, lost)
  BY <1>5, <1>7, <1>10 DEF Handled
<1>12. Handled(side, k, StartEncoding(x), lost)
  <2> DEFINE n == StartEncoding(x)
             c == n.context
  <2>1. n \in Controller /\ n = [x EXCEPT !.homed = TRUE, !.context = c]
    BY <1>5, StartEncodingTypes
  <2> HIDE DEF c, n
  <2>2. Sound(n) /\ Carried(x, n)
    BY <1>5, <1>7, <2>1 DEF Controller, Sound, Carried
  <2>3. QED
    BY <1>5, <1>10, <2>1, <2>2, CarriedSteps DEF Handled, n
<1>13. QED
  BY <1>11, <1>12 DEF x, expired

\* The runtime closes a Session that has no path left to wait for.
LEMMA ClosedHandled ==
    ASSUME NEW side \in Sides, NEW k \in Controller, NEW lost, NEW x, Handled(side, k, x, lost)
    PROVE  Handled(side, k, [x EXCEPT !.closed = TRUE], lost)
<1> DEFINE n == [x EXCEPT !.closed = TRUE]
<1>1. x \in Controller /\ Sound(x) /\ Steps(side, k, x, lost)
  BY DEF Handled
<1>2. n \in Controller /\ Sound(n) /\ Carried(x, n)
  BY <1>1, ZenonT(40) DEF Controller, Sound, Carried
<1>3. QED
  BY <1>1, <1>2, CarriedSteps DEF Handled

LEMMA FailedHandled ==
    ASSUME NEW side \in Sides, NEW k \in Controller, Sound(k), NEW binding \in Bindings
    PROVE  Handled(side, k, WithoutTuple(k, binding), LostRoutes(k, binding))
<1> DEFINE hit == k.active /\ k.binding = binding
           j == IF k.join.binding = binding THEN NoJoin ELSE k.join
           b == IF hit THEN NoRetry ELSE k.budget
           rs == IF hit THEN [r \in Replies |-> NoReply] ELSE k.replies
           o == [n \in 1..MaxOldEpochs |-> IF k.old[n].binding = binding THEN NoRoute ELSE k.old[n]]
           x == [k EXCEPT !.active = @ /\ ~hit, !.budget = b, !.replies = rs,
                          !.homed = @ /\ ~(hit /\ ~k.acknowledged), !.join = j, !.old = o]
           old == {k.old[n].generation : n \in {i \in 1..MaxOldEpochs : k.old[i].binding = binding}}
           lost == old \cup (IF hit THEN {k.generation} ELSE {})
<1>1. j \in JoinState /\ b \in Retry
  BY NoneTypes DEF Controller
<1>2. /\ rs \in [Replies -> QueuedReply]
      /\ \A r \in Replies : rs[r] = k.replies[r] \/ ~rs[r].queued
  BY NoneTypes DEF Controller, NoReply
<1>3. /\ o \in [1..MaxOldEpochs -> Route]
      /\ \A n \in 1..MaxOldEpochs : \/ o[n] = k.old[n]
                                    \/ o[n].left = 0 /\ k.old[n].binding = binding
  BY NoneTypes DEF Controller, NoRoute
<1>4. j = k.join \/ (~j.pending /\ ~j.committed /\ j.kind = "none")
  BY DEF NoJoin
<1>5. \A n \in 1..MaxOldEpochs : k.old[n].binding = binding => k.old[n].generation \in lost
  OBVIOUS
<1>6. hit => k.generation \in lost
  OBVIOUS
<1> HIDE DEF j, b, rs, o, lost, hit
<1>7. x \in Controller
  BY <1>1, <1>2, <1>3, ZenonT(40) DEF Controller, hit
<1>8. /\ x.join = j /\ x.active = (k.active /\ ~hit) /\ x.old = o /\ x.replies = rs
      /\ x.floor = k.floor /\ x.receiveEpoch = k.receiveEpoch
      /\ x.generation = k.generation /\ x.binding = k.binding
      /\ x.installed = k.installed /\ x.sendEpoch = k.sendEpoch
      /\ x.ackSent = k.ackSent /\ x.acknowledged = k.acknowledged
      /\ x.oldEpoch = k.oldEpoch /\ x.oldLeft = k.oldLeft
  BY DEF Controller
<1>9. Sound(x)
  <2>1. "budgetAck" \in Replies /\ "contextAck" \in Replies
    BY DEF Replies
  <2> HIDE DEF x
  <2>2. QED
    BY <1>2, <1>3, <1>4, <1>8, <2>1 DEF Sound
<1> HIDE DEF x
<1>10. ASSUME NEW c \in Bindings, NEW g \in Nat, ValidRoute(k, c, g, 2)
       PROVE  ValidRoute(x, c, g, 2) \/ g \in lost
  <2>1. CASE OldRouteValid(k, c, g, 2)
    <3>1. PICK i \in 1..MaxOldEpochs :
              /\ k.old[i].generation = g /\ k.old[i].epoch = 2
              /\ k.old[i].binding = c /\ k.old[i].left > 0
      BY <2>1 DEF OldRouteValid
    <3>2. CASE o[i] = k.old[i]
      BY <1>8, <3>1, <3>2 DEF OldRouteValid, ValidRoute
    <3>3. CASE k.old[i].binding = binding
      BY <1>5, <3>1, <3>3
    <3>4. QED
      BY <1>3, <3>2, <3>3
  <2>2. CASE /\ k.active /\ k.binding = c /\ k.generation = g
             /\ k.receiveEpoch = 2 \/ (k.oldEpoch = 2 /\ k.oldLeft > 0)
    BY <1>6, <1>8, <2>2 DEF ValidRoute
  <2>3. QED
    BY <1>10, <2>1, <2>2 DEF ValidRoute
<1>11. Steps(side, k, k, {})
  BY NothingDone DEF Handled
<1>12. Steps(side, k, x, lost)
  BY <1>4, <1>8, <1>10, <1>11 DEF Steps
<1>13. Handled(side, k, x, lost)
  BY <1>7, <1>9, <1>12 DEF Handled
<1>14. QED
  BY <1>13 DEF x, lost, j, b, rs, o, hit, WithoutTuple, LostRoutes, Hit

\* A tick gives up the retired routes whose grace ends with it.
LEMMA AgedHandled ==
    ASSUME NEW side \in Sides, NEW k \in Controller, Sound(k)
    PROVE  Handled(side, k, Aged(k),
                   {r.generation : r \in {k.old[n] : n \in
                        {i \in 1..MaxOldEpochs : k.old[i].left = 1}}})
<1> DEFINE older(r) == [r EXCEPT !.left = Sooner(@), !.next = Sooner(@)]
           o == [n \in 1..MaxOldEpochs |-> [k.old[n] EXCEPT !.left = Sooner(@)]]
           x == Aged(k)
           j == older(k.join)
           b == older(k.budget)
           c == older(k.context)
           lost == {r.generation : r \in {k.old[n] : n \in
                        {i \in 1..MaxOldEpochs : k.old[i].left = 1}}}
<1>0. \A n \in Nat : Sooner(n) \in Nat /\ (n > 1 => Sooner(n) > 0) /\ (Sooner(n) > 0 => n > 0)
  BY DEF Sooner
<1>1. \A r \in Retry : older(r) \in Retry
  <2> SUFFICES ASSUME NEW r \in Retry PROVE older(r) \in Retry
    OBVIOUS
  <2>1. Sooner(r.left) \in Nat /\ Sooner(r.next) \in Nat
    BY <1>0 DEF Retry
  <2>2. QED
    BY <2>1 DEF Retry
<1>2. /\ j \in JoinState /\ j.pending = k.join.pending /\ j.kind = k.join.kind
      /\ j.generation = k.join.generation /\ j.binding = k.join.binding
      /\ j.committed = k.join.committed
  <2>1. k.join \in JoinState /\ Sooner(k.join.left) \in Nat /\ Sooner(k.join.next) \in Nat
    BY <1>0 DEF Controller, JoinState
  <2>2. QED
    BY <2>1 DEF JoinState
<1>3. b \in Retry /\ c \in Retry
  BY <1>1 DEF Controller
<1>4. \A n \in 1..MaxOldEpochs : k.old[n] \in Route /\ Sooner(k.old[n].left) \in Nat
  BY <1>0 DEF Controller, Route
<1>5. /\ o \in [1..MaxOldEpochs -> Route]
      /\ \A n \in 1..MaxOldEpochs :
            /\ o[n].left = Sooner(k.old[n].left) /\ o[n].generation = k.old[n].generation
            /\ o[n].epoch = k.old[n].epoch /\ o[n].binding = k.old[n].binding
  BY <1>4 DEF Route
<1>6. x = [k EXCEPT !.join = j, !.budget = b, !.context = c, !.oldLeft = Sooner(k.oldLeft),
                    !.peerLeft = Sooner(k.peerLeft), !.old = o]
  BY DEF Aged
<1> HIDE DEF j, b, c, o, x
<1>7. Sooner(k.oldLeft) \in Nat /\ Sooner(k.peerLeft) \in Nat
  BY <1>0 DEF Controller
<1>8. x \in Controller
  BY <1>2, <1>3, <1>5, <1>6, <1>7 DEF Controller
<1>9. /\ x.join = j /\ x.active = k.active /\ x.old = o /\ x.replies = k.replies
      /\ x.floor = k.floor /\ x.receiveEpoch = k.receiveEpoch
      /\ x.generation = k.generation /\ x.binding = k.binding
      /\ x.installed = k.installed /\ x.sendEpoch = k.sendEpoch
      /\ x.ackSent = k.ackSent /\ x.acknowledged = k.acknowledged
      /\ x.oldEpoch = k.oldEpoch
  BY <1>6 DEF Controller
<1>10. \A n \in 1..MaxOldEpochs : o[n].left > 0 => k.old[n].left > 0
  BY <1>0, <1>4, <1>5, ZenonT(40) DEF Route
<1>11. Sound(x)
  BY <1>2, <1>5, <1>9, <1>10 DEF Sound
<1>12. ASSUME NEW d \in Bindings, NEW g \in Nat, ValidRoute(k, d, g, 2)
       PROVE  ValidRoute(x, d, g, 2) \/ g \in lost
  <2>1. CASE OldRouteValid(k, d, g, 2)
    <3>1. PICK i \in 1..MaxOldEpochs :
              /\ k.old[i].generation = g /\ k.old[i].epoch = 2
              /\ k.old[i].binding = d /\ k.old[i].left > 0
      BY <2>1 DEF OldRouteValid
    <3>2. CASE k.old[i].left = 1
      BY <3>1, <3>2
    <3>3. CASE k.old[i].left > 1
      <4>1. k.old[i].left \in Nat
        BY <1>4 DEF Route
      <4>2. o[i].left > 0
        BY <1>0, <1>5, <3>3, <4>1
      <4>3. QED
        BY <1>5, <1>9, <3>1, <4>2 DEF OldRouteValid, ValidRoute
    <3>4. QED
      BY <1>4, <3>1, <3>2, <3>3 DEF Route
  <2>2. CASE k.active /\ k.binding = d /\ k.generation = g /\ k.receiveEpoch = 2
    BY <1>9, <2>2 DEF ValidRoute
  <2>3. k.oldEpoch # 2
    BY DEF Controller
  <2>4. QED
    BY <1>12, <2>1, <2>2, <2>3 DEF ValidRoute
<1>13. Steps(side, k, k, {})
  BY NothingDone DEF Handled
<1> HIDE DEF lost
<1>14. Steps(side, k, x, lost)
  BY <1>2, <1>9, <1>12, <1>13 DEF Steps
<1>15. QED
  BY <1>8, <1>11, <1>14 DEF Handled, x, lost

----------------------------------------------------------------------------
(* Both ends.                                                              *)

\* What an end once claimed stays true while both ends only take such steps.
LEMMA ClaimsStay ==
    ASSUME TypesInv, TypesInv', NEW lost,
           \A side \in Sides : /\ Steps(side, e[side], e'[side], lost[side])
                               /\ gone[side] \cup lost[side] \subseteq gone'[side]
    PROVE  /\ \A b \in Bindings, g \in Nat : Behind(b, g) => Behind(b, g)'
           /\ \A side \in Sides, b \in Bindings, g \in Nat :
                  Adopted(side, b, g) => Adopted(side, b, g)'
           /\ \A side \in Sides : HasContext(side) => HasContext(side)'
<1>1. /\ e[R] \in Controller /\ e'[R] \in Controller
      /\ e[R].generation \in Nat /\ e'[R].generation \in Nat
  BY EndsOfPath DEF TypesInv, Controller
<1>2. ASSUME NEW b \in Bindings, NEW g \in Nat, Behind(b, g)
      PROVE  Behind(b, g)'
  <2>1. \/ e'[R].generation = e[R].generation /\ e'[R].binding = e[R].binding
        \/ e'[R].generation > e[R].generation
    BY EndsOfPath DEF Steps
  <2>2. QED
    BY <1>1, <1>2, <2>1 DEF Behind
<1>3. ASSUME NEW side \in Sides, NEW b \in Bindings, NEW g \in Nat, Adopted(side, b, g)
      PROVE  Adopted(side, b, g)'
  <2>1. CASE g \in gone[side]
    BY <2>1 DEF Adopted
  <2>2. CASE ValidRoute(e[side], b, g, 2)
    <3>1. ValidRoute(e'[side], b, g, 2) \/ g \in lost[side]
      BY <2>2 DEF Steps
    <3>2. QED
      BY <3>1 DEF Adopted
  <2>3. QED
    BY <1>3, <2>1, <2>2 DEF Adopted
<1>4. \A side \in Sides : HasContext(side) => HasContext(side)'
  BY DEF HasContext, Steps
<1>5. QED
  BY <1>2, <1>3, <1>4

\* What GenerationsRise says of one step.
Rise ==
    \A side \in Sides :
        /\ e'[side].generation >= e[side].generation
        /\ e'[side].floor >= e[side].floor
        /\ (~e[side].join.pending /\ e'[side].join.pending)
             => e'[side].join.generation > e[side].floor

\* The two ends together: neither has taken more than was claimed, and what was
\* claimed stays true.
LEMMA StepKept ==
    ASSUME JoinInv, TypesInv', NEW lost,
           \A side \in Sides : /\ Sound(e'[side])
                               /\ Steps(side, e[side], e'[side], lost[side])
                               /\ gone[side] \cup lost[side] \subseteq gone'[side],
           \A m \in net' : m \in net \/ Truthful(Peer(m.to), e'[Peer(m.to)], m)
    PROVE  JoinInv' /\ Rise
<1>1. /\ \A b \in Bindings, g \in Nat : Behind(b, g) => Behind(b, g)'
      /\ \A side \in Sides, b \in Bindings, g \in Nat :
             Adopted(side, b, g) => Adopted(side, b, g)'
      /\ \A side \in Sides : HasContext(side) => HasContext(side)'
  BY ClaimsStay DEF JoinInv
<1>2. \A side \in Sides : /\ e[side] \in Controller /\ e'[side] \in Controller
                          /\ e[side].generation \in Nat /\ e'[side].generation \in Nat
                          /\ e[side].binding \in Bindings /\ e'[side].binding \in Bindings
  BY DEF JoinInv, TypesInv, Controller
<1>3. \A m \in net : m \in Messages /\ m.to \in Sides /\ m.generation \in Nat /\ m.binding \in Bindings
  BY DEF JoinInv, TypesInv, Messages
<1>4. Behind(e[I].binding, e[I].generation)'
  <2>1. Behind(e'[I].binding, e'[I].generation)
    <3>1. CASE e'[I].generation = e[I].generation /\ e'[I].binding = e[I].binding
      BY <3>1 DEF JoinInv
    <3>2. CASE \E m \in net : /\ m.to = I /\ m.kind = "ready"
                              /\ m.generation = e'[I].generation /\ m.binding = e'[I].binding
      BY <3>2 DEF JoinInv, Claims
    <3>3. QED
      BY <3>1, <3>2, EndsOfPath DEF Steps
  <2>2. PICK b \in Bindings, g \in Nat : b = e'[I].binding /\ g = e'[I].generation
    BY <1>2, EndsOfPath
  <2>3. Behind(b, g)'
    BY <1>1, <2>1, <2>2
  <2>4. QED
    BY <2>2, <2>3 DEF Behind
<1>5. ASSUME NEW m \in net' PROVE Claims(m)'
  <2>1. m \in Messages /\ m.to \in Sides /\ m.generation \in Nat /\ m.binding \in Bindings
    BY <1>5 DEF TypesInv, Messages
  <2>2. Peer(m.to) \in Sides
    BY <2>1, EndsOfPath
  <2>3. CASE m \in net
    <3>1. Claims(m)
      BY <2>3 DEF JoinInv
    <3>2. m.kind = "ready" /\ m.to = I => Behind(m.binding, m.generation)'
      BY <1>1, <2>1, <3>1 DEF Claims
    <3>3. m.kind = "budgetAck" => Adopted(Peer(m.to), m.binding, m.generation)'
      BY <1>1, <2>1, <2>2, <3>1 DEF Claims
    <3>4. m.kind = "contextAck" => HasContext(Peer(m.to))'
      BY <1>1, <2>2, <3>1 DEF Claims
    <3>5. QED
      BY <3>2, <3>3, <3>4 DEF Claims
  <2>4. CASE Truthful(Peer(m.to), e'[Peer(m.to)], m)
    <3>1. m.kind = "ready" /\ m.to = I => Behind(m.binding, m.generation)'
      BY <1>2, <2>4, EndsOfPath DEF Truthful, Behind
    <3>2. m.kind = "budgetAck" => Adopted(Peer(m.to), m.binding, m.generation)'
      BY <2>4 DEF Truthful, Adopted
    <3>3. m.kind = "contextAck" => HasContext(Peer(m.to))'
      BY <2>4 DEF Truthful, HasContext
    <3>4. QED
      BY <3>1, <3>2, <3>3 DEF Claims
  <2>5. QED
    BY <1>5, <2>3, <2>4
<1>6. ASSUME NEW side \in Sides PROVE Relies(side)'
  <2>1. Peer(side) \in Sides /\ Relies(side)
    BY EndsOfPath DEF JoinInv
  <2>2. ASSUME e'[side].sendEpoch = 2
        PROVE  Adopted(Peer(side), e[side].binding, e[side].generation)'
    <3>1. Adopted(Peer(side), e'[side].binding, e'[side].generation)
      <4>1. CASE /\ e[side].sendEpoch = 2 /\ e'[side].generation = e[side].generation
                 /\ e'[side].binding = e[side].binding
        BY <2>1, <4>1 DEF Relies
      <4>2. CASE \E m \in net : /\ m.to = side /\ m.kind = "budgetAck"
                                /\ m.generation = e'[side].generation
                                /\ m.binding = e'[side].binding
        BY <4>2 DEF JoinInv, Claims
      <4>3. QED
        BY <2>2, <4>1, <4>2 DEF Steps
    <3>2. PICK b \in Bindings, g \in Nat : b = e'[side].binding /\ g = e'[side].generation
      BY <1>2
    <3>3. Adopted(Peer(side), b, g)'
      BY <1>1, <2>1, <3>1, <3>2
    <3>4. QED
      BY <3>2, <3>3 DEF Adopted
  <2>3. ASSUME e'[side].acknowledged PROVE HasContext(Peer(side))'
    <3>1. HasContext(Peer(side))
      <4>1. CASE e[side].acknowledged
        BY <2>1, <4>1 DEF Relies
      <4>2. CASE \E m \in net : m.to = side /\ m.kind = "contextAck"
        BY <4>2 DEF JoinInv, Claims
      <4>3. QED
        BY <2>3, <4>1, <4>2 DEF Steps
    <3>2. QED
      BY <1>1, <2>1, <3>1
  <2>4. QED
    BY <2>2, <2>3 DEF Relies
<1>7. Rise
  BY <1>2 DEF Steps, Rise
<1>8. QED
  BY <1>4, <1>5, <1>6, <1>7 DEF JoinInv

\* A step of one end alone, with what it sends.
LEMMA OneEndSteps ==
    ASSUME JoinInv, NEW side \in Sides, NEW x, NEW lost \in SUBSET Nat,
           Handled(side, e[side], x, lost), e' = [e EXCEPT ![side] = x],
           net' = net \/ \E m \in Messages : net' = net \cup {m} /\ Truthful(side, x, m),
           gone' = [gone EXCEPT ![side] = @ \cup lost],
           scenario' \in Scenarios, joins' \in 0..scenario'.joins, failures' \in Nat
    PROVE  JoinInv' /\ Rise
<1> DEFINE given == [s \in Sides |-> IF s = side THEN lost ELSE {}]
<1>1. x \in Controller /\ Sound(x) /\ Steps(side, e[side], x, lost)
  BY DEF Handled
<1>2. e \in [Sides -> Controller] /\ gone \in [Sides -> SUBSET Nat] /\ net \in SUBSET Messages
  BY DEF JoinInv, TypesInv
<1>3. /\ e' \in [Sides -> Controller] /\ e'[side] = x
      /\ \A s \in Sides : s # side => e'[s] = e[s]
  BY <1>1, <1>2
<1>4. /\ gone' \in [Sides -> SUBSET Nat] /\ gone'[side] = gone[side] \cup lost
      /\ \A s \in Sides : s # side => gone'[s] = gone[s]
  BY <1>2
<1>5. TypesInv'
  BY <1>2, <1>3, <1>4 DEF TypesInv
<1>6. ASSUME NEW s \in Sides
      PROVE  /\ Sound(e'[s]) /\ Steps(s, e[s], e'[s], given[s])
             /\ gone[s] \cup given[s] \subseteq gone'[s]
  <2>1. CASE s = side
    BY <1>1, <1>3, <1>4, <2>1
  <2>2. CASE s # side
    <3>1. Sound(e[s]) /\ e[s] \in Controller
      BY <1>2 DEF JoinInv
    <3>2. Steps(s, e[s], e[s], {})
      BY <3>1, NothingDone DEF Handled
    <3>3. QED
      BY <1>3, <1>4, <2>2, <3>1, <3>2
  <2>3. QED
    BY <2>1, <2>2
<1>7. \A m \in net' : m \in net \/ Truthful(Peer(m.to), e'[Peer(m.to)], m)
  <2> SUFFICES ASSUME NEW m \in Messages, Truthful(side, x, m)
               PROVE  Truthful(Peer(m.to), e'[Peer(m.to)], m)
    OBVIOUS
  <2>1. Peer(m.to) = side
    BY EndsOfPath DEF Truthful
  <2>2. QED
    BY <1>3, <2>1
<1> HIDE DEF given
<1>8. QED
  BY <1>5, <1>6, <1>7, StepKept

\* A handler, then drive.
LEMMA DrivenSteps ==
    ASSUME JoinInv, NEW side \in Sides, NEW n, NEW lost \in SUBSET Nat,
           Handled(side, e[side], n, lost), Drive(side, n),
           gone' = [gone EXCEPT ![side] = @ \cup lost],
           scenario' \in Scenarios, joins' \in 0..scenario'.joins, failures' \in Nat
    PROVE  JoinInv' /\ Rise
<1>1. n \in Controller /\ Sound(n) /\ Steps(side, e[side], n, lost) /\ e[side] \in Controller
  BY DEF Handled, JoinInv, TypesInv
<1>2. PICK x \in Controller :
          /\ Sound(x) /\ Carried(n, x)
          /\ e' = [e EXCEPT ![side] = x]
          /\ net' = net \/ \E m \in Messages : net' = net \cup {m} /\ Truthful(side, x, m)
  BY <1>1, DriveCarries
<1>3. Handled(side, e[side], x, lost)
  BY <1>1, <1>2, CarriedSteps DEF Handled
<1>4. QED
  BY <1>2, <1>3, OneEndSteps

----------------------------------------------------------------------------
(* The specification.                                                      *)

\* Begun: the bootstrap path, or a Session with everything acknowledged.
LEMMA BegunSound ==
    ASSUME NEW done \in BOOLEAN
    PROVE  /\ Begun(done) \in Controller /\ Sound(Begun(done))
           /\ Begun(done).generation = 1 /\ Begun(done).binding = NoRoute.binding
           /\ Begun(done).sendEpoch = 2 => ValidRoute(Begun(done), NoRoute.binding, 1, 2)
           /\ Begun(done).acknowledged => Begun(done).installed /\ Begun(done).ackSent
<1> DEFINE epoch == IF done THEN 2 ELSE 1
           o == [n \in 1..MaxOldEpochs |-> NoRoute]
           rs == [r \in Replies |-> NoReply]
           new == [active |-> TRUE, generation |-> 1, floor |-> 1,
                   binding |-> NoRoute.binding, sendEpoch |-> epoch, receiveEpoch |-> epoch,
                   oldEpoch |-> 0, oldLeft |-> 0, peerLeft |-> 0,
                   old |-> o, join |-> NoJoin, budget |-> NoRetry, context |-> NoRetry,
                   replies |-> rs, homed |-> TRUE, acknowledged |-> done,
                   installed |-> done, ackSent |-> done, closed |-> FALSE]
<1>1. /\ o \in [1..MaxOldEpochs -> Route] /\ \A n \in 1..MaxOldEpochs : ~(o[n].left > 0)
      /\ rs \in [Replies -> QueuedReply] /\ \A r \in Replies : ~rs[r].queued
  <2>1. NoRoute.left = 0 /\ NoReply.queued = FALSE
    BY DEF NoRoute, NoReply
  <2>2. QED
    BY <2>1, NoneTypes
<1>2. /\ NoRoute.binding \in Bindings /\ ~NoJoin.pending /\ ~NoJoin.committed
      /\ NoJoin.kind = "none" /\ epoch \in {1, 2}
  BY NoneTypes DEF Route, NoJoin
<1> HIDE DEF o, rs
<1>3. new \in Controller
  BY <1>1, <1>2, NoneTypes DEF Controller
<1>4. Sound(new)
  BY <1>1, <1>2 DEF Sound, Replies
<1>5. done => ValidRoute(new, NoRoute.binding, 1, 2)
  BY DEF ValidRoute
<1>6. CASE done
  <2>1. Begun(done) = new
    BY <1>6 DEF Begun, o, rs
  <2>2. /\ new.generation = 1 /\ new.binding = NoRoute.binding
        /\ new.installed = TRUE /\ new.ackSent = TRUE
    BY <1>6
  <2> HIDE DEF new
  <2>3. QED
    BY <1>3, <1>4, <1>5, <1>6, <2>1, <2>2
<1>7. CASE ~done
  <2> DEFINE b == StartBudget(new).budget
             x == StartBudget(new)
  <2>1. Begun(done) = x
    BY <1>7 DEF Begun, o, rs
  <2> HIDE DEF new
  <2>2. x \in Controller /\ x = [new EXCEPT !.budget = b]
    BY <1>3, StartBudgetTypes
  <2> HIDE DEF x, b
  <2>3. Sound(x)
    BY <1>3, <1>4, <2>2 DEF Controller, Sound
  <2>4. /\ new.generation = 1 /\ new.binding = NoRoute.binding /\ new.sendEpoch = 1
        /\ new.acknowledged = FALSE
    BY <1>7 DEF new
  <2>5. /\ x.generation = 1 /\ x.binding = NoRoute.binding /\ x.sendEpoch = 1
        /\ x.acknowledged = FALSE
    BY <1>3, <2>2, <2>4 DEF Controller
  <2>6. QED
    BY <2>1, <2>2, <2>3, <2>5
<1>8. QED
  BY <1>6, <1>7

LEMMA InitJoinInv == Init => JoinInv
<1> SUFFICES ASSUME Init PROVE JoinInv
  OBVIOUS
<1>1. /\ scenario \in Scenarios /\ scenario.established \in BOOLEAN /\ scenario.joins \in Nat
      /\ net = {} /\ joins = 0 /\ failures = 0 /\ gone = [side \in Sides |-> {}]
  BY InstanceAssumption DEF Init
<1> DEFINE k == Begun(scenario.established)
<1>2. e = [side \in Sides |-> k]
  BY DEF Init
<1>3. /\ k \in Controller /\ Sound(k) /\ k.generation = 1 /\ k.binding = NoRoute.binding
      /\ k.sendEpoch = 2 => ValidRoute(k, NoRoute.binding, 1, 2)
      /\ k.acknowledged => k.installed /\ k.ackSent
  BY <1>1, BegunSound
<1> HIDE DEF k
<1>4. \A side \in Sides : e[side] = k
  BY <1>2
<1>5. e \in [Sides -> Controller] /\ gone \in [Sides -> SUBSET Nat]
  BY <1>1, <1>2, <1>3
<1>6. TypesInv
  BY <1>1, <1>5 DEF TypesInv
<1>7. Behind(e[I].binding, e[I].generation)
  BY <1>3, <1>4, EndsOfPath DEF Behind
<1>8. \A side \in Sides : Relies(side)
  BY <1>3, <1>4, EndsOfPath DEF Relies, Adopted, HasContext
<1>9. QED
  BY <1>1, <1>3, <1>4, <1>6, <1>7, <1>8 DEF JoinInv

LEMMA JoinKept ==
    ASSUME JoinInv, NEW binding \in Bindings, Join(binding)
    PROVE  JoinInv' /\ Rise
<1> DEFINE k == e[I]
           j == [NoJoin EXCEPT !.pending = TRUE, !.left = Lifetime, !.kind = "join",
                               !.generation = k.floor + 1, !.binding = binding, !.client = joins']
           n == [k EXCEPT !.floor = k.floor + 1, !.join = j]
<1>1. k \in Controller /\ Sound(k) /\ k.floor \in Nat /\ gone \in [Sides -> SUBSET Nat]
  BY EndsOfPath DEF JoinInv, TypesInv, Controller
<1>2. /\ scenario' = scenario /\ scenario \in Scenarios /\ failures' = failures /\ failures \in Nat
      /\ gone' = gone /\ joins \in 0..scenario.joins /\ scenario.joins \in Nat
      /\ joins < scenario.joins /\ joins' = joins + 1
  BY InstanceAssumption DEF JoinInv, TypesInv, Join
<1>3. joins' \in Nat /\ joins' \in 0..scenario'.joins
  BY <1>2
<1>4. Drive(I, n)
  BY DEF Join
<1>5. NoJoin \in JoinState /\ NoJoin.committed = FALSE
  BY NoneTypes DEF NoJoin
<1>6. k.floor + 1 \in Nat /\ k.floor + 1 > k.floor /\ Lifetime \in Nat
  BY <1>1, TimesAssumption
<1>7. j \in JoinState /\ j.generation = k.floor + 1 /\ ~j.committed /\ j.kind = "join"
  BY <1>3, <1>5, <1>6 DEF JoinState, Kinds
<1> HIDE DEF j, k
<1>8. Handled(I, k, n, {})
  BY <1>1, <1>6, <1>7, JoinOpened, EndsOfPath
<1>9. gone' = [gone EXCEPT ![I] = @ \cup {}]
  BY <1>1, <1>2, EndsOfPath
<1> HIDE DEF n
<1>10. QED
  <2>1. {} \in SUBSET Nat /\ I \in Sides
    BY EndsOfPath
  <2>2. QED
    BY <1>2, <1>3, <1>4, <1>8, <1>9, <2>1, DrivenSteps DEF k

LEMMA ReceiveKept ==
    ASSUME JoinInv, NEW side \in Sides, Receive(side)
    PROVE  JoinInv' /\ Rise
<1>1. PICK m \in net : /\ m.to = side
                       /\ \E n \in Received(side, e[side], m) : Drive(side, n)
  BY DEF Receive
<1>2. PICK n \in Received(side, e[side], m) : Drive(side, n)
  BY <1>1
<1>3. e[side] \in Controller /\ Sound(e[side]) /\ m \in Messages /\ gone \in [Sides -> SUBSET Nat]
  BY DEF JoinInv, TypesInv
<1>4. Handled(side, e[side], n, {})
  BY <1>1, <1>3, ReceivedHandled
<1>5. /\ scenario' \in Scenarios /\ joins' \in 0..scenario'.joins /\ failures' \in Nat
      /\ gone' = [gone EXCEPT ![side] = @ \cup {}]
  BY <1>3 DEF Receive, JoinInv, TypesInv
<1>6. {} \in SUBSET Nat
  OBVIOUS
<1>7. QED
  BY <1>2, <1>4, <1>5, <1>6, DrivenSteps

LEMMA AdvanceKept ==
    ASSUME JoinInv, NEW side \in Sides, Advance(side)
    PROVE  JoinInv' /\ Rise
<1> DEFINE k == e[side]
           late == k.budget.pending /\ k.budget.left = 0
           expired == [k EXCEPT !.join = IF @.left = 0 THEN NoJoin ELSE @,
                                !.active = @ /\ ~late, !.budget.pending = @ /\ ~late,
                                !.homed = @ /\ ~(late /\ ~k.acknowledged)]
           homed == IF ~expired.homed /\ ~k.acknowledged /\ Eligible(expired)
                    THEN StartEncoding(expired) ELSE expired
           lost == IF late THEN {k.generation} ELSE {}
<1>1. k \in Controller /\ Sound(k) /\ k.generation \in Nat /\ gone \in [Sides -> SUBSET Nat]
  BY DEF JoinInv, TypesInv, Controller
<1>2. late \in BOOLEAN /\ lost \in SUBSET Nat
  BY <1>1 DEF Controller, Retry
<1>3. \/ e' = [e EXCEPT ![side].closed = TRUE] /\ net' = net
      \/ Drive(side, homed)
  BY DEF Advance
<1>4. /\ scenario' \in Scenarios /\ joins' \in 0..scenario'.joins /\ failures' \in Nat
      /\ gone' = [gone EXCEPT ![side] = @ \cup lost]
  <2>1. gone' = IF late THEN [gone EXCEPT ![side] = @ \cup {k.generation}] ELSE gone
    BY DEF Advance
  <2>2. gone' = [gone EXCEPT ![side] = @ \cup lost]
    BY <1>1, <2>1
  <2>3. QED
    BY <2>2 DEF Advance, JoinInv, TypesInv
<1> HIDE DEF late
<1>5. Handled(side, k, expired, lost) /\ Handled(side, k, StartEncoding(expired), lost)
  BY <1>1, <1>2, ExpiredHandled
<1> HIDE DEF expired
<1>6. Handled(side, k, homed, lost)
  BY <1>5
<1> HIDE DEF homed
<1>7. CASE Drive(side, homed)
  <2> HIDE DEF lost
  <2>1. QED
    BY <1>2, <1>4, <1>6, <1>7, DrivenSteps
<1>8. CASE e' = [e EXCEPT ![side].closed = TRUE] /\ net' = net
  <2> DEFINE x == [k EXCEPT !.closed = TRUE]
  <2>1. e' = [e EXCEPT ![side] = x]
    BY <1>8
  <2>2. Handled(side, k, x, {})
    BY <1>1, NothingDone, ClosedHandled
  <2>3. Handled(side, k, x, lost)
    BY <2>2 DEF Handled, Steps
  <2> HIDE DEF x, lost
  <2>4. QED
    BY <1>2, <1>4, <1>8, <2>1, <2>3, OneEndSteps
<1>9. QED
  BY <1>3, <1>7, <1>8

LEMMA FailPathKept ==
    ASSUME JoinInv, NEW side \in Sides, NEW binding \in Bindings, FailPath(side, binding)
    PROVE  JoinInv' /\ Rise
<1> DEFINE k == e[side]
           failed == WithoutTuple(k, binding)
           lost == LostRoutes(k, binding)
           x == [failed EXCEPT !.closed = TRUE]
<1>1. k \in Controller /\ Sound(k) /\ k.generation \in Nat /\ gone \in [Sides -> SUBSET Nat]
  BY DEF JoinInv, TypesInv, Controller
<1>2. lost \in SUBSET Nat
  <2>1. \A i \in 1..MaxOldEpochs : k.old[i].generation \in Nat
    BY <1>1 DEF Controller, Route
  <2>2. QED
    BY <1>1, <2>1 DEF LostRoutes
<1>3. \/ e' = [e EXCEPT ![side] = x] /\ net' = net
      \/ Drive(side, failed)
  BY DEF FailPath
<1>4. /\ scenario' \in Scenarios /\ joins' \in 0..scenario'.joins /\ failures' \in Nat
      /\ gone' = [gone EXCEPT ![side] = @ \cup lost]
  <2>2. gone' = [gone EXCEPT ![side] = @ \cup lost]
    BY DEF FailPath
  <2>3. scenario' = scenario /\ joins' = joins /\ failures' = failures + 1 /\ failures \in Nat
    BY DEF FailPath, JoinInv, TypesInv
  <2>4. QED
    BY <2>2, <2>3 DEF JoinInv, TypesInv
<1> HIDE DEF k
<1>5. Handled(side, k, failed, lost)
  BY <1>1, FailedHandled
<1> HIDE DEF failed, lost
<1>6. Handled(side, k, x, lost)
  BY <1>1, <1>5, ClosedHandled
<1> HIDE DEF x
<1>7. CASE Drive(side, failed)
  BY <1>2, <1>4, <1>5, <1>7, DrivenSteps DEF k
<1>8. CASE e' = [e EXCEPT ![side] = x] /\ net' = net
  BY <1>2, <1>4, <1>6, <1>8, OneEndSteps DEF k
<1>9. QED
  BY <1>3, <1>7, <1>8

LEMMA TickKept ==
    ASSUME JoinInv, Tick
    PROVE  JoinInv' /\ Rise
<1> DEFINE over(side) == {r.generation : r \in {e[side].old[n] : n \in
                            {i \in 1..MaxOldEpochs : e[side].old[i].left = 1}}}
           lost == [side \in Sides |-> over(side)]
<1>1. /\ e \in [Sides -> Controller] /\ gone \in [Sides -> SUBSET Nat]
      /\ \A side \in Sides : Sound(e[side])
  BY DEF JoinInv, TypesInv
<1>2. /\ e' = [side \in Sides |-> IF e[side].closed THEN e[side] ELSE Aged(e[side])]
      /\ gone' = [side \in Sides |-> gone[side] \cup over(side)]
      /\ net' = net /\ scenario' = scenario /\ joins' = joins /\ failures' = failures
  BY DEF Tick
<1>3. ASSUME NEW side \in Sides
      PROVE  /\ Handled(side, e[side], e'[side], lost[side])
             /\ gone[side] \cup lost[side] \subseteq gone'[side]
             /\ over(side) \in SUBSET Nat
  <2>1. lost[side] = over(side) /\ gone'[side] = gone[side] \cup over(side)
    BY <1>2
  <2>2. over(side) \in SUBSET Nat
    <3>1. \A i \in 1..MaxOldEpochs : e[side].old[i].generation \in Nat
      BY <1>1, ZenonT(40) DEF Controller, Route
    <3>2. QED
      BY <3>1
  <2>3. Handled(side, e[side], Aged(e[side]), over(side))
    BY <1>1, AgedHandled
  <2>4. Handled(side, e[side], e[side], {})
    BY <1>1, NothingDone
  <2> HIDE DEF over, lost
  <2>5. Handled(side, e[side], e[side], over(side))
    BY <2>4 DEF Handled, Steps
  <2>6. QED
    BY <1>2, <2>1, <2>2, <2>3, <2>5
<1> HIDE DEF over, lost
<1>4. TypesInv'
  <2>1. e' \in [Sides -> Controller]
    BY <1>2, <1>3 DEF Handled
  <2>2. gone' \in [Sides -> SUBSET Nat]
    BY <1>1, <1>2, <1>3
  <2>3. QED
    BY <1>2, <2>1, <2>2 DEF JoinInv, TypesInv
<1>5. QED
  BY <1>2, <1>3, <1>4, StepKept DEF Handled

LEMMA NextKept == JoinInv /\ [Next]_vars => JoinInv' /\ [Rise]_vars
<1> SUFFICES ASSUME JoinInv, [Next]_vars PROVE JoinInv' /\ [Rise]_vars
  OBVIOUS
<1>1. CASE UNCHANGED vars
  BY <1>1 DEF vars, JoinInv, TypesInv, Sound, Behind, Claims, Relies, Adopted, HasContext
<1>2. CASE Next
  <2>1. ASSUME NEW binding \in Bindings, Join(binding) PROVE JoinInv' /\ Rise
    BY <2>1, JoinKept
  <2>2. ASSUME NEW side \in Sides, Receive(side) PROVE JoinInv' /\ Rise
    BY <2>2, ReceiveKept
  <2>3. ASSUME NEW side \in Sides, Advance(side) PROVE JoinInv' /\ Rise
    BY <2>3, AdvanceKept
  <2>4. ASSUME NEW side \in Sides, NEW binding \in Bindings, FailPath(side, binding)
        PROVE  JoinInv' /\ Rise
    BY <2>4, FailPathKept
  <2>5. CASE Tick
    BY <2>5, TickKept
  <2>6. QED
    BY <1>2, <2>1, <2>2, <2>3, <2>4, <2>5 DEF Next
<1>3. QED
  BY <1>1, <1>2

\* The inductive invariant holds: each claim in the network is true of the end
\* that made it, and each end relies only on claims.
THEOREM JoinInvariant == Spec => []JoinInv
  BY InitJoinInv, NextKept, PTL DEF Spec

\* The initiator never uses a generation the responder has not committed with
\* the same tuple (receiveJoin, commitPath), whatever is lost or repeated.
THEOREM ResponderIsFirst == Spec => []ResponderCommitsFirst
<1>1. JoinInv => ResponderCommitsFirst
  <2> SUFFICES ASSUME JoinInv PROVE ResponderCommitsFirst
    OBVIOUS
  <2>1. \A side \in Sides :
            /\ e[side].sendEpoch \in {1, 2} /\ e[side].receiveEpoch \in {1, 2}
            /\ e[side].binding \in Bindings /\ e[side].join.sends \in 0..ControlSends
    BY DEF JoinInv, TypesInv, Controller, JoinState
  <2>2. TypeOK
    BY <2>1 DEF JoinInv, TypesInv, Sound, TypeOK
  <2>3. QED
    BY <2>2 DEF JoinInv, Behind, ResponderCommitsFirst
<1>2. QED
  BY <1>1, JoinInvariant, PTL

\* A path that may carry Datagrams uses a route its peer accepts or gave up, and
\* an acknowledged encoding context is installed there.
THEOREM PeersAccept == Spec => []PeerAccepts
<1>1. JoinInv => PeerAccepts
  BY DEF JoinInv, Relies, Adopted, HasContext, PeerAccepts, Eligible
<1>2. QED
  BY <1>1, JoinInvariant, PTL

\* No step takes a path back to an earlier generation or opens a join at or
\* below the floor.
THEOREM GenerationsOnlyRise == Spec => GenerationsRise
<1>1. JoinInv /\ [Next]_vars =>
        [\A side \in Sides :
            /\ e'[side].generation >= e[side].generation
            /\ e'[side].floor >= e[side].floor
            /\ (~e[side].join.pending /\ e'[side].join.pending)
                 => e'[side].join.generation > e[side].floor]_vars
  BY NextKept DEF Rise
<1>2. QED
  BY <1>1, JoinInvariant, PTL DEF Spec, GenerationsRise

=============================================================================
