----------------------------- MODULE PathJoinV2 -----------------------------
(***************************************************************************)
(* How a path of a v2 Session joins, publishes its budget and its encoding *)
(* context (internal/sessionv2/control.go, Receive of controller.go): the  *)
(* controllers of the two ends over a network that loses, duplicates and   *)
(* reorders what they send.                                                *)
(*                                                                         *)
(* One path stands for all: paths share only the choice of the path that   *)
(* carries the context, which is SendPipelineV2's.  Sends are synchronous, *)
(* as in the runtime; a path paces them, so a call emits at most one       *)
(* packet on it, and the next call finds it free again: a tick is long.    *)
(* Time is counted down: a deadline is the ticks left until it, 0 when it  *)
(* is over.  The initiator moves the path to another tuple (a binding) by  *)
(* joining again with a higher generation.                                 *)
(***************************************************************************)
EXTENDS Integers, FiniteSets

CONSTANTS
    Bindings,                   \* tuples of the path
    Lifetime, RetryInterval,    \* ControlLifetime, ControlRetry, in ticks
    Grace, MaxOldEpochs,        \* of the contract
    ControlSends,
    Scenarios                   \* where a Session begins, bounds on what happens

ASSUME TimesAssumption ==
    /\ Lifetime \in Nat \ {0} /\ RetryInterval \in Nat \ {0} /\ Grace \in Nat \ {0}
    /\ MaxOldEpochs \in 1..8 /\ ControlSends \in Nat \ {0, 1}
ASSUME InstanceAssumption ==
    Bindings # {} /\ Scenarios \subseteq [established : BOOLEAN, joins : Nat, failures : Nat]

I == "initiator"
R == "responder"
Sides == {I, R}
Peer(side) == IF side = I THEN R ELSE I

VARIABLES
    e,          \* [Sides -> Controller]
    net,        \* messages sent so far; each may arrive never, once or often
    scenario,
    joins,      \* joins the initiator has begun
    failures,   \* paths failed so far
    gone        \* history: [Sides -> generations whose route was given up]

vars == <<e, net, scenario, joins, failures, gone>>

NoRetry == [pending |-> FALSE, left |-> 0, next |-> 0, sends |-> 0, generation |-> 0, epoch |-> 0]
NoJoin == [pending |-> FALSE, left |-> 0, next |-> 0, sends |-> 0, kind |-> "none",
           generation |-> 0, binding |-> CHOOSE b \in Bindings : TRUE,
           client |-> 0, server |-> 0, committed |-> FALSE]
NoRoute == [generation |-> 0, epoch |-> 0, binding |-> CHOOSE b \in Bindings : TRUE, left |-> 0]
NoReply == [queued |-> FALSE, generation |-> 0, epoch |-> 0]
Replies == {"budgetAck", "contextAck"}

\* startBudget: the update goes out under the path's route as it is now.
StartBudget(k) ==
    [k EXCEPT !.budget = [NoRetry EXCEPT !.pending = TRUE, !.left = Lifetime,
                                         !.generation = k.generation, !.epoch = k.sendEpoch]]

\* New and Start on the bootstrap path; or long after, with everything acknowledged.
Begun(done) ==
    LET epoch == IF done THEN 2 ELSE 1
        new == [active |-> TRUE, generation |-> 1, floor |-> 1,
                binding |-> NoRoute.binding, sendEpoch |-> epoch, receiveEpoch |-> epoch,
                oldEpoch |-> 0, oldLeft |-> 0, peerLeft |-> 0,
                old |-> [n \in 1..MaxOldEpochs |-> NoRoute],
                join |-> NoJoin, budget |-> NoRetry, context |-> NoRetry,
                replies |-> [r \in Replies |-> NoReply],
                homed |-> TRUE,                 \* contextPath # 0
                acknowledged |-> done,          \* contextAcknowledged
                installed |-> done,             \* receiveContext.Epoch # 0
                ackSent |-> done, closed |-> FALSE]
    IN  IF done THEN new ELSE StartBudget(new)

Init ==
    /\ scenario \in Scenarios
    /\ e = [side \in Sides |-> Begun(scenario.established)]
    /\ net = {} /\ joins = 0 /\ failures = 0 /\ gone = [side \in Sides |-> {}]

----------------------------------------------------------------------------
(* Routes.                                                                 *)

Eligible(k) == k.active /\ k.sendEpoch = 2
PendingPathWork(k) == (k.join.pending /\ ~k.join.committed) \/ (k.active /\ k.budget.pending)
Stranded(k) == k.acknowledged /\ ~Eligible(k) /\ ~PendingPathWork(k)

OldRouteValid(k, binding, generation, epoch) ==
    \E n \in 1..MaxOldEpochs :
        /\ k.old[n].generation = generation /\ k.old[n].epoch = epoch
        /\ k.old[n].binding = binding /\ k.old[n].left > 0

\* validRoute: the current epoch, the epoch before it, or a retired generation,
\* the last two in their grace only.
ValidRoute(k, binding, generation, epoch) ==
    \/ /\ k.active /\ k.binding = binding /\ k.generation = generation
       /\ k.receiveEpoch = epoch \/ (k.oldEpoch = epoch /\ k.oldLeft > 0)
    \/ OldRouteValid(k, binding, generation, epoch)

\* allowBudgetRetry: a budget exchange outlives the grace of its epoch.
AllowBudgetRetry(k, m) ==
    /\ k.active /\ k.binding = m.binding /\ k.generation = m.generation /\ m.epoch = 1
    /\ \/ m.kind = "budget" /\ k.peerLeft > 0
       \/ m.kind = "budgetAck" /\ k.budget.pending /\ k.budget.left > 0

\* What Receive lets a control message through for: the current generation only.
Admitted(k, m) ==
    /\ ValidRoute(k, m.binding, m.generation, m.epoch) \/ AllowBudgetRetry(k, m)
    /\ m.generation = k.generation

\* Mutant: the retired route keeps the epoch of the other direction.
MutantKeepsSendEpoch(k) ==
    [generation |-> k.generation, epoch |-> k.sendEpoch, binding |-> k.binding, left |-> Grace]

RetiredRoute(k) ==
    [generation |-> k.generation, epoch |-> k.receiveEpoch, binding |-> k.binding, left |-> Grace]

FreeOld(k) == {n \in 1..MaxOldEpochs : k.old[n].left = 0}
CanCommit(k) == k.active => FreeOld(k) # {}

\* commitPath: the joined tuple replaces the active one, which is kept for its grace.
Commit(k) ==
    LET first == CHOOSE n \in FreeOld(k) : \A m \in FreeOld(k) : n <= m
    IN  StartBudget([k EXCEPT
            !.old = IF k.active THEN [@ EXCEPT ![first] = RetiredRoute(k)] ELSE @,
            !.active = TRUE, !.generation = k.join.generation, !.binding = k.join.binding,
            !.sendEpoch = 1, !.receiveEpoch = 1, !.oldEpoch = 0, !.oldLeft = 0, !.peerLeft = 0,
            !.replies = [r \in Replies |-> NoReply],
            !.join.committed = TRUE])

\* startEncoding.
StartEncoding(k) ==
    [k EXCEPT !.homed = TRUE,
              !.context = [pending |-> TRUE, next |-> 0,
                           left |-> IF k.context.pending THEN k.context.left ELSE Lifetime,
                           sends |-> IF k.context.pending THEN k.context.sends ELSE 0,
                           generation |-> k.generation, epoch |-> k.sendEpoch]]

----------------------------------------------------------------------------
(* Sending.                                                                *)

Message(side, kind, binding, generation, epoch) ==
    [to |-> Peer(side), kind |-> kind, binding |-> binding, generation |-> generation,
     epoch |-> epoch, client |-> 0, server |-> 0]

\* The first phases leave one send for the last.
JoinLimit(join) == IF join.kind \in {"join", "challenge"} THEN ControlSends - 1 ELSE ControlSends
RetryDue(retry, limit) ==
    retry.pending /\ retry.left > 0 /\ retry.next = 0 /\ retry.sends < limit

\* What driveControl has to send, in its order.
Outgoing(k) ==
    IF RetryDue(k.join, JoinLimit(k.join)) THEN "join"
    ELSE IF ~k.active THEN "nothing"
    ELSE IF k.replies["budgetAck"].queued THEN "budgetAck"
    ELSE IF k.replies["contextAck"].queued THEN "contextAck"
    ELSE IF RetryDue(k.budget, ControlSends) THEN "budget"
    ELSE IF k.homed /\ RetryDue(k.context, ControlSends) THEN "context"
    ELSE "nothing"

Frame(side, k) ==
    LET what == Outgoing(k)
        sent(f) == Message(side, what, k.binding, f.generation, f.epoch)
    IN  CASE what = "join" ->
                [Message(side, k.join.kind, k.join.binding, k.join.generation, 0)
                    EXCEPT !.client = k.join.client, !.server = k.join.server]
          [] what \in Replies -> sent(k.replies[what])
          [] what = "budget" -> sent(k.budget)
          [] what = "context" -> sent(k.context)

\* The books of one emit.
Emitted(k, success) ==
    LET what == Outgoing(k)
        again(r) == [r EXCEPT !.sends = @ + 1, !.next = RetryInterval]
    IN  CASE what = "join" -> [k EXCEPT !.join = again(@)]
          [] what \in Replies -> [k EXCEPT !.replies[what].queued = FALSE,
                                           !.ackSent = @ \/ (what = "contextAck" /\ success)]
          [] what = "budget" -> [k EXCEPT !.budget = again(@)]
          [] what = "context" -> [k EXCEPT !.context = again(@)]

\* A due context retry is built anew for the route as it is now.
Refreshed(k) ==
    LET r == k.context
    IN  IF r.pending /\ r.sends > 0 /\ r.next = 0 /\ r.left > 0 /\ Eligible(k)
        THEN StartEncoding(k) ELSE k

\* drive: one packet leaves, or fails (but for an acknowledgement of the context,
\* the same as one that is lost); a Session with no path left to wait for is
\* closed by the runtime.
Drive(side, n) ==
    LET k == Refreshed(n)
        stop(x) == IF Stranded(x) THEN [x EXCEPT !.closed = TRUE] ELSE x
    IN  IF n.closed THEN e' = [e EXCEPT ![side] = n] /\ UNCHANGED net
        ELSE IF Outgoing(k) = "nothing"
        THEN e' = [e EXCEPT ![side] = stop(k)] /\ UNCHANGED net
        ELSE \/ e' = [e EXCEPT ![side] = stop(Emitted(k, TRUE))] /\ net' = net \cup {Frame(side, k)}
             \/ Outgoing(k) = "contextAck" /\ UNCHANGED net
                /\ e' = [e EXCEPT ![side] = stop(Emitted(k, FALSE))]

----------------------------------------------------------------------------
(* The join handshake.                                                     *)

\* Join and startJoin; driveControl emits, nothing closes.  Bounded to moves:
\* a path that is active joins with another tuple.
Join(binding) ==
    LET k == e[I]
    IN  /\ ~k.closed /\ ~k.join.pending /\ (k.active => binding # k.binding)
        /\ joins < scenario.joins
        /\ joins' = joins + 1
        /\ \E n \in {[k EXCEPT
                    !.floor = @ + 1,
                    !.join = [NoJoin EXCEPT !.pending = TRUE, !.left = Lifetime, !.kind = "join",
                                            !.generation = k.floor + 1, !.binding = binding,
                                            !.client = joins']]} :
            Drive(I, n)
        /\ UNCHANGED <<scenario, failures, gone>>

\* Mutant: a generation at the floor may join again.
MutantFloorInclusive(k, m) ==
    m.generation >= k.floor

AboveFloor(k, m) ==
    m.generation > k.floor

\* receiveJoin of PATH_JOIN: the first one opens a join, repeats change nothing.
ReceivePathJoin(k, m) ==
    IF k.join.pending
    THEN IF /\ k.join.left > 0 /\ k.join.binding = m.binding
            /\ k.join.generation = m.generation /\ k.join.client = m.client
         THEN {k} ELSE {}
    ELSE IF AboveFloor(k, m)
    THEN {[k EXCEPT !.floor = m.generation,
                    !.join = [NoJoin EXCEPT !.pending = TRUE, !.left = Lifetime,
                                            !.kind = "challenge", !.generation = m.generation,
                                            !.binding = m.binding, !.client = m.client,
                                            !.server = m.generation]]}
    ELSE {}

\* Its answer belongs to the join that runs.
SameJoin(k, m) ==
    /\ k.join.pending /\ k.join.left > 0 /\ k.join.binding = m.binding
    /\ k.join.generation = m.generation /\ k.join.client = m.client

ReceiveChallenge(k, m) ==
    IF ~SameJoin(k, m) THEN {}
    ELSE IF k.join.kind = "confirm" THEN IF k.join.server = m.server THEN {k} ELSE {}
    ELSE {[k EXCEPT !.join.server = m.server, !.join.next = 0, !.join.kind = "confirm"]}

\* Mutant: READY is sent though the path could not be committed.
MutantReadyAnyway(k, m) ==
    IF ~(SameJoin(k, m) /\ k.join.server = m.server) THEN {}
    ELSE IF k.join.committed THEN {k}
    ELSE {[(IF CanCommit(k) THEN Commit(k) ELSE k) EXCEPT !.join.next = 0, !.join.kind = "ready"]}

\* A CONFIRM that finds no room for the old route is refused, and may come again.
ReceiveConfirm(k, m) ==
    IF ~(SameJoin(k, m) /\ k.join.server = m.server) THEN {}
    ELSE IF k.join.committed THEN {k}
    ELSE IF ~CanCommit(k) THEN {}
    ELSE {[Commit(k) EXCEPT !.join.next = 0, !.join.kind = "ready"]}

ReceiveReady(k, m) ==
    IF /\ k.join.committed /\ k.join.binding = m.binding /\ k.join.generation = m.generation
       /\ k.join.client = m.client /\ k.join.server = m.server
    THEN {k}
    ELSE IF SameJoin(k, m) /\ k.join.kind = "confirm" /\ k.join.server = m.server /\ CanCommit(k)
    THEN {[Commit(k) EXCEPT !.join.pending = FALSE]}
    ELSE {}

----------------------------------------------------------------------------
(* Budget and encoding context.                                            *)

Reply(k, r) ==
    [k EXCEPT !.replies[r] = [queued |-> TRUE, generation |-> k.generation, epoch |-> k.sendEpoch]]

\* receiveBudget of an update: the epoch before keeps its grace.
ReceiveBudget(k, m) ==
    LET updated == IF k.receiveEpoch = 2 THEN k
                   ELSE [k EXCEPT !.oldEpoch = k.receiveEpoch, !.oldLeft = Grace,
                                  !.peerLeft = Lifetime, !.receiveEpoch = 2]
    IN  {Reply(updated, "budgetAck")}

ReceiveBudgetAck(k, m) ==
    IF k.sendEpoch = 2 THEN {k}
    ELSE IF ~(k.budget.pending /\ k.budget.left > 0) THEN {}
    ELSE LET acked == [k EXCEPT !.sendEpoch = 2, !.budget.pending = FALSE]
         IN  IF k.acknowledged THEN {acked}
             ELSE IF k.context.pending /\ k.context.left = 0 THEN {[acked EXCEPT !.closed = TRUE]}  \* ErrExpired
             ELSE {StartEncoding(acked)}

\* receiveEncoding.
ReceiveContext(k, m) ==
    IF k.receiveEpoch = 2 THEN {Reply([k EXCEPT !.installed = TRUE], "contextAck")} ELSE {}
ReceiveContextAck(k, m) ==
    IF k.acknowledged THEN {k}
    ELSE IF k.context.pending /\ k.context.left > 0
    THEN {[k EXCEPT !.acknowledged = TRUE, !.context.pending = FALSE]} ELSE {}

\* What a control message of the path's own route makes of the controller.
ReceivedControl(k, m) ==
    CASE m.kind = "budget" -> ReceiveBudget(k, m)
      [] m.kind = "budgetAck" -> ReceiveBudgetAck(k, m)
      [] m.kind = "context" -> ReceiveContext(k, m)
      [] m.kind = "contextAck" -> ReceiveContextAck(k, m)

\* Receive: what an authentic message makes of the controller, none if it is
\* dropped or refused.
Received(side, k, m) ==
    CASE m.kind = "join" -> IF side = R THEN ReceivePathJoin(k, m) ELSE {}
      [] m.kind = "challenge" -> IF side = I THEN ReceiveChallenge(k, m) ELSE {}
      [] m.kind = "confirm" -> IF side = R THEN ReceiveConfirm(k, m) ELSE {}
      [] m.kind = "ready" -> IF side = I THEN ReceiveReady(k, m) ELSE {}
      [] OTHER -> IF Admitted(k, m) THEN ReceivedControl(k, m) ELSE {}

Receive(side) ==
    \E m \in net :
        /\ m.to = side /\ ~e[side].closed
        /\ \E n \in Received(side, e[side], m) : Drive(side, n)
        /\ UNCHANGED <<scenario, joins, failures, gone>>

----------------------------------------------------------------------------
(* Time and failures.                                                      *)

\* Mutant: a join in its last phase has no deadline.
MutantCommittedForgotten(k) ==
    \/ k.join.pending /\ ~k.join.committed /\ k.join.left = 0
    \/ k.budget.pending /\ k.budget.left = 0
    \/ k.context.pending /\ k.context.left = 0

\* The deadlines of NextDeadline, and what expireControl clears.
Overdue(k) ==
    \/ (k.join.pending \/ k.join.committed) /\ k.join.left = 0
    \/ k.budget.pending /\ k.budget.left = 0
    \/ k.context.pending /\ k.context.left = 0

TimerDue(side) == ~e[side].closed /\ (Overdue(e[side]) \/ Outgoing(e[side]) # "nothing")

\* Advance, with expireControl.
Advance(side) ==
    LET k == e[side]
        late == k.budget.pending /\ k.budget.left = 0
        expired == [k EXCEPT !.join = IF @.left = 0 THEN NoJoin ELSE @,
                             !.active = @ /\ ~late, !.budget.pending = @ /\ ~late,
                             !.homed = @ /\ ~(late /\ ~k.acknowledged)]
        homed == IF ~expired.homed /\ ~k.acknowledged /\ Eligible(expired)
                 THEN StartEncoding(expired) ELSE expired
    IN  /\ TimerDue(side)
        /\ IF \/ k.context.pending /\ k.context.left = 0
              \/ ~homed.homed /\ ~homed.acknowledged /\ ~PendingPathWork(homed)
           THEN e' = [e EXCEPT ![side].closed = TRUE] /\ UNCHANGED net
           ELSE Drive(side, homed)
        /\ gone' = IF late THEN [gone EXCEPT ![side] = @ \cup {k.generation}] ELSE gone
        /\ UNCHANGED <<scenario, joins, failures>>

Hit(k, binding) == k.active /\ k.binding = binding

\* FailPath: what a failed socket leaves of the routes and joins of its tuple.
WithoutTuple(k, binding) ==
    LET hit == Hit(k, binding)
    IN  [k EXCEPT
            !.active = @ /\ ~hit,
            !.budget = IF hit THEN NoRetry ELSE @,
            !.replies = IF hit THEN [r \in Replies |-> NoReply] ELSE @,
            !.homed = @ /\ ~(hit /\ ~k.acknowledged),
            !.join = IF @.binding = binding THEN NoJoin ELSE @,
            !.old = [n \in 1..MaxOldEpochs |-> IF k.old[n].binding = binding THEN NoRoute ELSE k.old[n]]]

\* The generations whose route it gives up.
LostRoutes(k, binding) ==
    {k.old[n].generation : n \in {i \in 1..MaxOldEpochs : k.old[i].binding = binding}}
        \cup (IF Hit(k, binding) THEN {k.generation} ELSE {})

\* FailPath for the tuple of a failed socket.
FailPath(side, binding) ==
    LET k == e[side]
        failed == WithoutTuple(k, binding)
    IN  /\ ~k.closed /\ failed # k
        /\ failures < scenario.failures /\ failures' = failures + 1
        /\ IF Hit(k, binding) /\ ~failed.homed /\ ~k.acknowledged /\ ~PendingPathWork(failed)
           THEN e' = [e EXCEPT ![side] = [failed EXCEPT !.closed = TRUE]] /\ UNCHANGED net
           ELSE Drive(side, failed)
        /\ gone' = [gone EXCEPT ![side] = @ \cup LostRoutes(k, binding)]
        /\ UNCHANGED <<scenario, joins>>

Sooner(n) == IF n = 0 THEN 0 ELSE n - 1
Aged(k) ==
    LET older(r) == [r EXCEPT !.left = Sooner(@), !.next = Sooner(@)]
    IN  [k EXCEPT !.join = older(@), !.budget = older(@), !.context = older(@),
                  !.oldLeft = Sooner(@), !.peerLeft = Sooner(@),
                  !.old = [n \in 1..MaxOldEpochs |-> [k.old[n] EXCEPT !.left = Sooner(@)]]]

\* A tick; a timer already due is served before time goes on.
Tick ==
    /\ \A side \in Sides : ~TimerDue(side)
    /\ e' = [side \in Sides |-> IF e[side].closed THEN e[side] ELSE Aged(e[side])]
    /\ gone' = [side \in Sides |-> gone[side] \cup
                  {r.generation : r \in {e[side].old[n] : n \in
                        {i \in 1..MaxOldEpochs : e[side].old[i].left = 1}}}]
    /\ UNCHANGED <<net, scenario, joins, failures>>

Next ==
    \/ \E binding \in Bindings : Join(binding)
    \/ \E side \in Sides :
        Receive(side) \/ Advance(side) \/ \E binding \in Bindings : FailPath(side, binding)
    \/ Tick

\* Time does not stand still (strong fairness of Tick: packets may arrive all
\* the while) and each end serves its timer (weak fairness of Advance), both
\* with their guards for ENABLED.
Ticking == \E side \in Sides : ~e[side].closed /\ Aged(e[side]) # e[side]
Fairness ==
    /\ <>[]~(Ticking /\ \A side \in Sides : ~TimerDue(side)) \/ []<><<Tick>>_vars
    /\ \A side \in Sides : []<>~TimerDue(side) \/ []<><<Advance(side)>>_vars

Spec == Init /\ [][Next]_vars
FairSpec == Spec /\ Fairness

----------------------------------------------------------------------------
(* Properties.                                                             *)

TypeOK ==
    /\ joins \in 0..scenario.joins
    /\ \A side \in Sides :
        /\ e[side].sendEpoch \in {1, 2} /\ e[side].receiveEpoch \in {1, 2}
        /\ e[side].generation <= e[side].floor /\ e[side].binding \in Bindings
        /\ e[side].join.sends \in 0..ControlSends

\* The initiator uses a generation only after the responder committed it, with
\* the same tuple: the join handshake cannot leave it ahead of its peer.
ResponderCommitsFirst ==
    /\ TypeOK
    /\ e[I].generation <= e[R].generation
    /\ (e[I].generation = e[R].generation => e[I].binding = e[R].binding)

\* What an end relies on the other has: a path that may carry Datagrams uses a
\* route the other end accepts, the current one or a retired one in its grace,
\* unless that end gave the path up; and an acknowledged encoding context is
\* installed there and its shards are accepted (receiveLookup needs receiveAckSent).
PeerAccepts ==
    \A side \in Sides :
        LET k == e[side]
            other == e[Peer(side)]
        IN  /\ Eligible(k) => \/ ValidRoute(other, k.binding, k.generation, 2)
                              \/ k.generation \in gone[Peer(side)]
            /\ k.acknowledged => other.installed /\ other.ackSent

\* Replayed or reordered join packets never take a path back to a generation it
\* had before, and never open the join of a generation twice.
GenerationsRise ==
    [][\A side \in Sides :
        /\ e'[side].generation >= e[side].generation
        /\ e'[side].floor >= e[side].floor
        /\ (~e[side].join.pending /\ e'[side].join.pending)
             => e'[side].join.generation > e[side].floor]_vars

\* Whatever is lost, every join, budget and context exchange ends.
ExchangesEnd ==
    <>[](\A side \in Sides :
            e[side].closed \/ ~(e[side].join.pending \/ e[side].budget.pending
                                \/ e[side].context.pending))

============================================================================
