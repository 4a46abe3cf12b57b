--------------------------- MODULE SendPipelineV2 ---------------------------
(***************************************************************************)
(* The sending half of a v2 Session (internal/sessionv2/controller.go,     *)
(* send_intent.go, send_control.go, send_data.go, driveData of data.go)    *)
(* over its aggregation queue (internal/aggregationv2): Datagrams are      *)
(* queued, packed into groups, cut into shards and sent over paths that    *)
(* fail and join again while sends are in flight.  Write fences report     *)
(* progress through completed and failedFrom.                              *)
(*                                                                         *)
(* With owned sends a worker takes a send and completes it later; without  *)
(* them a call emits what it can before it returns.  The controller's      *)
(* owner serializes calls, so each is one action that ends, like the code, *)
(* in drive.  Any time may pass between two calls: what has become due,    *)
(* stale or late is chosen by the call (Passed).  How a path joins and     *)
(* what its control frames mean is PathJoinV2's.                           *)
(***************************************************************************)
EXTENDS Integers, FiniteSets, SequencesExt

CONSTANTS
    NumPaths,
    Scenarios,                  \* configurations, initial states and bounds: see below
    MaxSlots, ControlSends, MaxSendsPerStep,
    NumShards,
    GroupBytes, DescriptorBytes, MaxDescriptors, MaxFragments, MaxQueued

ASSUME CountsAssumption ==
    /\ NumPaths \in Nat \ {0} /\ MaxSlots \in Nat \ {0} /\ NumShards \in Nat \ {0}
    /\ ControlSends \in Nat \ {0} /\ MaxSendsPerStep \in Nat \ {0}
ASSUME QueueAssumption ==
    /\ DescriptorBytes \in Nat \ {0} /\ GroupBytes \in Nat /\ GroupBytes > DescriptorBytes
    /\ MaxDescriptors \in Nat \ {0} /\ MaxFragments \in Nat \ {0} /\ MaxQueued \in Nat \ {0}
\* cfg.OwnedSends, cfg.Aggregation; whether the Session starts established on
\* all its paths or on its bootstrap path only; bounds on what happens next.
ASSUME ScenariosAssumption ==
    Scenarios \subseteq [owned : BOOLEAN, aggregation : BOOLEAN, established : BOOLEAN,
                         sizes : SUBSET Nat, datagrams : Nat, joins : Nat, losses : Nat, rebuilds : Nat]

Paths == 1..NumPaths
Shards == 1..NumShards
Slots == 1..MaxSlots
Context == 0                    \* names the retry of the encoding context;
Controls == {Context} \cup Paths   \* a path names that of its budget update

VARIABLES
    scenario,
    ctl,                      \* the Controller
    socket,                 \* [Paths -> Nat]: generation of the transport's socket
    up,                     \* paths whose sender is available
    joins, losses, rebuilds \* joins begun, sockets lost and replaced so far

sendVars == <<scenario, ctl, socket, up, joins, losses, rebuilds>>

owned == scenario.owned

NoRetry == [id |-> 0, version |-> 0, pending |-> FALSE, sends |-> 0, inflight |-> 0,
            queued |-> FALSE, dispatched |-> FALSE]
NoOut == [ids |-> {}, through |-> 0, group |-> 0, next |-> 1,
          shards |-> [s \in Shards |-> "terminal"]]
Free == [path |-> 0, source |-> "none", shard |-> 0, transaction |-> 0, version |-> 0]

\* generation is that of the socket the path captured, joined the one its join did;
\* slot is the send the path waits for.
InitialPath == [active |-> FALSE, generation |-> 0, epoch |-> 1, joining |-> FALSE,
                joined |-> 0, slot |-> 0, queued |-> 0]

\* New and Start: the bootstrap path is active and publishes its budget.  Or
\* later: every path joined, its budget and the context acknowledged.
SendInit ==
    /\ scenario \in Scenarios
    /\ socket = [p \in Paths |-> 0] /\ up = Paths
    /\ joins = 0 /\ losses = 0 /\ rebuilds = 0
    /\ LET established == scenario.established
       IN  ctl = [state |-> "open", accepting |-> TRUE,
                queue |-> <<>>, nextID |-> 1, nextGroup |-> 1,
                forced |-> 0, completed |-> 0, failedFrom |-> 0,
                lost |-> {},    \* history: Datagrams of a group that lost a shard
                out |-> NoOut,
                slots |-> [s \in Slots |-> Free],
                path |-> [p \in Paths |->
                            [InitialPath EXCEPT !.active = (p = 1 \/ established),
                                                !.epoch = IF established THEN 2 ELSE 1]],
                retry |-> [x \in Controls |->
                            IF x = 1 /\ ~established
                            THEN [NoRetry EXCEPT !.id = 1, !.version = 2, !.pending = TRUE,
                                                 !.queued = TRUE]
                            ELSE NoRetry],
                contextPath |-> 1, acknowledged |-> established]

----------------------------------------------------------------------------
(* The aggregation queue.                                                  *)

FreshCapacity == GroupBytes - DescriptorBytes
FragmentCount(bytes) == IF bytes = 0 THEN 0 ELSE 1 + (bytes - 1) \div FreshCapacity

\* One Datagram of planLocked: next Datagrams leave whole, bytes of one more do.
PlanEntry(plan, e) ==
    LET remaining == e.size - e.offset
        room == GroupBytes - plan.used - DescriptorBytes
        consumed == Min({room, remaining})
    IN  IF \/ plan.full \/ plan.count = MaxDescriptors
           \/ room < 0 \/ (room = 0 /\ remaining > 0)
           \/ consumed < remaining
              /\ e.fragments + 1 + FragmentCount(remaining - consumed) > MaxFragments
        THEN [plan EXCEPT !.full = TRUE]
        ELSE [used |-> plan.used + DescriptorBytes + consumed, count |-> plan.count + 1,
              next |-> IF consumed < remaining THEN plan.next ELSE plan.next + 1,
              bytes |-> IF consumed < remaining THEN consumed ELSE 0,
              full |-> consumed < remaining]

\* What the first n Datagrams of the queue make of a plan.
PlanSteps(queue) ==
    LET plan[n \in 0..Len(queue)] ==
            IF n = 0 THEN [used |-> 0, count |-> 0, next |-> 0, bytes |-> 0, full |-> FALSE]
            ELSE PlanEntry(plan[n - 1], queue[n])
    IN  plan

Plan(queue) ==
    LET plan == PlanSteps(queue)[Len(queue)]
    IN  [plan EXCEPT !.full = @ \/ plan.used = GroupBytes \/ plan.count = MaxDescriptors]

\* Queue.Admit: the Datagram fits, and joins the end of the ring under the next ID.
Admissible(k, size) ==
    FragmentCount(size) <= MaxFragments /\ Len(k.queue) < MaxQueued
Admit(k, size) ==
    [k EXCEPT !.queue = Append(@, [id |-> k.nextID, size |-> size, offset |-> 0,
                                   fragments |-> 0]),
              !.nextID = @ + 1]

\* dueLocked: the group is full, or its oldest Datagram has waited long enough.
Due(k, plan, t) == k.queue # <<>> /\ (plan.full \/ t.headDue)

\* Queue.seal: what is left of the queue when a planned group has left it.
Remainder(queue, plan) ==
    LET rest == SubSeq(queue, plan.next + 1, Len(queue))
    IN  IF plan.bytes = 0 THEN rest
        ELSE [rest EXCEPT ![1].offset = @ + plan.bytes, ![1].fragments = @ + 1]

\* Output.Release, and Queue.Close, which drops what was not sealed.
ReleaseOutput(k) == [k EXCEPT !.out = NoOut]
CloseQueue(k) == [k EXCEPT !.queue = <<>>]

----------------------------------------------------------------------------
(* Paths and control frames.                                               *)

\* Controller.eligible; a captured sender knows only its own generation.
SenderUsable(k, p) == p \in up /\ (owned => k.path[p].generation = socket[p])
Eligible(k, p) == k.path[p].active /\ k.path[p].epoch = 2 /\ SenderUsable(k, p)
EligiblePaths(k) == {p \in Paths : Eligible(k, p)}
Ready(k) == k.state = "open" /\ k.acknowledged /\ EligiblePaths(k) # {}

PendingPathWork(k) ==
    \E p \in Paths : k.path[p].joining \/ (k.path[p].active /\ k.retry[p].pending)
\* Nothing can be sent and nothing will change that: the call fails with
\* ErrNoAvailablePaths, and the runtime closes the Session (handleSession).
Stranded(k) == k.acknowledged /\ ~Ready(k) /\ ~PendingPathWork(k)
BeginClosing(k) == [k EXCEPT !.state = "closing", !.accepting = FALSE]

\* nextControlID: only its being fresh matters, among the IDs still in use.
FreshID(k) ==
    LET used == (UNION {{r.id, r.version} : r \in Range(k.retry)})
                \cup (UNION {{s.transaction, s.version} : s \in Range(k.slots)})
    IN  CHOOSE n \in 1..(Cardinality(used) + 1) :
            n \notin used /\ \A m \in 1..(n - 1) : m \in used

\* newControlRetry and frameSet: a new transaction, and a new version of its frame.
NewRetry(k, x) ==
    [k EXCEPT !.retry[x] = [NoRetry EXCEPT !.id = FreshID(k), !.pending = TRUE]]
FrameSet(k, x) ==
    [k EXCEPT !.retry[x] = [@ EXCEPT !.version = FreshID(k), !.queued = TRUE,
                                     !.dispatched = FALSE]]

StartBudget(k, p) == FrameSet(NewRetry(k, p), p)
StartEncoding(k, p) ==
    [FrameSet(IF k.retry[Context].pending THEN k ELSE NewRetry(k, Context), Context)
        EXCEPT !.contextPath = p]

\* The first eligible path takes over an encoding context without a path.
RehomeContext(k) ==
    IF k.contextPath = 0 /\ ~k.acknowledged /\ EligiblePaths(k) # {}
    THEN StartEncoding(k, Min(EligiblePaths(k))) ELSE k

PathOf(k, x) == IF x = Context THEN k.contextPath ELSE x
\* controlAt: the control has a path that may carry it.
Carried(k, x) == PathOf(k, x) # 0 /\ k.path[PathOf(k, x)].active
Unspent(r) == r.pending /\ r.sends + r.inflight < ControlSends

\* A due context retry moves to the next eligible path.
NextContextPath(k) ==
    LET after(p) == (p - k.contextPath - 1 + NumPaths) % NumPaths
    IN  CHOOSE p \in EligiblePaths(k) : \A q \in EligiblePaths(k) : after(p) <= after(q)

Rotate(k, t) ==
    LET r == k.retry[Context]
    IN  IF Context \in t.due /\ Unspent(r) /\ ~r.queued /\ ~r.dispatched /\ EligiblePaths(k) # {}
        THEN StartEncoding(k, NextContextPath(k)) ELSE k

\* prepareOwnedControls: due retries are queued, stale frames give up.
PrepareControls(k, t) ==
    LET n == Rotate(k, t)
        may(x) == Carried(n, x) /\ Unspent(n.retry[x]) /\ ~n.retry[x].dispatched
    IN  [n EXCEPT !.retry = [x \in Controls |->
            [n.retry[x] EXCEPT !.queued =
                (@ \/ (may(x) /\ x \in t.due)) /\ ~(may(x) /\ x \in t.stale)]]]

----------------------------------------------------------------------------
(* Groups and shards.                                                      *)

\* completeOwnedShard for those of S that are not over; the first failure is
\* the one fences report.
CompleteShards(k, S, failed) ==
    LET now == {s \in S : k.out.shards[s] # "terminal"}
        done == [k EXCEPT
            !.out.shards = [s \in Shards |-> IF s \in now THEN "terminal" ELSE @[s]],
            !.failedFrom = IF failed /\ @ = 0 THEN k.completed + 1 ELSE @,
            !.lost = IF failed THEN @ \cup k.out.ids ELSE @]
    IN  IF now = {} THEN k
        ELSE IF \E s \in Shards : done.out.shards[s] # "terminal" THEN done
        ELSE [ReleaseOutput(done) EXCEPT !.completed = k.out.through]

HasOut(k) == k.out.ids # {}

\* expireOwnedData: shards that waited too long fail, as many as one call
\* reports; those in flight do not.
ExpireData(k, t) ==
    LET waiting == {s \in Shards : k.out.shards[s] = "waiting"}
        room == t.room - Cardinality(t.stale)
    IN  IF ~t.groupLate THEN k
        ELSE CompleteShards(k, {s \in waiting : Cardinality({w \in waiting : w <= s}) <= room}, TRUE)

\* Mutant: a group completes every Datagram it has a part of.
MutantCompletesParts(k, t) ==
    LET plan == Plan(k.queue)
        ids == {k.queue[i].id : i \in 1..plan.count}
    IN  IF k.queue = <<>> \/ ~(k.forced > k.completed \/ Due(k, plan, t)) THEN k
        ELSE [k EXCEPT
            !.queue = Remainder(@, plan),
            !.nextGroup = 1 + (@ % NumPaths),
            !.out = [ids |-> ids, group |-> k.nextGroup, next |-> 1,
                     through |-> Max(ids), shards |-> [s \in Shards |-> "waiting"]]]

\* SealWithWorkspace and the fence of the group it seals.
Seal(k, t) ==
    LET plan == Plan(k.queue)
        ids == {k.queue[i].id : i \in 1..plan.count}
    IN  IF k.queue = <<>> \/ ~(k.forced > k.completed \/ Due(k, plan, t)) THEN k
        ELSE [k EXCEPT
            !.queue = Remainder(@, plan),
            !.nextGroup = 1 + (@ % NumPaths),
            !.out = [ids |-> ids, group |-> k.nextGroup, next |-> 1,
                     through |-> k.nextID - 1 - Len(Remainder(k.queue, plan)),
                     shards |-> [s \in Shards |-> "waiting"]]]

DriveOwned(k, t) ==
    LET expired == ExpireData(PrepareControls(k, t), t)
    IN  IF Stranded(expired) THEN BeginClosing(expired)
        ELSE IF Ready(expired) /\ ~HasOut(expired) THEN Seal(expired, t) ELSE expired

\* One turn of the loop of driveData: seal if there is no group, emit one shard.
EmitShard(t, k, failed) ==
    LET sealed == IF HasOut(k) \/ EligiblePaths(k) = {} THEN k ELSE Seal(k, t)
        next == CompleteShards(sealed, {sealed.out.next}, failed)
    IN  IF ~HasOut(sealed) \/ EligiblePaths(k) = {} THEN sealed
        ELSE IF HasOut(next) THEN [next EXCEPT !.out.next = @ + 1] ELSE next

\* The controller after each turn of the loop.
EmitSteps(k, t) ==
    LET emit[n \in 0..Len(t.emits)] ==
            IF n = 0 THEN k ELSE EmitShard(t, emit[n - 1], t.emits[n])
    IN  emit

\* drive, without owned sends: it emits until a path is paced.
DriveSync(k, t) ==
    IF Stranded(k) THEN BeginClosing(k)
    ELSE IF ~Ready(k) \/ t.gated THEN k
    ELSE EmitSteps(k, t)[Len(t.emits)]

Drive(k, t) == IF owned THEN DriveOwned(k, t) ELSE DriveSync(k, t)

----------------------------------------------------------------------------
(* Actions.                                                                *)

\* What time has done since the last call: retries due, frames stale, the
\* group's residence or the oldest Datagram's delay over, paths paced; room is how
\* many sends the call may still report.  Without owned sends: whether retryStorage,
\* which the receiving half sets too, is still in the future (gated), and what the
\* call gets to emit, with what failures.
Emissions == UNION {[1..n -> BOOLEAN] : n \in 0..MaxSendsPerStep}
DueControls == {x \in Controls : LET r == ctl.retry[x]
                                 IN  owned /\ r.pending /\ ~r.queued /\ ~r.dispatched}
QueuedControls == {x \in Controls : owned /\ ctl.retry[x].queued}
Passed == {t \in
    [due : SUBSET DueControls, room : {MaxSendsPerStep},
     stale : {S \in SUBSET QueuedControls : Cardinality(S) <= MaxSendsPerStep},
     groupLate : IF owned /\ HasOut(ctl) THEN BOOLEAN ELSE {FALSE},
     headDue : IF ctl.queue # <<>> THEN BOOLEAN ELSE {FALSE},
     gated : IF owned THEN {FALSE} ELSE BOOLEAN,
     emits : IF owned THEN {<<>>} ELSE Emissions] : t.gated => t.emits = <<>>}

Call(n) ==
    /\ ctl.state = "open"
    /\ ctl' = n
    /\ UNCHANGED <<scenario, socket, up, joins, losses, rebuilds>>

Write(size, t) ==
    /\ ctl.accepting /\ Ready(ctl) /\ ctl.nextID <= scenario.datagrams
    /\ Admissible(ctl, size)
    /\ LET admitted == [Admit(ctl, size) EXCEPT
                            !.forced = IF scenario.aggregation THEN @ ELSE ctl.nextID]
       IN  Call(Drive(admitted, t))

\* A Write without a usable path only finds out that there is none.
WriteRefused == ctl.accepting /\ Stranded(ctl) /\ Call(BeginClosing(ctl))

Flush(t) == Call(Drive([ctl EXCEPT !.forced = ctl.nextID - 1], t))

\* The controls TakeSend may dispatch on an idle path, and those it fails
\* because their sender is gone.
Dispatchable(k, x) ==
    /\ Carried(k, x) /\ Unspent(k.retry[x])
    /\ k.retry[x].queued /\ ~k.retry[x].dispatched
    /\ k.path[PathOf(k, x)].slot = 0
Usable(k, x) == SenderUsable(k, PathOf(k, x))
FailQueued(k, X) == [k EXCEPT !.retry = [x \in Controls |->
                        IF x \in X THEN [k.retry[x] EXCEPT !.queued = FALSE] ELSE k.retry[x]]]

\* installIntent.
Install(k, slot, p, send) ==
    [k EXCEPT !.slots[slot] = send,
              !.path[p] = [k.path[p] EXCEPT !.slot = slot, !.queued = @ + 1]]

DispatchControl(k, slot, x) ==
    Install([k EXCEPT !.retry[x] = [k.retry[x] EXCEPT !.inflight = @ + 1, !.dispatched = TRUE,
                                                      !.queued = FALSE]],
            slot, PathOf(k, x),
            [path |-> PathOf(k, x), source |-> IF x = Context THEN "context" ELSE "budget",
             shard |-> 0, transaction |-> k.retry[x].id, version |-> k.retry[x].version])

\* takeOwnedData's path for a shard: the preferred one while it is eligible,
\* otherwise the first eligible one that is idle.
PreferredPath(k, shard) == 1 + ((k.out.group + shard) % NumPaths)
IdlePaths(k, paced) == {p \in EligiblePaths(k) : k.path[p].slot = 0 /\ p \notin paced}
DataPaths(k, shard, paced) ==
    LET p == PreferredPath(k, shard)
    IN  IF p \in EligiblePaths(k) THEN {p} \cap IdlePaths(k, paced)
        ELSE IF IdlePaths(k, paced) = {} THEN {} ELSE {Min(IdlePaths(k, paced))}
DispatchShard(k, slot, shard, p) ==
    Install([k EXCEPT !.out.shards[shard] = "dispatched"], slot, p,
            [path |-> p, source |-> "data", shard |-> shard, transaction |-> 0, version |-> 0])

\* TakeSend: a control before a shard.  The cursors that make both choices
\* fair are left out: any control, any shard may be next.
TakeSend(t, paced) ==
    /\ owned
    /\ \E k \in {DriveOwned(ctl, t)} :
        LET free == {s \in Slots : k.slots[s] = Free}
            controls == {x \in Controls : Dispatchable(k, x) /\ PathOf(k, x) \notin paced}
            usable == {x \in controls : Usable(k, x)}
            failed == FailQueued(k, controls \ usable)
            late == t.groupLate /\ k.out.group = ctl.out.group
            sends == {d \in Shards \X Paths :
                        /\ HasOut(failed) /\ ~late /\ failed.out.shards[d[1]] = "waiting"
                        /\ d[2] \in DataPaths(failed, d[1], paced)}
        IN  IF k.state # "open" \/ free = {} THEN Call(k)
            ELSE IF usable # {} THEN
                \E x \in usable, X \in SUBSET (controls \ usable) :
                    Call(DispatchControl(FailQueued(k, X), Min(free), x))
            ELSE IF sends # {} THEN
                \E d \in sends : Call(DispatchShard(failed, Min(free), d[1], d[2]))
            ELSE Call(failed)

\* Mutant: a completion is credited to whatever transaction runs now.
MutantCreditsAny(k, send, attempted) ==
    LET x == IF send.source = "context" THEN Context ELSE send.path
        r == k.retry[x]
    IN  [k EXCEPT !.retry[x] = [r EXCEPT !.inflight = @ - 1,
                                         !.sends = IF attempted THEN @ + 1 ELSE @,
                                         !.dispatched = @ /\ r.version # send.version]]

\* completeOwnedControl: a send of a replaced transaction counts for nothing.
CompleteControl(k, send, attempted) ==
    LET x == IF send.source = "context" THEN Context ELSE send.path
        r == k.retry[x]
    IN  IF r.id # send.transaction THEN k
        ELSE [k EXCEPT !.retry[x] = [r EXCEPT !.inflight = @ - 1,
                                              !.sends = IF attempted THEN @ + 1 ELSE @,
                                              !.dispatched = @ /\ r.version # send.version]]

\* What CompleteSend takes back: the slot, and the path that waits for it.
Freed(k, s) ==
    LET p == k.slots[s].path
    IN  [k EXCEPT !.slots[s] = Free,
                  !.path[p] = [k.path[p] EXCEPT !.slot = IF @ = s THEN 0 ELSE @, !.queued = @ - 1]]

\* CompleteSend: not attempted (then it failed), attempted and failed, or sent.  It
\* is the first send the call reports.
Outcomes == {"unattempted", "failed", "sent"}
CompleteSend(s, outcome, t) ==
    /\ ctl.state # "final" /\ ctl.slots[s] # Free /\ Cardinality(t.stale) < MaxSendsPerStep
    /\ LET send == ctl.slots[s]
           freed == Freed(ctl, s)
           done == IF send.source = "data" THEN CompleteShards(freed, {send.shard}, outcome # "sent")
                   ELSE CompleteControl(freed, send, outcome # "unattempted")
       IN  ctl' = IF ctl.state = "closing" THEN freed ELSE DriveOwned(done, [t EXCEPT !.room = @ - 1])
    /\ UNCHANGED <<scenario, socket, up, joins, losses, rebuilds>>

\* expireControl and drive.  late names the controls and joins whose deadline passed.
Advance(t, late, lateJoins) ==
    LET expired == [ctl EXCEPT
            !.path = [p \in Paths |-> [ctl.path[p] EXCEPT
                        !.active = @ /\ ~(p \in late /\ ctl.retry[p].pending),
                        !.joining = @ /\ p \notin lateJoins]],
            !.retry = [x \in Controls |-> [ctl.retry[x] EXCEPT
                        !.pending = @ /\ (x = Context \/ x \notin late)]],
            !.contextPath = IF ~ctl.acknowledged /\ @ \in late /\ ctl.retry[@].pending THEN 0 ELSE @]
        homed == RehomeContext(expired)
    IN  IF \/ Context \in late /\ ctl.retry[Context].pending
           \/ homed.contextPath = 0 /\ ~homed.acknowledged /\ ~PendingPathWork(homed)
        THEN Call(BeginClosing(expired)) ELSE Call(Drive(homed, t))

\* FailPath: the path's authority and its budget retry are gone, and its join if that
\* is on the binding that failed.  (The join of an inactive path ends like a late one.)
FailPath(p, sameBinding, t) ==
    /\ ctl.path[p].active
    /\ LET path == [ctl.path[p] EXCEPT !.active = FALSE, !.joining = @ /\ ~sameBinding]
           failed == [ctl EXCEPT !.path[p] = path, !.retry[p] = NoRetry,
                               !.contextPath = IF @ = p /\ ~ctl.acknowledged THEN 0 ELSE @]
           homed == IF ctl.contextPath = p THEN RehomeContext(failed) ELSE failed
       IN  IF ctl.contextPath = p /\ ~ctl.acknowledged /\ homed.contextPath = 0
              /\ ~PendingPathWork(homed)
           THEN Call(BeginClosing(homed)) ELSE Call(Drive(homed, t))

\* Join captures the socket; the joins themselves are in PathJoinV2, here one may
\* come to commitPath.
Join(p) ==
    /\ ctl.state = "open" /\ ~ctl.path[p].joining /\ joins < scenario.joins
    /\ joins' = joins + 1
    /\ ctl' = [ctl EXCEPT !.path[p] = [@ EXCEPT !.joining = TRUE, !.joined = socket[p]]]
    /\ UNCHANGED <<scenario, socket, up, losses, rebuilds>>

CommitPath(p, t) ==
    /\ ctl.path[p].joining /\ p \in up
    /\ LET joined == [ctl EXCEPT !.path[p] = [@ EXCEPT !.active = TRUE, !.joining = FALSE,
                                                     !.generation = ctl.path[p].joined,
                                                     !.joined = 0, !.epoch = 1]]
       IN  Call(Drive(StartBudget(joined, p), t))

\* receiveBudget of the acknowledgement of this path's budget.
BudgetAck(p, t) ==
    /\ ctl.path[p].active /\ ctl.path[p].epoch = 1 /\ ctl.retry[p].pending
    /\ LET acked == [ctl EXCEPT !.path[p].epoch = 2, !.retry[p].pending = FALSE]
           start == ~ctl.acknowledged /\ (~ctl.retry[Context].pending \/ ctl.contextPath \in {0, p})
       IN  Call(Drive(IF start THEN StartEncoding(acked, p) ELSE acked, t))

\* receiveEncoding of the acknowledgement of the context.
ContextAck(t) ==
    /\ ctl.retry[Context].pending
    /\ Call(Drive([ctl EXCEPT !.acknowledged = TRUE, !.retry[Context].pending = FALSE], t))

\* Bounded: before the first Datagram it would only rule out all Writes.
StopAdmissions ==
    ctl.accepting /\ ctl.nextID > 1 /\ Call([ctl EXCEPT !.accepting = FALSE])

BeginClose == Call(BeginClosing(ctl))

\* FinalizeClose: only once every send has come back.
FinalizeClose ==
    /\ ctl.state = "closing" /\ \A s \in Slots : ctl.slots[s] = Free
    /\ ctl' = [ReleaseOutput(CloseQueue(ctl)) EXCEPT
                      !.state = "final",
                      !.path = [p \in Paths |-> InitialPath],
                      !.retry = [x \in Controls |-> NoRetry], !.contextPath = 0]
    /\ UNCHANGED <<scenario, socket, up, joins, losses, rebuilds>>

\* The transport loses a socket, or replaces it by a new generation.
SocketDown(p) ==
    /\ p \in up /\ up' = up \ {p}
    /\ losses < scenario.losses /\ losses' = losses + 1
    /\ UNCHANGED <<scenario, ctl, socket, joins, rebuilds>>
Rebuild(p) ==
    /\ rebuilds < scenario.rebuilds
    /\ rebuilds' = rebuilds + 1 /\ socket' = [socket EXCEPT ![p] = @ + 1]
    /\ up' = up \cup {p}
    /\ UNCHANGED <<scenario, ctl, joins, losses>>

Calls ==
    \E t \in Passed :
        \/ \E size \in scenario.sizes : Write(size, t)
        \/ Flush(t) \/ ContextAck(t)
        \/ \E paced \in SUBSET Paths : TakeSend(t, paced)
        \/ \E s \in Slots, outcome \in Outcomes : CompleteSend(s, outcome, t)
        \/ \E p \in Paths : CommitPath(p, t) \/ BudgetAck(p, t)
        \/ \E p \in Paths, sameBinding \in BOOLEAN : FailPath(p, sameBinding, t)
        \/ \E late \in SUBSET {x \in Controls : ctl.retry[x].pending},
              joined \in SUBSET {p \in Paths : ctl.path[p].joining} : Advance(t, late, joined)

SendNext ==
    \/ Calls
    \/ WriteRefused \/ StopAdmissions \/ BeginClose \/ FinalizeClose
    \/ \E p \in Paths : Join(p) \/ SocketDown(p) \/ Rebuild(p)

\* Mutant: a group being sent arms no timer.
MutantUnarmedForGroup(k) ==
    /\ k.state = "open"
    /\ \/ \E x \in Controls : k.retry[x].pending
       \/ \E p \in Paths : k.path[p].joining
       \/ Ready(k) /\ ~HasOut(k) /\ k.queue # <<>>

\* ownedDataDeadline: a shard that waits expires with its group.
OwnedDataDeadline(k) == \E s \in Shards : k.out.shards[s] = "waiting"

\* NextDeadline: whether the driver's timer is armed at all.
TimerArmed(k) ==
    /\ k.state = "open"
    /\ \/ \E x \in Controls : k.retry[x].pending
       \/ \E p \in Paths : k.path[p].joining
       \/ owned /\ OwnedDataDeadline(k)
       \/ Ready(k) /\ (IF HasOut(k) THEN ~owned ELSE k.queue # <<>>)

\* A wait long enough that everything pending is due or over.
Elapsed ==
    {t \in Passed : /\ t.due = DueControls /\ t.stale = {} /\ (owned /\ HasOut(ctl) => t.groupLate)
                   /\ (ctl.queue # <<>> => t.headDue)}
TimerFires == \E t \in Elapsed : Advance(t, Controls, Paths)

\* The deadlines no other half of the Session can put off.
Expires(k) ==
    /\ k.state = "open"
    /\ \/ \E x \in Controls : k.retry[x].pending
       \/ \E p \in Paths : k.path[p].joining
       \/ owned /\ (OwnedDataDeadline(k) \/ (Ready(k) /\ ~HasOut(k) /\ k.queue # <<>>))

\* The driver serves an armed timer: weak fairness of TimerFires with Expires for
\* its ENABLED (then it changes the state).  A worker completes what it took: weak
\* fairness of CompleteSend, stated by what only it undoes.
Fairness ==
    /\ []<>~Expires(ctl) \/ []<><<TimerFires>>_sendVars
    /\ \A s \in Slots : []<>(ctl.slots[s] = Free)

SendSpec == SendInit /\ [][SendNext]_sendVars
FairSpec == SendSpec /\ Fairness

----------------------------------------------------------------------------
(* Properties.                                                             *)

UsedSlots(k) == {s \in Slots : k.slots[s] # Free}

SendTypeOK ==
    /\ ctl.state \in {"open", "closing", "final"}
    /\ ctl.completed \in 0..(ctl.nextID - 1) /\ ctl.forced \in 0..(ctl.nextID - 1)
    /\ ctl.contextPath \in {0} \cup Paths

\* A fence never reports a Datagram sent when a group with a part of it lost a
\* shard, and never passes a Datagram that still waits (completed, failedFrom).  A
\* Datagram that waits always fits the fragments it has left, and the next group
\* always makes progress (the "cannot make encoding progress" error of seal is
\* unreachable).
FencesHonest ==
    /\ \A d \in ctl.lost : d <= ctl.completed => ctl.failedFrom # 0 /\ ctl.failedFrom <= d
    /\ \A i \in 1..Len(ctl.queue) : ctl.queue[i].id > ctl.completed
    /\ ctl.failedFrom # 0 => ctl.lost # {}
    /\ \A i \in 1..Len(ctl.queue) :
        LET e == ctl.queue[i]
        IN  e.fragments + FragmentCount(e.size - e.offset) <= MaxFragments
    /\ ctl.queue # <<>> => Plan(ctl.queue).count > 0

\* Every send in flight is counted once where it belongs: in its path, in its
\* shard, in the retry of its transaction if that still runs; and storage is
\* not given back while one is in flight.
SendsExact ==
    /\ SendTypeOK
    /\ \A p \in Paths :
        LET mine == {s \in UsedSlots(ctl) : ctl.slots[s].path = p}
        IN  ctl.path[p].queued = Cardinality(mine)
            /\ mine = (IF ctl.path[p].slot = 0 THEN {} ELSE {ctl.path[p].slot})
    /\ ctl.state = "open" =>
        /\ {d \in Shards : ctl.out.shards[d] = "dispatched"}
             = {ctl.slots[s].shard : s \in {u \in UsedSlots(ctl) : ctl.slots[u].source = "data"}}
        /\ \A x \in Controls :
            LET r == ctl.retry[x]
                mine == {s \in UsedSlots(ctl) : r.id # 0 /\ ctl.slots[s].transaction = r.id}
            IN  /\ r.inflight = Cardinality(mine)
                /\ r.dispatched <=> \E s \in mine : ctl.slots[s].version = r.version
                /\ r.sends + r.inflight <= ControlSends
    /\ ctl.state = "final" => UsedSlots(ctl) = {}

\* Without owned sends an armed timer may find retryStorage in the future, a path
\* paced or no storage for a group.  This says it is not so for ever: sooner or later
\* the Advance of an armed timer gets something done.
TimerGetsThrough == []<>~TimerArmed(ctl) \/ []<><<TimerFires>>_sendVars

\* All senders are gone, and no call has been made that would find out.
Unnoticed(k) == k.state = "open" /\ k.acknowledged /\ EligiblePaths(k) = {}

\* Every Datagram a Flush (or a Write without aggregation) fences is completed if
\* the timer gets through, unless the Session closes or every sender is gone and the
\* report of it was dropped: no group, queue or path state leaves the driver without
\* a timer or a send in flight to wait for.
FencesSettle ==
    TimerGetsThrough =>
        \A d \in 1..Max({x.datagrams : x \in Scenarios}) :
            ctl.forced >= d ~> (ctl.completed >= d \/ ctl.state # "open" \/ []Unnoticed(ctl))

============================================================================
