------------------------------ MODULE ReceiveV2 ------------------------------
(***************************************************************************)
(* How a v2 Session receives Datagrams: shards gather in encoding groups   *)
(* (internal/sessionv2/data.go), a decoded group hands its fragments to    *)
(* the original Datagrams being reassembled (internal/reassemblyv2), and   *)
(* two rings of terminal history (internal/recvwindow) refuse IDs that are *)
(* over.  Everything pending is paid for from the Session's credit.        *)
(*                                                                         *)
(* The other end is a fixed table: what each of its groups holds.  Shards  *)
(* arrive in any order, any number of times or never.  Time is age: how    *)
(* many ticks ago an entry was admitted, counted up to its timeout.  A     *)
(* record that contradicts its group (another length, epoch or payload)    *)
(* only ends its bundle: shorter bundles are inputs of their own.          *)
(***************************************************************************)
EXTENDS Integers, SequencesExt

CONSTANTS
    Scenarios,                      \* what the other end sends
    GroupSpan, DatagramSpan,        \* the two receive windows
    WordBits,                       \* 64 in the code
    GroupTimeout, DatagramTimeout,  \* in ticks
    MaxPendingGroups, MaxDatagrams, MaxFragments,
    GroupCharge, DecodedCharge,     \* credit of a pending group, before and after Decode
    LinkCharge,                     \* ranges and links of a Datagram being reassembled
    Credit                          \* what the Session may hold

ASSUME LimitsAssumption ==
    /\ {GroupSpan, DatagramSpan, WordBits, GroupTimeout, DatagramTimeout} \subseteq Nat \ {0}
    /\ {MaxPendingGroups, MaxDatagrams, MaxFragments} \subseteq Nat \ {0}
    /\ MaxDatagrams <= DatagramSpan
    /\ {LinkCharge, DecodedCharge, GroupCharge, Credit} \subseteq Nat
    /\ DecodedCharge <= GroupCharge

\* A fragment: which bytes of which Datagram, and how long that is.
Fragments == [id : Nat, total : Nat, from : Nat, to : Nat, body : Nat]

ASSUME ScenariosAssumption ==
    \A s \in Scenarios :
        /\ DOMAIN s.groups \subseteq Nat \ {0}
        /\ \A id \in DOMAIN s.groups : s.groups[id] \in Seq(Fragments)
        /\ s.shards \in Nat /\ s.dataShards \in Nat \ {0} /\ s.records \in Nat

VARIABLES
    scenario,
    rx,         \* the receive side of the controller
    held,       \* Datagrams delivered and not released by the reader
    delivered,  \* history: deliveries, each the Datagram's ID and bytes
    fates       \* history: how groups and Datagrams ended

vars == <<scenario, rx, held, delivered, fates>>

GroupIDs == DOMAIN scenario.groups
Shards == 1..scenario.shards
Sent(id) == scenario.groups[id]     \* the fragments the other end put in group id

----------------------------------------------------------------------------
(* recvwindow.Window                                                       *)

NewWindow(span) ==
    [span |-> span, highest |-> 0, completed |-> {}, expired |-> {},
     completedCount |-> 0, expiredCount |-> 0]

Floor(w) == IF w.highest < w.span THEN 1 ELSE w.highest - w.span + 1

Index(w, id) == id % w.span

State(w, id) ==
    LET inside == Floor(w) <= id /\ id <= w.highest
    IN  CASE id < Floor(w) -> "retired"
          [] inside /\ Index(w, id) \in w.completed -> "completed"
          [] inside /\ Index(w, id) \in w.expired \ w.completed -> "expired"
          [] OTHER -> "unseen"

\* Mutant: a run of bits stops at the end of a word and not at that of the ring.
MutantPastSpan(w, position, remaining) == Min({remaining, WordBits - (position % WordBits)})

\* How many bits one round of Admit clears: not past the word, nor the ring.
Width(w, position, remaining) ==
    Min({remaining, WordBits - (position % WordBits), w.span - position})

\* The positions Admit clears when the window moves up to id.
Cleared(w, id) ==
    LET loop[remaining \in 0..(w.span - 1)] ==
            [position \in 0..(w.span - 1) |->
                IF remaining = 0 THEN {}
                ELSE LET width == Width(w, position, remaining)
                     IN  position..(position + width - 1)
                           \cup loop[remaining - width][(position + width) % w.span]]
    IN  IF id - w.highest >= w.span THEN 0..(w.span - 1)
        ELSE loop[id - w.highest][(w.highest + 1) % w.span]

Admit(w, id) ==
    IF State(w, id) # "unseen" \/ id <= w.highest THEN w
    ELSE LET gone == Cleared(w, id)
         IN  [w EXCEPT !.highest = id,
                       !.completed = @ \ gone, !.expired = @ \ gone,
                       !.completedCount = @ - Cardinality(w.completed \cap gone),
                       !.expiredCount = @ - Cardinality(w.expired \cap gone)]

Finish(w, id, terminal) ==
    IF id > w.highest \/ State(w, id) # "unseen" THEN w
    ELSE IF terminal = "completed"
         THEN [w EXCEPT !.completed = @ \cup {Index(w, id)}, !.completedCount = @ + 1]
         ELSE [w EXCEPT !.expired = @ \cup {Index(w, id)}, !.expiredCount = @ + 1]

----------------------------------------------------------------------------
(* Pending entries are threaded in the order of their admission: insertGroup *)
(* and releaseGroup of the controller, addPending and removePending of the  *)
(* receiver.                                                                *)

Empty == [map |-> <<>>, previous |-> <<>>, next |-> <<>>, head |-> 0, tail |-> 0]
Pending(list) == DOMAIN list.map

Link(list, id, entry) ==
    LET all == Pending(list) \cup {id}
    IN  [map |-> [x \in all |-> IF x = id THEN entry ELSE list.map[x]],
         previous |-> [x \in all |-> IF x = id THEN list.tail ELSE list.previous[x]],
         next |-> [x \in all |-> IF x = id THEN 0 ELSE IF x = list.tail THEN id ELSE list.next[x]],
         head |-> IF list.tail = 0 THEN id ELSE list.head,
         tail |-> id]

Unlink(list, id) ==
    LET left == Pending(list) \ {id}
        before == list.previous[id]
        behind == list.next[id]
    IN  [map |-> [x \in left |-> list.map[x]],
         previous |-> [x \in left |-> IF x = behind THEN before ELSE list.previous[x]],
         next |-> [x \in left |-> IF x = before THEN behind ELSE list.next[x]],
         head |-> IF before = 0 THEN behind ELSE list.head,
         tail |-> IF behind = 0 THEN before ELSE list.tail]

Put(list, id, entry) == [list EXCEPT !.map = [list.map EXCEPT ![id] = entry]]

----------------------------------------------------------------------------
(* reassemblyv2.Receiver.  Engine operators take the state k of the receive *)
(* side and what it has delivered, k.out, and return it changed.            *)

Bytes(f) == f.to - f.from
AssemblyCharge(f) == f.total + LinkCharge
Due(entry, timeout) == entry.age >= timeout

\* inspect: how a fragment meets what its Datagram already has.
Inspect(a, f) ==
    LET same == {r \in a.ranges : r.from = f.from /\ r.to = f.to}
    IN  CASE \E r \in same : r.body # f.body -> "invalid"
          [] same # {} /\ \A r \in same : r.body = f.body -> "duplicate"
          [] /\ same = {}
             /\ \E r \in a.ranges : IF r.from < f.from THEN r.to > f.from ELSE r.from < f.to
                -> "invalid"
          [] OTHER -> IF Cardinality(a.ranges) = MaxFragments THEN "full" ELSE "insert"

\* Mutant: a Datagram is looked up in the history before it is looked up among
\* the pending ones, which may lie below the floor.
MutantHistoryFirst(k, f) ==
    IF State(k.datagramWindow, f.id) = "retired" THEN "skip"
    ELSE IF f.id \in Pending(k.originals)
         THEN LET a == k.originals.map[f.id]
              IN  CASE a.total # f.total -> "invalid"
                    [] a.total = f.total /\ Due(a, DatagramTimeout) -> "expire"
                    [] OTHER -> Inspect(a, f)
         ELSE IF State(k.datagramWindow, f.id) # "unseen" THEN "skip" ELSE "new"

\* The first phase of AddGroup: what will be done with a fragment.
Plan(k, f) ==
    IF f.id \in Pending(k.originals)
    THEN LET a == k.originals.map[f.id]
         IN  CASE a.total # f.total -> "invalid"
               [] a.total = f.total /\ Due(a, DatagramTimeout) -> "expire"
               [] OTHER -> Inspect(a, f)
    ELSE IF State(k.datagramWindow, f.id) # "unseen" THEN "skip" ELSE "new"

\* Reserve for every new Datagram in turn; a refusal ends it.
ReserveSteps(used, fragments, plan) ==
    LET after[n \in 0..Len(fragments)] ==
            IF n = 0 THEN [used |-> used, taken |-> 0, ok |-> TRUE]
            ELSE LET r == after[n - 1]
                     charge == AssemblyCharge(fragments[n])
                 IN  IF ~r.ok \/ plan[n] # "new" THEN r
                     ELSE IF r.used + charge > Credit THEN [r EXCEPT !.ok = FALSE]
                     ELSE [r EXCEPT !.used = @ + charge, !.taken = @ + charge]
    IN  after

\* Mutant: what was reserved before the refusal stays reserved.
MutantKeepsLeases(r) == r.used

\* Every lease taken before the refusal is released.
RolledBack(r) == r.used - r.taken

ExpireOriginal(k, id) ==
    LET a == k.originals.map[id]
    IN  [k EXCEPT !.datagramWindow = Finish(@, id, "expired"),
                  !.originals = Unlink(@, id),
                  !.used = @ - a.total - LinkCharge,
                  !.ended = @ \cup {<<"datagram", id, "expired">>}]

\* A fragment is copied in; with the last byte the Datagram is delivered and
\* keeps only the credit of its payload.
Insert(k, f) ==
    LET a == k.originals.map[f.id]
        grown == [a EXCEPT !.ranges = @ \cup {[from |-> f.from, to |-> f.to, body |-> f.body]},
                           !.received = @ + Bytes(f)]
    IN  IF grown.received # a.total
        THEN [k EXCEPT !.originals = Put(@, f.id, grown)]
        ELSE [k EXCEPT !.datagramWindow = Finish(@, f.id, "completed"),
                       !.originals = Unlink(@, f.id),
                       !.used = @ - LinkCharge,
                       !.out = Append(@, [id |-> f.id, total |-> a.total, ranges |-> grown.ranges]),
                       !.ended = @ \cup {<<"datagram", f.id, "completed">>}]

\* The last phase of AddGroup for one fragment and its plan.
Commit(k, f, plan) ==
    CASE plan = "expire" -> ExpireOriginal(k, f.id)
      [] plan = "insert" -> Insert(k, f)
      [] plan = "new" ->
            Insert([k EXCEPT !.datagramWindow = Admit(@, f.id),
                             !.originals = Link(@, f.id, [total |-> f.total, age |-> 0,
                                                          ranges |-> {}, received |-> 0])], f)
      [] OTHER -> k

\* The states of the receiver after each fragment of a group is committed.
CommitSteps(k, fragments, plan) ==
    LET after[n \in 0..Len(fragments)] ==
            IF n = 0 THEN k ELSE Commit(after[n - 1], fragments[n], plan[n])
    IN  after

\* AddGroup: [k, err].  Nothing but the balance of the credit may change
\* before it is certain that nothing fails.
AddGroup(k, fragments) ==
    LET plan == [i \in DOMAIN fragments |-> Plan(k, fragments[i])]
        Planned(what) == {i \in DOMAIN fragments : plan[i] = what}
        bad == Planned("invalid") \cup Planned("full")
        count == Cardinality(Pending(k.originals)) + Cardinality(Planned("new"))
                   - Cardinality(Planned("expire"))
        reserved == ReserveSteps(k.used, fragments, plan)[Len(fragments)]
    IN  CASE bad # {} -> [k |-> k, err |-> plan[Min(bad)]]
          [] bad = {} /\ count > MaxDatagrams -> [k |-> k, err |-> "full"]
          [] bad = {} /\ count <= MaxDatagrams /\ ~reserved.ok ->
                [k |-> [k EXCEPT !.used = RolledBack(reserved)], err |-> "full"]
          [] OTHER -> [k |-> CommitSteps([k EXCEPT !.used = reserved.used],
                                         fragments, plan)[Len(fragments)],
                       err |-> "none"]

----------------------------------------------------------------------------
(* Controller: pending groups                                              *)

ReleaseGroup(k, id) ==
    LET g == k.groups.map[id]
    IN  [k EXCEPT !.groups = Unlink(@, id),
                  !.decodedGroups = IF g.decoded THEN @ - 1 ELSE @,
                  !.used = @ - g.lease]

ExpireGroup(k, id) ==
    [ReleaseGroup(k, id) EXCEPT !.groupWindow = Finish(@, id, "expired"),
                                !.ended = @ \cup {<<"group", id, "expired">>}]

\* admitOriginals: under resource pressure the group waits, under its own deadline.
AdmitOriginals(k, id) ==
    LET added == AddGroup(k, Sent(id))
    IN  CASE added.err = "full" -> [k |-> [added.k EXCEPT !.retryWait = TRUE], err |-> "none"]
          [] added.err = "invalid" -> [k |-> ExpireGroup(added.k, id), err |-> "invalid"]
          [] OTHER -> [k |-> [ReleaseGroup(added.k, id) EXCEPT
                                 !.groupWindow = Finish(@, id, "completed"),
                                 !.ended = @ \cup {<<"group", id, "completed">>}],
                       err |-> "none"]

\* Codec.Decode: enough shards always give back what was encoded; the manifest
\* must be canonical.
Decodes(id) ==
    \A i \in DOMAIN Sent(id) :
        LET f == Sent(id)[i]
        IN  /\ f.id > IF i = 1 THEN 0 ELSE Sent(id)[i - 1].id
            /\ f.from <= f.to /\ f.to <= f.total
            /\ (f.from = f.to => f.total = 0)

\* The shard that makes a group decodable.
Decode(k, id) ==
    IF ~Decodes(id) THEN [k |-> ExpireGroup(k, id), err |-> "invalid"]
    ELSE AdmitOriginals([k EXCEPT !.groups = Put(@, id, [k.groups.map[id] EXCEPT
                                      !.shards = {}, !.decoded = TRUE, !.lease = DecodedCharge]),
                                  !.decodedGroups = @ + 1,
                                  !.used = @ - GroupCharge + DecodedCharge], id)

\* reserveGroup and insertGroup.
CanReserveGroup(k) ==
    Cardinality(Pending(k.groups)) < MaxPendingGroups /\ k.used + GroupCharge <= Credit

NewGroup(k, id) ==
    [k EXCEPT !.used = @ + GroupCharge,
              !.groupWindow = Admit(@, id),
              !.groups = Link(@, id, [age |-> 0, shards |-> {}, decoded |-> FALSE,
                                      lease |-> GroupCharge])]

\* A record of a group that is pending.
Gather(k, r) ==
    LET g == k.groups.map[r.id]
        grown == [k EXCEPT !.groups = Put(@, r.id, [g EXCEPT !.shards = g.shards \cup {r.shard}])]
    IN  CASE Due(g, GroupTimeout) -> [k |-> ExpireGroup(k, r.id), err |-> "none"]
          [] ~Due(g, GroupTimeout) /\ g.decoded -> AdmitOriginals(k, r.id)
          [] ~Due(g, GroupTimeout) /\ ~g.decoded /\ r.shard \in g.shards -> [k |-> k, err |-> "none"]
          [] OTHER -> IF Cardinality(grown.groups.map[r.id].shards) < scenario.dataShards
                      THEN [k |-> grown, err |-> "none"]
                      ELSE Decode(grown, r.id)

\* One record of a bundle; an error ends the bundle.  On a retired route
\* (restricted) no new group begins.
ReceiveRecord(s, r, restricted) ==
    CASE s.err # "none" -> s
      [] s.err = "none" /\ r.id \in Pending(s.k.groups) -> Gather(s.k, r)
      [] OTHER -> IF restricted \/ State(s.k.groupWindow, r.id) # "unseen" THEN s
                  ELSE IF ~CanReserveGroup(s.k) THEN [s EXCEPT !.err = "full"]
                  ELSE Gather(NewGroup(s.k, r.id), r)

\* expireGroups and originals.Expire: from the head of the list while it is due.
ExpireGroups(k) ==
    LET after[n \in 0..Cardinality(Pending(k.groups))] ==
            IF n = 0 THEN k
            ELSE LET p == after[n - 1]
                 IN  IF p.groups.head # 0 /\ Due(p.groups.map[p.groups.head], GroupTimeout)
                     THEN ExpireGroup(p, p.groups.head) ELSE p
    IN  after[Cardinality(Pending(k.groups))]

ExpireOriginals(k) ==
    LET after[n \in 0..Cardinality(Pending(k.originals))] ==
            IF n = 0 THEN k
            ELSE LET p == after[n - 1]
                 IN  IF p.originals.head # 0 /\ Due(p.originals.map[p.originals.head], DatagramTimeout)
                     THEN ExpireOriginal(p, p.originals.head) ELSE p
    IN  after[Cardinality(Pending(k.originals))]

\* Receiver.Close and the loop of FinalizeClose over the groups: all of them go,
\* the groups in the order of a Go map, which leaves no trace in what remains.
CloseOriginals(k) ==
    LET after[n \in 0..Cardinality(Pending(k.originals))] ==
            IF n = 0 THEN k ELSE ExpireOriginal(after[n - 1], after[n - 1].originals.head)
    IN  after[Cardinality(Pending(k.originals))]

CloseGroups(k) ==
    LET after[n \in 0..Cardinality(Pending(k.groups))] ==
            IF n = 0 THEN k ELSE ReleaseGroup(after[n - 1], after[n - 1].groups.head)
    IN  after[Cardinality(Pending(k.groups))]

\* retryGroups goes over the decoded groups in the order of a Go map, which is any.
\* The sending half sets retryStorage too, which only puts the retry off.
RetryOrders(k) ==
    LET decoded == {id \in Pending(k.groups) : k.groups.map[id].decoded}
    IN  IF k.decodedGroups = 0 \/ k.retryWait THEN {<<>>}
        ELSE {order \in [1..Cardinality(decoded) -> decoded] : IsInjective(order)}

\* An error of one group ends the retry.
RetrySteps(k, order) ==
    LET after[n \in 0..Len(order)] ==
            IF n = 0 THEN [k |-> k, err |-> "none"]
            ELSE IF after[n - 1].err # "none" THEN after[n - 1]
            ELSE AdmitOriginals(after[n - 1].k, order[n])
    IN  after

RetryGroups(k, order) == RetrySteps(k, order)[Len(order)].k

\* Mutant: only what is decoded arms the timer for groups.
MutantDecodedOnly ==
    \/ rx.decodedGroups # 0 /\ ~rx.retryWait
    \/ rx.originals.head # 0 /\ Due(rx.originals.map[rx.originals.head], DatagramTimeout)

\* NextDeadline has come: a group or a Datagram is over, or a retry is due.
TimerDue ==
    \/ rx.groups.head # 0 /\ Due(rx.groups.map[rx.groups.head], GroupTimeout)
    \/ rx.decodedGroups # 0 /\ ~rx.retryWait
    \/ rx.originals.head # 0 /\ Due(rx.originals.map[rx.originals.head], DatagramTimeout)

----------------------------------------------------------------------------
Init ==
    /\ scenario \in Scenarios
    /\ rx = [groups |-> Empty, groupWindow |-> NewWindow(GroupSpan), decodedGroups |-> 0,
             originals |-> Empty, datagramWindow |-> NewWindow(DatagramSpan),
             used |-> 0, retryWait |-> FALSE, closed |-> FALSE,
             out |-> <<>>, ended |-> {}]
    /\ held = {}
    /\ delivered = <<>>
    /\ fates = {}

\* A call returns: its deliveries go to the runtime, which owns their leases.
Return(k) ==
    /\ rx' = [k EXCEPT !.out = <<>>, !.ended = {}]
    /\ held' = held \cup {[id |-> d.id, total |-> d.total] : d \in Range(k.out)}
    /\ delivered' = delivered \o k.out
    /\ fates' = fates \cup k.ended
    /\ UNCHANGED scenario

\* Receive of a FEC bundle.
RecordSteps(k, bundle, restricted) ==
    LET after[n \in 0..Len(bundle)] ==
            IF n = 0 THEN [k |-> k, err |-> "none"]
            ELSE ReceiveRecord(after[n - 1], bundle[n], restricted)
    IN  after

ReceiveBundle(bundle, restricted) ==
    /\ ~rx.closed
    /\ \E k \in {RecordSteps(rx, bundle, restricted)[Len(bundle)].k} : Return(k)

\* The part of Advance that is about receiving; the rest is SendPipelineV2's and
\* PathJoinV2's.
Advance ==
    /\ ~rx.closed
    /\ \E k \in {ExpireOriginals(ExpireGroups(rx))} :
          \E order \in RetryOrders(k) : Return(RetryGroups(k, order))

\* The reader takes a Datagram, or the runtime drops it: Datagram.Release.
Release(d) ==
    /\ d \in held
    /\ held' = held \ {d}
    /\ rx' = [rx EXCEPT !.used = @ - d.total]
    /\ UNCHANGED <<scenario, delivered, fates>>

\* FinalizeClose: the Datagrams delivered stay the reader's.
Close ==
    /\ ~rx.closed
    /\ \E k \in {CloseGroups(CloseOriginals(rx))} :
          /\ rx' = [k EXCEPT !.closed = TRUE, !.ended = {},
                             !.groupWindow = NewWindow(GroupSpan),
                             !.datagramWindow = NewWindow(DatagramSpan)]
          /\ fates' = fates \cup k.ended
    /\ UNCHANGED <<scenario, held, delivered>>

Older(list, timeout) ==
    [list EXCEPT !.map = [id \in Pending(list) |->
                             [list.map[id] EXCEPT !.age = Min({@ + 1, timeout})]]]

Tick ==
    /\ rx' = [rx EXCEPT !.groups = Older(@, GroupTimeout),
                        !.originals = Older(@, DatagramTimeout),
                        !.retryWait = FALSE]
    /\ rx' # rx
    /\ UNCHANGED <<scenario, held, delivered, fates>>

Records == [id : GroupIDs, shard : Shards]
Bundles == UNION {[1..n -> Records] : n \in 1..scenario.records}

Next ==
    \/ \E bundle \in Bundles, restricted \in BOOLEAN : ReceiveBundle(bundle, restricted)
    \/ Advance
    \/ \E d \in held : Release(d)
    \/ Close
    \/ Tick

Spec == Init /\ [][Next]_vars

\* Time passes while anything waits for it, and the runtime calls Advance once
\* NextDeadline has come.
FairSpec ==
    /\ Spec
    /\ WF_vars(Tick)
    /\ WF_vars(TimerDue /\ Advance)

----------------------------------------------------------------------------
(* Properties                                                              *)

\* The list threads every entry once, in the order of admission, so its head
\* is the entry that is over first.
Threaded(list) ==
    LET n == Cardinality(Pending(list))
        at[i \in 0..n] == IF i = 0 THEN list.head
                          ELSE IF at[i - 1] \in Pending(list) THEN list.next[at[i - 1]] ELSE 0
    IN  /\ at[n] = 0
        /\ {at[i] : i \in 0..n} \ {0} = Pending(list)
        /\ \A id \in Pending(list) : list.next[id] # 0 =>
              /\ list.previous[list.next[id]] = id
              /\ list.map[id].age >= list.map[list.next[id]].age
        /\ list.tail = (IF n = 0 THEN 0 ELSE at[n - 1])

TypeOK ==
    /\ rx.used \in 0..Credit
    /\ rx.decodedGroups \in 0..MaxPendingGroups
    /\ Cardinality(Pending(rx.groups)) <= MaxPendingGroups
    /\ Cardinality(Pending(rx.originals)) <= MaxDatagrams
    /\ rx.out = <<>> /\ rx.ended = {}

\* Every unit of credit is that of a pending group, of a Datagram being
\* reassembled or of one the reader holds, also after an admission that failed
\* half way; the number of decoded groups, which arms the retry, the counts of
\* both rings and the threads of both lists are exact.
BooksExact ==
    /\ TypeOK
    /\ rx.used = MapThenSumSet(LAMBDA id : rx.groups.map[id].lease, Pending(rx.groups))
                   + MapThenSumSet(LAMBDA id : rx.originals.map[id].total + LinkCharge,
                                   Pending(rx.originals))
                   + MapThenSumSet(LAMBDA d : d.total, held)
    /\ rx.decodedGroups = Cardinality({id \in Pending(rx.groups) : rx.groups.map[id].decoded})
    /\ \A w \in {rx.groupWindow, rx.datagramWindow} :
          /\ w.completedCount = Cardinality(w.completed)
          /\ w.expiredCount = Cardinality(w.expired)
          /\ w.completed \cap w.expired = {}
    /\ Threaded(rx.groups) /\ Threaded(rx.originals)

\* A Datagram reaches the reader at most once, never after it expired, and
\* only with every one of its bytes from exactly one fragment: whatever
\* duplicates, late groups and groups below the floor arrive.  For that, what a
\* ring remembers is what happened to that very ID, never to one that had its
\* position before, and nothing that is over is pending again.
DeliveredOnce ==
    /\ \A i, j \in DOMAIN delivered : delivered[i].id = delivered[j].id => i = j
    /\ \A i \in DOMAIN delivered :
          /\ <<"datagram", delivered[i].id, "expired">> \notin fates
          /\ \A b \in 0..(delivered[i].total - 1) :
                Cardinality({r \in delivered[i].ranges : r.from <= b /\ b < r.to}) = 1
    /\ \A kind \in {"group", "datagram"} :
           LET w == IF kind = "group" THEN rx.groupWindow ELSE rx.datagramWindow
               pending == Pending(IF kind = "group" THEN rx.groups ELSE rx.originals)
           IN  \A id \in 1..w.highest :
                  /\ State(w, id) \in {"completed", "expired"} => <<kind, id, State(w, id)>> \in fates
                  /\ <<kind, id, "completed">> \in fates \/ <<kind, id, "expired">> \in fates =>
                        State(w, id) # "unseen" /\ id \notin pending

\* A group is completed only when none of its fragments is lost: each is in
\* its Datagram, or its Datagram is over or below the floor.
NoFragmentLost ==
    rx.closed \/ \A id \in GroupIDs : <<"group", id, "completed">> \in fates =>
        \A f \in Range(Sent(id)) :
            \/ <<"datagram", f.id, "completed">> \in fates
            \/ <<"datagram", f.id, "expired">> \in fates
            \/ State(rx.datagramWindow, f.id) = "retired" /\ f.id \notin Pending(rx.originals)
            \/ /\ f.id \in Pending(rx.originals)
               /\ \E r \in rx.originals.map[f.id].ranges : r.from = f.from /\ r.to = f.to

\* Nothing waits for ever: every group and every Datagram completes or
\* expires, and none comes back.
Quiesces == <>[](Pending(rx.groups) = {} /\ Pending(rx.originals) = {})

=============================================================================
