# A TLA+ verification project for mpudp

mpudp carries Datagrams of one Session over several UDP paths at once. Each
Datagram is split into k data and r parity shards that travel on different
paths; any k of them restore it. The library has two protocol versions. Version
1 (`internal/fec`, `internal/session`, `peer_runtime.go`) and version 2
(`internal/*v2`, `peer_v2*.go`) share the transport.

This directory models the program from its code, checks the models on small
instances with TLC, and proves with TLAPS, for all instances, the safety
properties of nine of them: the v1 receive path, Session controller and Peer
runtime, the sockets, and of version 2 the credit ledger, the handshake with its
negotiation, the path join, the sending half of a Session and the Peer runtime.
`PROJECT.json` lists components, runs, hazards and, for every definition, the lines
of code it stands for.

## 1. Inventory

### Parts of version 1

| Part | Code | State | Operations | What makes it correct |
|---|---|---|---|---|
| FEC decoder | `internal/fec/decoder.go`, `limits.go`, `expiry_heap.go` | map of pending blocks, expiry heap, totals, replay window | `AddVerifiedShard`, `Sweep`, `Close` | a Datagram is delivered at most once; no undelivered one is called a duplicate; memory is bounded; every block is resolved |
| Replay window | `internal/fec/replay_window.go` | ring of bits, highest ID, count | `tooOld`, `contains`, `admit`, `complete` | behaves as the set of delivered IDs among the last 65536 |
| Session controller | `internal/session/session.go` | handshake state, carriers, Endpoint pool, probes, deadlines | `Start`, `HandlePacket`, `Advance`, `WritePacket`, `SetPathHealthy`, `Close` | the handshake ends, failure is final, closing leaves nothing, no deadline is lost or left overdue, carriers always find a place in the pool |
| Session registry | `internal/session/listener.go` | Session ID -> controller | `HandlePacket`, `Close`, `removeSession` | bounded, no dead entry |
| Peer runtime | `peer_runtime.go`, `peer.go` | `sessions`, `inbound`, Accept queue, close flags, construction | `NewSession`, `Accept`, `WritePacket`, `Close` of Session, Listener and Peer, the dispatcher | the tables agree, limits hold, closing is complete, waits for what is in flight and returns |
| Encoder, scheduler, block send | `internal/fec/encoder.go`, `internal/scheduler`, `internal/transport/send_block.go` | next PacketID, rotation | `Encode`, `Next`, `SendBlock` | IDs never repeat, one shard per path and turn |
| Carriers, UDP listener | `internal/transport` | socket generations | `Rebuild`, `Send`, read loop, `Close` | a retired generation neither sends nor delivers |

### Parts of version 2

| Part | Code | State | Operations | What makes it correct |
|---|---|---|---|---|
| Negotiation | `internal/negotiationv2` | none: profiles and contracts are values | `Validate`, `Select`, `Accept`, `EffectiveSend` | refuses exactly what cannot work; what one side derives from a contract the other accepts |
| Handshake engine | `internal/handshakev2` | attempts by SessionID, dials, preparations, rejection cache, leases | `BeginDial`, `PrepareDial`, `Receive`, `Advance`, `CancelDial`, `CloseSession`, `Close` | both sides mean one Session, everything reserved is given back once, nothing waits for ever |
| Session controller, sending | `internal/sessionv2/send_*.go`, `controller.go`, `internal/aggregationv2`, `internal/fecv2` | queue, sealed group, shards, slots, control retries, fences | `Write`, `Flush`, `TakeSend`, `CompleteSend`, `Advance`, `FailPath`, closing | fences tell the truth and settle, late completions count where they belong |
| Session controller, paths | `internal/sessionv2/control.go` | generations, routes, epochs, budgets, contexts | `Join`, `Receive`, `Advance`, `FailPath` | the initiator is never ahead of its peer, generations rise, exchanges end |
| Session controller, receiving | `internal/sessionv2/data.go`, `internal/reassemblyv2`, `internal/recvwindow` | pending groups and Datagrams, expiry lists, two rings, credit | `Receive`, `AddGroup`, `Expire`, `Release`, `Close` | delivered once and whole, credit exact, nothing pending for ever |
| Credit ledger | `internal/creditv2` | usage of Peer and Sessions, slots, leases | `BeginHandshake`, `Promote`, `Reserve`, `BindBytes`, `Transfer`, `MarkAccepted`, `ShrinkBytes`, `Release`, two `Close`s | every usage is the sum of the leases held, no ceiling is passed, slots come back once |
| Peer runtime | `peer_v2*.go` | one mutex around engine, tables and controllers; channels | `NewSession`, `Accept`, `WritePacket`, `Flush`, `CloseGracefully`, `ReadPacket`, three `Close`s, the dispatcher | closing is complete at any point, no Session is stranded, no wake-up lost, calls return |

### How they interact

One goroutine per Peer, the *dispatcher* (`Peer.run`), takes packets from the
ingress queue, transport failures and the earliest deadline, and calls the
registry and the controllers. Callers' goroutines run `NewSession`,
`WritePacket`, `Accept` and the three `Close`s. Controllers plan packets under
their lock and send them after it, so a send ends in a state that may not be the
one it was planned in. A controller tells the registry that it has closed by a
callback; the registry and the Peer have a table and a lock each.

In version 2 one mutex covers a Peer's engine, tables and controllers, so their
calls are serialized; what interleaves is what happens outside it: callers that
sleep in channels, constructors that open sockets, the dispatcher between
computing a deadline and its `select`, sends a worker takes and completes
later, and of course the two ends of a Session. The engine hands an authenticated
Setup with a contract and prepaid leases to the runtime, which makes a
controller of it; the controller exchanges path, budget and context frames with
its peer before it sends groups, and every byte it retains is a lease of the
ledger.

### What is hard

Steps of a `Close` interleaved with the dispatcher; state that leaves two tables
one after the other; waits that form a chain (Peer, Listener, Session,
constructor, dispatcher); timeouts that race late answers; packets in any order,
repeated or lost; ring arithmetic; limits that are tested in one place and used
in another. `PROJECT.json` lists each at its line under `hazards`.

## 2. Modules

| Module | Models | Notes |
|---|---|---|
| `WindowExtent` | which IDs the replay window covers (`tooOld`) | extended by the next two |
| `ReplayWindow` | the promise of the replay window: a set of IDs | abstract specification |
| `ReplayRing` | the bitmap of `replay_window.go` | refines `ReplayWindow` |
| `FecDecoder` | `decoder.go` on top of `ReplayWindow` | one action per return of `AddVerifiedShard` |
| `FecDecoderProofs` | theorems about `FecDecoder` | TLAPS |
| `SessionV1` | one controller, either role | the remote side and the network are its environment |
| `SessionSocketProofs` | theorems about `SessionV1` and `SocketLifecycle` | TLAPS |
| `PeerRuntime` | the runtime and the registry with all goroutines | controllers reduced to open, closing, closed |
| `PeerRuntimeProofs` | theorems about `PeerRuntime` | TLAPS |
| `CreditLedger` | the v2 ledger of retained bytes, streams and Session slots | one action per operation, all under one lock |
| `SessionFlowV2Proofs` | theorems about `CreditLedger` and `SendPipelineV2` | TLAPS |
| `SocketLifecycle` | carriers and UDP listeners: Rebuild, Close, sends, read loops | shared by both versions |
| `NegotiationV2` | profiles, contracts, and what controllers make of them | operators only |
| `HandshakeV2` | both handshake engines and the network between them | composes `NegotiationV2` |
| `HandshakeV2Proofs` | theorems about `HandshakeV2` and lemmas about `NegotiationV2` | TLAPS |
| `SendPipelineV2` | the sending half of a v2 controller with its queue | the other end's answers are its environment |
| `PathJoinV2` | control frames of one path, both controllers and the network | |
| `PathJoinV2Proofs` | theorems about `PathJoinV2` | TLAPS |
| `ReceiveV2` | the receiving half of a v2 controller with reassembly and windows | the other end is a table of groups |
| `ReceiveV2Proofs` | theorems about `ReceiveV2` | TLAPS |
| `PeerV2` | the v2 runtime with all goroutines | engine and controllers reduced to what the modules above show |
| `PeerV2Proofs` | theorems about `PeerV2` | TLAPS |
| `MC*` | instances for TLC | |

The v2 controller is one object in the code. It is modelled in three views that
share little state: what paths there are and what was acknowledged
(`PathJoinV2`), what is sent over them (`SendPipelineV2`), and what arrives
(`ReceiveV2`).

**FecDecoder.** `pending`, `pendingExpiry`, `pendingShards`, `pendingBytes` and
`closed` are the fields of `Decoder`; `started`, `highest` and `completed` those
of `replayWindow`; `deliveries` is a history of `OutcomeComplete`. The call
sweeps first, so every outcome after validation applies `Swept` before it
does anything else. A pending block has at least one shard, so the empty block
stands for "not in the map". The heap is the set of its entries: its order only
decides in which order due entries are popped. Reed-Solomon is a choice between
`Complete` and `DecodeFails`. Time is relative: a block has `ttl` ticks left.

**ReplayRing.** `bits` holds ring positions; `ClearLoop` is the loop over words.
Its owner is the decoder: only IDs that are neither pending, too old nor
completed are admitted, and only pending ones completed. `RefinesWindow` maps
the ring to the set `{id : RingContains(id)}`. The window and the word have 65536
and 64 bits in the code; the model takes any multiple of any word length.

**SessionV1.** A path is a carrier of an initiator or a remote address of a
listener. `plans` are the packets the dispatcher has planned and not yet sent
(it does nothing else until they are sent), `startPlans` those of the
constructor running `Start`, `writing` the paths of a `WritePacket`. All three
sends may fail after the Session has changed or closed. Deadlines are times left;
`Never` is the zero time. Payload, RTT, tokens and jitter are left out: a PONG
either answers the probe outstanding on its path or changes nothing, and
a compatible and an incompatible handshake differ only in that the second is
refused without effect. The model sweeps Endpoints wherever the code does, which
is at the start of `Advance`, `WritePacket` and of learning an Endpoint.

**PeerRuntime.** Every `Close` is a `sync.Once`, so its progress is state of the
thing closed: `ctlClose` of a controller, `wrapClose` of a wrapper, `listener`
and `peer` records with what is left to close. `dispatcher` is where the
dispatcher is, with the controller and wrapper it holds. Steps are cut where the
code releases a lock or blocks: a packet looks its controller up under the
registry's lock and is handled under the controller's, and a CLOSE packet marks the
controller closed under its lock, releases it and only then takes the controller out
of the registry. `parentDone` is the context given to `NewPeerContext`. A wrapper is made only for a new controller, so
both have the same number; a HELLO chooses the next free number. A wrapper's
`owner` field decides who removes it, the closer or a failing constructor.
The close timeout is modelled where it changes what is closed: waiting for a
constructor (`timedOut`).

**CreditLedger.** `peerUsage`, `slots`, `pendingHandshakes`, `established`,
`peerClosed` and `sessions` are the fields of `peerState`; `usage`, `pending`,
`closed` and `retired` those of `sessionState`, `owner`, `claim`,
`acceptReserved` and `bound` those of `leaseState`, with `live` and `released`
for a lease that is held or was. Calls that return an error change nothing and
are no steps. `Retire` takes the set of scopes an operation retires: the Peer's
Close goes through its map in any order, and no order matters. Bytes are unsigned
in the code; the ceilings together with `BytesExact` show that no difference
taken there wraps.

**SocketLifecycle.** `conns` is the sequence of sockets ever opened, each with the
place of its read loop, its count of active senders and callbacks (the
WaitGroup), the holder of its write lock and whether a write deadline is set;
`current`, `nextGen`, `closed`, `lifecycle` and `closeDone` are the carrier's
fields. A listener is a carrier that is never rebuilt. Steps are cut where a goroutine leaves the
state lock, dials, waits for the WaitGroup or the loop, or calls its owner.
The context callback of a send, which moves the write deadline, runs beside it.

**NegotiationV2.** A profile is a record with sets for capabilities; `Validate`,
`Accept`, `Select`, `EffectiveSend` are the functions of those names, `Supported`,
`Constructs` and `Context` what `sessionv2.New` tests and derives,
`AcceptsBudget` and `AcceptsContext` the checks of the controller that receives
the result. `Profile` is the set of all profiles. Stream limits and the wording of
refusals are left out.

**HandshakeV2.** An engine is a record, and every public method maps one record
to the next; packets a call emits go into the set `msgs`, from which
any may be delivered at any time, again or never. A carrier's number stands for the SessionID of its
attempt and its path, a nonce for transcript and keys. `att` are the sessions of
the engine, `dial` the dial, `res` what each owner holds: scope, packet lease and
storage (three leases that move together), and the disposer. How many attempts a
call starts before one fails (`starts`) and whether the ledger grants a
reservation (`admit`) are choices; `admit` also needs a valid contract.
`FailAttempts`, `ReleasePackets`, `Retire` and `Retransmit` take the set of attempts
that a call ends or repeats: the code goes through its map one by one, in any order,
and what it does for one attempt leaves the others alone. `Restart`
loses the responder's memory; `installed` is a history of both.

**SendPipelineV2.** `ctl` is the controller. A Datagram is its number and size, and
`Plan` decides what a group takes, as `planLocked` does. `retry` holds
the control transactions with their identity and version, `slots` the sends that
workers have taken, `out` the sealed group with the state of each shard. Between
two calls any time may pass, so a call chooses what has become due, stale or late
(`Passed`), and whether `retryStorage`, which the receiving half moves as well, is
still ahead, so that nothing is sent. Every call ends in `Drive`, as in the code. With `owned` FALSE sends
happen in the call, which is how the runtime uses it.

**PathJoinV2.** `e` holds the controllers of both ends for one path: generation
and floor, send and receive epochs, the retired route with its grace, the join,
budget and context transactions with sends and times left, and queued replies.
`net` is the set of messages sent. A call emits at most one packet on a path
(pacing), which is why `Drive` picks one. `gone` remembers routes an end gave up
by failing the path.

**ReceiveV2.** `rx` is the receiver: two maps with their expiry lists as links,
two rings with the arithmetic of `recvwindow`, `used` credit. `AddGroup` plans,
reserves one Datagram at a time, rolls back on the first refusal and commits.
Groups are the inputs, and a scenario says what they hold, well-formed or
not. The sending half of the controller sets the same `retryStorage`; that can only
put a retry off, and is left out. `fates` and `delivered` are histories.

**PeerV2.** Each section under `r.mu` is one step. What the mutex protects is kept by
Session: the record `sessions[s]` holds the wrapper, the engine's attempt, what each
table of the Peer has for `s`, and the places its callers are at. A loop over
Sessions (Close of the Listener or the Peer, a lost socket, the driver's pass)
changes all their records in one step, each on its own. `turn` orders the Accept
queue. `listener` and `peer` are their flags and contexts, `calls` the places of
Accept and of the two Closes; `driver`, `armed` and `wake` are the dispatcher's loop,
its timer and the one-token channel. The engine keeps one attempt per dial at a
time, and a controller how many Datagrams it admitted and completed. `cutOff` has the
Sessions whose last sockets failed while the ingress queue was full: their controllers
have no path, hence no deadline, until some operation finds out.

## 3. Runs

| Run | Instance | Distinct states | Shows |
|---|---|---|---|
| `FecDecoder` | IDs 0..3, window 2, k = 3, n = 4, two lengths, limit 2, timeout 2 | 23 267 | at most once, no false duplicate, exact books, every block resolved |
| `ReplayRing` | IDs 0..9, ring of 4 bits in words of 2 | 10 327 | the bitmap implements the set |
| `PeerRuntime` | an inbound and an outbound Session for 1 place; 2 inbound ones for 2; either under a parent context that ends | 729 163 | tables, draining, the three Closes, Peer close returns |
| `AcceptOnce` | 1 wire ID, 2 controllers | violation | the finding of section 6 |
| `CreditLedger` | 3 scopes, 4 leases, 4 claims, 2 slots, 1 handshake, 1 accept, 2 streams, 3 reservations, 5 bytes (3 a Session) | 157 808 up to symmetry | exact usage, slots that come back once |
| `SessionV1` | 2 paths, 1 rebuild, 1 writer, 2 attempts, intervals of 1 | 326 295 | handshake, pool, deadlines, probes, Close |
| `HandshakeV2` | a race of 2 carriers, a prepared dial with fallback, a restart, and 144 pairs of profiles | 313 098 | agreement, ownership, contracts, everything settles |
| `SendPipelineV2` | 2 paths, 2 shards, 2 slots, Datagrams of 0 and 4 bytes in groups of 3 | 188 495 | honest fences, exact sends, fences settle |
| `PathJoinV2` | 2 tuples, up to 2 joins and 1 failure, 2 sends a transaction | 162 984 | no side ahead, routes accepted, generations rise, exchanges end |
| `ReceiveV2` | 5 tables of groups, spans of 3 in words of 2, credit 9 | 5 041 | delivered once and whole, exact credit, nothing lost or stuck |
| `SocketLifecycle` | 4 casts of up to 2 rebuilders, 2 closers, 2 senders | 26 201 | returned means silent, calls return, failures are reported |
| `PeerV2` | 1 outbound Session with 2 carriers, 2 inbound ones, queues of 1 | 80 583 | complete closing, nobody stranded, no lost wake-up, calls return |

A module with several scenarios has them as a constant set; Init picks one, so one
run covers them all and none pays for the product of their features.

The properties, in words:

* `AtMostOnce`, `NoFalseDuplicate`: the two sides of deduplication. The hard case
  is a block that completes after the window moved past it: no bit can be
  kept for it, and only the floor stops late shards.
* `CountersExact`, `PendingResolved`: the types, the limit, heap and map, and the
  totals agree after every operation, and what is retained goes away.
* `RefinesWindow`: a reused slot never speaks for an older ID; with it, the count
  of bits is exact.
* `TablesAgree`: an inbound Session enters and leaves two tables under two locks
  without either keeping a ghost or passing the limit, and a closed controller
  stays registered only while its Close runs or the dispatcher, having taken the
  remote's CLOSE, is about to remove it.
* `DrainedWhenClosed`, `NothingOutlivesListener`, `PeerCloseIsComplete`,
  `PeerCloseReturnsEventually`: the three Closes of version 1. A Close that waits
  for a send is not done while it runs. After Listener.Close no inbound Session is
  in a table or open, whatever the dispatcher had in hand. After Peer.Close the
  dispatcher has stopped, no controller is open, no WritePacket runs, and no socket
  is open but those of a construction that outlasted the timeout.
* `EndedIsOver`, `CarrierNeverRefused`, `AdvanceClearsDue`, `HandshakeSettles`,
  `PathsAreProbed`: the v1 controller.
* `CountsExact`, `BytesExact`, `SlotsExact`: the ledger. What a lease gives back
  is what it holds then, which acceptance and shrinking have changed since it was
  charged, to the scope that owns it then. Ceilings are part of the first two.
* `Agreement`: an initiator installs only what the responder installed before it,
  a dial yields one Session, a responder installs a SessionID once even across a
  restart, and the retry budget always leaves the decisive packet.
* `ResourcesOwned`: pending counts, and one owner for every scope, lease and
  disposer, each given back once.
* `ContractsKept`: negotiation refuses exactly the pairs a direct definition
  calls incompatible, and no Session of this version comes up whose controllers
  then refuse the contract, the budget or the context.
* `Settles`: every attempt is established or gone in the end.
* `FencesHonest`, `SendsExact`, `FencesSettle`: a fence neither passes a waiting
  Datagram nor hides a lost shard; a completion is counted once in its path, shard
  and transaction, also when the path joined again. A forced fence settles if the
  timer gets through, unless every sender is gone and nobody was told: what is
  checked is that the controller always has a deadline, a send in flight or a
  report to wait for.
* `ResponderCommitsFirst`, `PeerAccepts`, `GenerationsRise`, `ExchangesEnd`: the
  join, what each end may rely on, and the end of every exchange.
* `BooksExact`, `DeliveredOnce`, `NoFragmentLost`, `Quiesces`: receiving, with
  an admission that fails half way.
* `ReturnedMeansSilent`, `SocketCallsReturn`, `FailureReported`: sockets.
* `ClosedHoldsNothing`, `NothingStranded`, `NoLostWakeup`, `CallsReturn`: the v2
  runtime. NewSession and the Closes return whatever happens. A fence call returns if
  the timer serves its Session (`TimerServes`), unless the Session stays forgotten
  (`Forgotten`): cut off, with no timer armed and nobody closing it. Both exceptions are
  real, and TLC finds the behaviour when either is dropped.

Type invariants are conjuncts of one property of each module.

Every property has a mutant in `PROJECT.json`: a definition of the model changed
the way a plausible mistake would change the code, which TLC must reject.

### Why the bounds are enough

* A window of 2 over 4 IDs lets it move past delivered, pending, expired and
  never-seen IDs, by one, by two and over its whole length. With k = 3 a
  pending block holds one or two shards, so that sweeps, failures and
  completions give back different amounts; one of the four shards never arrives.
  Two lengths, with shards of one and two bytes, reach inconsistent shards;
  each way to be invalid has one shard. Shards of equal and of different bytes at
  one index have the same effect on the state
  (`AnswerDuplicateOrConflict`), so one payload is enough.
* Two words of two bits have every kind of start and end within and across
  words; IDs go round the ring more than twice.
* `PeerRuntime` has four scenarios. `Competing` lets one inbound and one outbound
  Session meet in the shared limit and in Peer close; `Inbounds` has two inbound
  ones that fill two places and an Accept queue of one; in the two of `Abandoned`
  the parent context ends under one Session of either kind. The successor of an ID,
  two controllers over one wire ID, is the instance of `AcceptOnce`.
* One rebuild makes a carrier's old and new Endpoint meet in a full pool of two.
  With every interval 1 all deadlines can fall due together or apart, since
  packets refresh them at any tick. Only a listener's controller has a writer: what
  an initiator's failing `WritePacket` does to it is what `PathFails` does.
* In the ledger every limit is reached and tested: a third scope meets two slots,
  a fourth lease three reservations. One lease more than reservations lets a
  released handle exist next to a full ledger.
* `HandshakeV2`: two carriers are the smallest race and the smallest fallback. A
  lifetime of two retry intervals with two (three with a restart) sends lets an
  attempt retry, run out of sends before its deadline and expire with an answer
  under way. `MaxNonce` 2 gives an expired responder attempt one successor. The
  profiles contain both ends of the UDP range, one descriptor, the smallest
  group, fewer paths than carriers, and capabilities this version does not know.
* `SendPipelineV2`: a Datagram of 4 bytes takes two groups of 3 with one byte of
  descriptor, so a fence spans groups and a group spans Datagrams. Two slots and
  two paths let a completion come after a join, and two sends per transaction
  reach the exhausted retry.
* `PathJoinV2`: two moves with one retired route kept (`MaxOldEpochs` 1) reach a
  third generation while the first is still within its grace.
* `ReceiveV2`: a span of 3 in words of 2 is no multiple of the word, and IDs up
  to 6 go round twice. Credit 9 is less than two groups and two Datagrams need.
* `SocketLifecycle`: two rebuilders and two closers give a Rebuild that finds the
  carrier closed, or replaced; a send races one of each.
* `PeerV2`: two carriers are one failed attempt and its successor; two remote
  initiators compete for one place on the Accept queue. Five scenarios share out the
  callers; in two of them the parent context may end.

`CHECK_DEADLOCK FALSE` appears where the system may stop: a closed controller,
engine, carrier or v2 Peer, a ring whose IDs are used up, a ledger whose handles are.
`PeerRuntime` has deadlock checking on; only a Peer whose Close has returned may
rest (`Terminated`). Everywhere else a liveness property says what must not
be left waiting.

## 4. Fairness

* `FecDecoder`: time passes, and `Sweep` is called again and again, because
  `Advance` re-arms `nextDecodeSweep` after each sweep and the driver waits for
  the earliest deadline.
* `SessionV1`: sends end (they have a context with a deadline), time passes, and
  `Advance` is strongly fair: `Peer.run` re-arms its timer in every iteration and
  Go's `select` picks among ready cases at random, so packets cannot keep a due
  deadline from being taken for ever. Packets, Close, path failures and rebuilds
  have no fairness.
* `PeerRuntime`: every goroutine that can take a step takes one; sends and
  opening sockets end. Packets and calls of the application have no fairness.
* `HandshakeV2`: time passes, and an engine whose `NextDeadline` is due is
  advanced, which is what the runtime's timer does. Nothing is assumed of the
  network or of the other side.
* `SendPipelineV2`: a timer armed for a deadline that only time decides (`Expires`:
  a control transaction, a join, an owned group) is served, and a worker completes
  the send it took (sends have a timeout). Without owned sends an armed timer may find
  `retryStorage` moved on by a receiving half short of storage, again and again; that
  it gets through in the end is a premise of `FencesSettle` (`TimerGetsThrough`), not
  an assumption about the code. That a lost socket is reported is not assumed either:
  the fence of a controller without senders that nobody told is excepted
  (`Unnoticed`).
* `PathJoinV2`, `ReceiveV2`: time passes, due timers are served. In `PathJoinV2`
  packets may be delivered at any time, so `Tick` is strongly fair.
* `SocketLifecycle`: each caller, sender and read loop goes on when it can;
  callbacks of the owner return.
* `PeerV2`: goroutines are weakly fair; a wake-up and a cancelled context, as ready
  cases of a `select`, strongly, since Go picks among them at random; opening a
  carrier has a timeout. Of the timer and of what a controller does when advanced
  nothing is assumed; `TimerServes` is a premise of `CallsReturn`.

Where weak or strong fairness is spelled out with a guard instead of `WF_` or
`SF_`, the guard says when the action is enabled, and TLC is spared ENABLED.

## 5. Proofs

`FecDecoderProofs` proves, for every ID space, window, shard set, RS parameters,
limit, timeout and word size that satisfy the named ASSUMEs of `WindowExtent`,
`FecDecoder` and `ReplayRing`:

| Theorem | Statement |
|---|---|
| `TypeCorrect` | `Spec => []TypeOK` |
| `DeliveryInvariant` | `Spec => []DeliveryInv` |
| `DeliveredAtMostOnce` | `Spec => []AtMostOnce` |
| `DuplicatesWereDelivered` | `Spec => []NoFalseDuplicate` |
| `FloorNeverFalls` | `Spec => FloorOnlyRises` |
| `PendingIsBounded` | `Spec => []PendingBounded` |
| `HeapInStep` | `Spec => []HeapMatchesPending` |
| `TotalsExact` | `Spec => []CountersExact` |
| `RingImplementsWindow` | `RingSpec => RefinesWindow`, of `ReplayRing` |

`AtMostOnce` is not inductive: nothing in it says why a delivered ID cannot be
opened again. `DeliveryInv` adds what does: while the decoder is open, an ID that
was delivered is not pending and is either remembered by its bit or below the
floor (`Remembered`); a bit is set only for a delivered ID (`BitsDelivered`); a
pending ID is at most `highest` (`PendingAdmitted`); and a window that has
admitted nothing is at zero (`WindowStarts`). The step that needs thought is
the move of the window (lemma `WindowMoves`): IDs whose bits are cleared are
exactly those that fall below the new floor. `RetainableUndelivered` then says
that a shard the decoder takes belongs to an undelivered Datagram, and
`CompleteKeepsInv` that completing it restores the invariant in both cases,
inside the window and below it. `PendingIsBounded` carries the finiteness of the
pending set along, without which cardinalities mean nothing. `HeapInStep` needs
`TypeOK` and the equality itself: an entry is due exactly when its block is.
`TotalsExact` needs that every block has finitely many shards (`Counted`), and facts
about sums. A sum of natural numbers over a finite set is the size of a set with one
point per unit (`Units`), so what a step does to it follows from cardinalities. That
the fold of `MapThenSumSet` computes this size (`AddsUnits`) is shown by a smallest
set for which it would not, since strict inclusion is well-founded on a finite set;
the induction theorems with an operator as parameter are not needed.
`RetainTotals` is the heart: with the shard a call retains, the totals are those of
its block and of the other blocks left by the sweep.

`RingImplementsWindow` is the refinement of `ReplayWindow` by `ReplayRing`, a
specification of its own. `LoopClears` says what the loop over words
clears: the positions of the IDs it was started for (`Residues`), by a smallest
remaining number for which it would not. It rests on `WidthOf` (an iteration
clears at least one position and ends at a word boundary, hence not past the end of the
ring) and on four facts about remainders. `MoveClears` concludes that a move of the window
clears the positions of the IDs it moves over and none of an ID that stays
inside, since IDs less than a ring apart have different positions
(`OnePosition`); `AdmitImplements` and `CompleteImplements` are then the steps of the
refinement. `RingInv` adds to types and count that pending IDs were admitted.

`SessionFlowV2Proofs` proves, for any scopes, leases and claims and any limits that
`New` accepts (the named ASSUMEs of `CreditLedger`):

| Theorem | Statement |
|---|---|
| `LedgerTypeCorrect` | `Spec => [](TypeOK /\ Finite)`: the types and every ceiling |
| `LedgerCountsExact` | `Spec => []CountsExact` |
| `LedgerSlotsExact` | `Spec => []SlotsExact` |
| `LedgerBytesExact` | `Spec => []BytesExact` |

Each is inductive relative to the ones before it. `Finite` (finitely many scopes
exist and finitely many leases are held at any time) carries the cardinalities.
The counts rest on three facts about one usage and the leases it stands for
(`CountedWith`, `CountedWithout`, `CountedAccepted`), used once for the Peer and
once for the owner in each operation. The slots need the counts: the code asks
whether `Reservations` is zero, and only `CountsExact` makes that mean that no
lease is left (`HoldsNothing`). `LeavingSlots` and `CloseSlots` are the two ways
to be retired. The bytes (`Weighed`) use the same facts about sums as the decoder's
totals; `TotalWith`, `TotalWithout` and `TotalChanged` say what a lease that comes,
goes or shrinks does to the sum of the Peer and to that of its owner.

The same module proves about `SendPipelineV2`, for any numbers of paths, shards,
slots and sends, any sizes and limits its ASSUMEs allow, owned or synchronous:

| Theorem | Statement |
|---|---|
| `SendInvariant` | `SendSpec => []SendInv` |
| `SendsCountedExactly` | `SendSpec => []SendsExact` |
| `FencesReportLosses` | `SendSpec => []FencesHonest` |

`SendsExact` compares counters with slots and does not say why they agree, so
`SendInv` adds it. A slot in use and its path name each other (`PathsMatch`); a
shard in flight has one slot (`ShardsMatch`); transaction numbers are fresh, a
slot with the number of a running transaction was taken for it, and no two slots
have the same number and version (`Distinct`), so a late completion takes one
from the transaction it belongs to and ends `dispatched` exactly when it carries
the current version (`RetriesMatch`). For the fences, the queue is numbered
without gaps up to the last Datagram accepted, and what is sealed but not
completed lies between `completed` and its head (`Numbered`); `failedFrom` is at
or before every loss and at most one past `completed` (`Failures`).

An open controller satisfies all of them (`Consistent`), and so does what each
part of a call leaves: new transactions (`Renews`), a slot taken or given back
(`InstallKeeps`, `FreedKeeps`), a completed group (`CompleteFenced`), a sealed
one (`SealFenced`). A call is a chain of such parts ending in `Drive`, and its
proof follows the chain. Closing gives up transactions and shards
at once, so a closing controller keeps only `PathsMatch` and `Fenced`, which is
enough for slots that come back later. `PlanIsSound` says what a planned group takes,
and `FragmentCountStep` that a fragment of full size leaves one
fragment less; together they make the "cannot make encoding progress" error of
`seal` unreachable. Both loops (`PlanSteps`, `EmitSteps`) are recursive functions,
and what they keep is shown by a smallest step that would break it.

`SessionSocketProofs` proves about `SessionV1`, for any finite set of paths, any number of rebuilds and
generations and any intervals, attempts and pool size the configuration accepts:

| Theorem | Statement |
|---|---|
| `SessionInvariant` | `Spec => []SessionInv` |
| `EndedStaysOver` | `Spec => []EndedIsOver` |
| `AdvanceLeavesNothingDue` | `Spec => AdvanceClearsDue` |
| `CarriersFindRoom` | `Spec => []CarrierNeverRefused`, where `Cardinality(Paths) <= MaxEndpoints` |

`SessionInv` adds to the types which deadlines and slots go with which state: a
retry is armed only on a carrier of a started initiator that was neither
acknowledged nor given up (`RetriesAwaited`), a carrier is given up after exactly
`MaxHandshakeAttempts` (`AttemptsUsed`), a Session that was never established
learned nothing (`NeverEstablished`), it fails when all carriers are given up and
stays so (`FailedGaveUp`), and after Close nothing is left whatever sends end later
(`ClosedIsEmpty`). `EndedIsOver` without the first three is not inductive: a late
HELLO_ACK or a retry could revive a failed Session. The premise of the last theorem
is what the default limit of 256 gives; the configuration accepts a smaller
`MaxEndpoints`, and then a carrier may be refused.

The same module proves about `SocketLifecycle`, for any finite number of rebuilders
and senders, any closers and any number of generations:

| Theorem | Statement |
|---|---|
| `SocketInvariant` | `SocketSpec => []SocketInv` |
| `ReturnedCallsLeaveSilence` | `SocketSpec => []ReturnedMeansSilent` |

The invariant says who holds the rebuild lock and where that caller is (`LockInv`),
that one closer does the work and the others wait for it (`CloseInv`), which socket
is published (`CurrentInv`, `GenerationInv`), that every socket but the published one
is silent or in the hands of one call (`SocketsInv`), and that a socket's count of
active users is the number of sends on it plus the callback of its loop
(`SendsInv`). The last is why an empty WaitGroup means silence.

`PeerRuntimeProofs` proves, for any numbers of wire IDs, Sessions and carriers and any
limits:

| Theorem | Statement |
|---|---|
| `RuntimeInvariant` | `Spec => []RuntimeInv` |
| `TablesAlwaysAgree` | `Spec => []TablesAgree` |
| `ClosesDrain` | `Spec => []DrainedWhenClosed` |
| `ListenerCloseIsFinal` | `Spec => []NothingOutlivesListener` |
| `PeerCloseCompletes` | `Spec => []PeerCloseIsComplete` |

None of the four is inductive alone; `RuntimeInv` says who answers for each thing at
any moment. `RegistryInv`: an open inbound controller is registered, or the
Listener's Close has it in its list. `LeavingInv`: a registered controller that is
closed has a Close under way or the dispatcher about to notify the registry. `TablesInv`: the Peer's two tables name the same
inbound Sessions. `FreshInv`: nobody holds a wrapper that does not exist yet.
`WrapperInv`: whoever was handed a wrapper holds one that is in the table or was
closed. `OwnerInv`: who takes `owner` removes the Session, once. `ClosedInv`: what a
finished Close and a finished constructor leave. `ListenerInv` and `PeerInv`: what the
snapshot of a Close does not name was closed before it. `DispatcherInv` and
`CarriersInv`, with the types, say what the dispatcher and a constructor hold. The
model has some fifty steps; the frame lemmas (`RegistryFrame`, `TablesFrame`, ...) say once
which steps touch which part, so that each conjunct is shown for those only.

`PathJoinV2Proofs` proves, for any tuples and times, any number of joins and
failures, and a network that loses, repeats and reorders:

| Theorem | Statement |
|---|---|
| `JoinInvariant` | `Spec => []JoinInv` |
| `ResponderIsFirst` | `Spec => []ResponderCommitsFirst` |
| `PeersAccept` | `Spec => []PeerAccepts` |
| `GenerationsOnlyRise` | `Spec => GenerationsRise` |

`JoinInv` has a part for each place a fact can be. `Sound`: the fields of a
controller agree (a committed join is the active route, retired routes are older,
an acknowledgement is queued only for what was adopted). `Behind`: the initiator
is at most where the responder is, and on the same tuple when level. `Claims`: what
a READY, BUDGET_ACK or CONTEXT_ACK under way says is true of its sender, and stays
true for ever, which is why old copies do no harm. `Relies`: an end uses the second
epoch or a context only if its peer has adopted it or gave that route up. `Drive`
and the handlers are described once by how far they may move a controller
(`Steps`), and the theorem follows for every call that ends in them.

`HandshakeV2Proofs` proves, for any scenarios, valid profiles, limits and times:

| Theorem | Statement |
|---|---|
| `HandshakeInvariant` | `Spec => []HandshakeInv` |
| `EnginesAgree` | `Spec => []Agreement` |
| `InstalledMeansContract` | `Spec => []ContractsKept` |
| `BooksInvariant` | `Spec => []BooksInv` |
| `ReservationsOwned` | `Spec => []ResourcesOwned` |

`Agreement` needs facts about packets that are still under way. `InitiatorInv`: a
carrier is tried once; all FINISH packets of a SessionID carry one nonce; an
initiator that waits for READY has a contract and has sent FINISH; a preparation
that has not opened has no dial. `ResponderInv`: an attempt has a contract, one that
waits for FINISH has sends left, an established one has sent READY. `InstalledInv`: an
initiator's Session is the responder's, and it has nothing left to install; a
responder's Session has a FINISH with its nonce, so no second nonce of that SessionID
can be installed, before or after a restart; READY is said only of what is
installed. The engine's operations are described by what they do to one engine
(`Repeats`, `Goes`, `Installs` for the initiator, `RGoes` for the responder);
every public call commits an engine that has moved so (`ICommits`, `RCommits`), and
`ReleaseStorage`, `Restart` and time have a lemma of their own (`QuietStep`).
`ContractsKept` then needs that the initiator's contract with a SessionID's peer is
the responder's, and lemmas about negotiation for any two valid profiles:
`ChallengeShape` and `ChallengeValid` (what `Select` answers), `SelectsCompatible`
(it answers exactly the compatible ones), `SupportedUnderstand` and
`SupportedConstruct` (controllers accept the contract, and each the other's budget
and context).

`ResourcesOwned` is about an engine between two calls; inside a call a reservation can
be promoted for an installer that is about to fail, or a dial can be without an
attempt. `Booked(e, X)` is what holds throughout. `Held`: every live attempt has a
reservation of its own (`Owns`: pledged before it is established, promoted after), but
for those of `X`, whose installer failed and whose reservation is to be retired
(`Doomed`); a prepared dial keeps its one reservation between attempts (`Keeps`); what
nobody uses is `Spent`, given back with its disposer called once. `Counted`: the
pending and running counts are sizes of sets of attempts. `Balanced` adds what a call
restores at its end: an open dial has an attempt under way, one that is over has none,
and a closed engine has nothing. `Sound` and `Squared` say the same of an engine on its
way through a call and at its end, and each operation (fail, retry, fill the
dial, install, expire, close, restart) has a lemma from one to the other.

`PeerV2Proofs` proves, for any Sessions, carriers, queue capacities and callers:

| Theorem | Statement |
|---|---|
| `PeerInvariant` | `Spec => []PeerInv` |
| `ClosedSessionsHoldNothing` | `Spec => []ClosedHoldsNothing` |
| `NobodyIsStranded` | `Spec => []NothingStranded` |
| `WakeupsArrive` | `Spec => []NoLostWakeup` |

`PeerInv` has a part for one record and parts for what relates records. `GoodSessions`:
in each record the tables agree with the wrapper (`Coherent`; a closed Session is in
no table, only a carrier its constructor has opened and not yet registered may be
open without being registered), a dial that was handed to the engine and is neither
established nor closed has an attempt (`Underway`), and no caller sleeps on what has
already happened (`Awake`). `ListenerInv` and `ClosingInv`: what each Close leaves, and
that nothing is installed after it. `AcceptInv`: the places on the Accept queue are
reserved from the HELLO on, and there are never more reservations than places, so an
established Session finds one; what `NothingStranded` says of `overflow` is not inductive
without it. `DeadlineInv`: a dispatcher that sleeps
without a timer while there is a deadline has a token or somebody about to send one;
`NoLostWakeup` is about the same moment but not about who is about to send. Each
operation is described once by what it may do to a record (`Tame`, `Calm`, `Quiet`), and a
step of the Peer changes every record in such a way or one record in a named one.

`ReceiveV2Proofs` proves, for any groups of fragments, well-formed or not, any
spans, word size, limits, charges and timeouts its ASSUMEs allow:

| Theorem | Statement |
|---|---|
| `ReceiveInvariant` | `Spec => []Inv` |
| `DatagramsDeliveredOnce` | `Spec => []DeliveredOnce` |
| `FragmentsNeverLost` | `Spec => []NoFragmentLost` |
| `CreditExact` | `Spec => []BooksExact` |

`Inv` says of the state between calls what `Sane(k, F)` says of the engine inside
one, `F` being the ends recorded before the call. `Chained`: each list is a chain from
head to tail, oldest first, so a loop of as many rounds as there are entries meets
them all. `WindowOK` and `GroupsSane`, `OriginalsSane`: a ring's bit is the end of the
one ID inside the window at that position, and what is pending was admitted and is
not over. `Assembled`: the ranges of a Datagram being reassembled are disjoint, lie
inside it and their bytes add up to `received`, so `received` reaches the total only when every
byte is there once (`Whole`). `Kept`: each fragment of a completed group is
`Settled`, that is, in its Datagram, or the Datagram is over or below the floor.
`NoFragmentLost` alone is not inductive: a Datagram that is pending may lie below the
floor, and only `OriginalsSane` says that its end is still recorded.

The window's loop over words clears what it moves over by the argument of
`RingImplementsWindow`. `Commit`, `Insert`, `ExpireOriginal`, `Link` and `Unlink` each have a lemma
that says which parts of `Sane` they disturb. `AddGroup` plans against the state before the
call and commits against states after it; `Decodes` makes the IDs of a group rise, so
no two fragments of it meet in one Datagram and a plan made at the start
holds when its turn comes (`CommitRuns`). Every loop (`CommitSteps`, `RecordSteps`,
`RetrySteps`, the two expiries and the two closes) is a recursive function of its
rounds, described by `Runs`, and what it keeps follows by `Induction` over them.

`CreditExact` carries `Credited` along with `Inv`. `Books(k, S)` says of the engine inside
a call that began with the reader holding `S`: `used` is the leases of the groups,
the charges of the Datagrams being reassembled and the payloads of `S` and of what the
call delivered so far (`Account`), each group's lease is the one its stage pays, and the limits
hold. Sums are sizes of sets as in `TotalsExact`. Between the reservation and the
commit of its last fragment a group's credit belongs to no Datagram yet: `Account(k, S, R)` allows a
rest `R`, `ReserveExact` says that the rest is the charge of the new Datagrams when all
were reserved and that `RolledBack` leaves nothing when one was refused, and
`LedgeredNext` that each commit takes its share of it; after the last fragment
the rest is zero (`CommitExact`). That the reader never gets a second Datagram of the same
ID, which a set would swallow, is `Known`: what it holds completed, so it is not
pending.

The assumptions of each theorem are the named ASSUMEs of its module, which TLC
evaluates in the runs, and the premise of `CarriersFindRoom`.

Only model-checked:

* every liveness property: TLAPS does not do liveness under fairness or ENABLED.

## 6. Finding and observations

`AcceptOnce` shows a disagreement between the code and `docs/SESSION.md:72-73`,
which says that the Peer puts a Session on the Accept queue once. When an
accepted inbound Session is closed, its controller leaves the registry before
its wrapper leaves `Peer.inbound`. A HELLO of the same Session ID in between
makes a new controller and acknowledges it; `addInboundSession`
(`peer_runtime.go:775`) then returns the wrapper that is being closed, and the
dispatcher offers it again. Accept returns a closed Session, and the new
controller stays without a wrapper: it is not advanced, its data is dropped, and
it keeps its place in the registry until the remote sends CLOSE or the Listener
is closed.

Things met while modelling that no doc contradicts; they are behaviour of the models:

* Path join: when READY is lost, the initiator stays on the old generation, which
  the responder accepts only for the grace; the responder refuses a new PATH_JOIN
  until its own committed join has ended. `PeerAccepts` counts the grace,
  and `ExchangesEnd` shows that the join ends.
* `peer_v2.go:419`: a HELLO that finds an expired responder attempt fails it and
  opens a new one with the same ID in one engine call; the pass over the failures
  then deletes the new attempt's route. The attempt cannot send again until the
  initiator repeats its HELLO, which makes the route anew (`emitBootstrap`,
  `peer_v2.go:321-334`); without one it expires.
* Both runtimes drop a report of a lost socket when the ingress queue is full. A
  synchronous v2 Session without a ready path then waits without a timer, and its
  `WritePacket`, which has no context, until somebody closes the Session (`Forgotten`
  of `PeerV2`, `Unnoticed` of `SendPipelineV2`).
* `sessionv2.New` compares the local profile of a contract with the configured one
  (`Constructs`). In the runtime the two are the same, because `peer_v2.go:372` takes
  `LocalProfile` from the contract, so only the rest of its tests can refuse. A
  direct user of `sessionv2` may configure another one; the premise of
  `ContractsKept` is that both sides support what they offer and offer the same.

## 7. Not modelled, and why

* Byte layouts, HMAC and key derivation (`wire`, `wirev2`, TLV): the models start
  at authenticated messages.
* Reed-Solomon arithmetic: a third-party library.
* Socket options, address formatting, statistics and diagnostics: no decision of
  the modelled code reads them.
* The completion cache that `decoder.go` uses without a replay window: the
  runtime always sets one.
* Configuration files: their accepted ranges are the ASSUMEs.
* CLOSE packets a Session sends on its way out, RTT samples, and
  `SetPathHealthy(true)`, which the runtime never calls.
* Integration probes and scripts.

* The v1 encoder, scheduler, block send, delivery queue and ReadPacket. The
  encoder is one counter under one lock; rotation and per-path failures of a block
  reach `SessionV1` as the set of paths taken and the failures reported.
* In version 2: owned sends of join and reply frames (the runtime does not use owned
  sends), pacing values, byte limits of the aggregation queue (its leases are the
  ledger's), `MarkAccepted` of the engine (a mark on a lease), stream limits.

## 8. Plan

What is left, in order of importance:

1. `DataPathV1`: encoder, scheduler, block send, delivery queue and ReadPacket,
   composed with `FecDecoder`.
2. A composition of `SendPipelineV2` and `ReceiveV2` with an abstract lossy channel
   of Datagrams as its specification.
