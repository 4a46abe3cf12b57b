--------------------------- MODULE NegotiationV2 ---------------------------
(***************************************************************************)
(* What two v2 profiles negotiate (internal/negotiationv2), what a Session *)
(* controller makes of the contract (New of internal/sessionv2), and what  *)
(* the controller at the other end accepts of it.                          *)
(*                                                                         *)
(* A profile is a record; capabilities are sets of names.  Stream limits   *)
(* are left out: no runtime is configured with them.  So is the wording of *)
(* refusals.  A side adds to its profile what only its sender uses: the    *)
(* records and bytes it puts into a group.                                 *)
(***************************************************************************)
EXTENDS Integers, FiniteSetsExt

Capabilities == {"manifest", "aggregation", "repair", "kcp", "pieces", "smux",
                 "probing", "carrierBudget", "migration"}

MinUDP == 512           \* also the bootstrap payload
MaxUDP == 65507
BundleOverhead == 94    \* bytes of a packet around its shard
MinLogical == 24        \* manifest and one descriptor
MaxDescriptors == 256
MaxPaths == 256
Ages == 100..60000      \* milliseconds of an epoch's grace or of a repair

Profile ==
    [protocol : {"datagram", "kcp"}, offered : SUBSET STRING, required : SUBSET STRING,
     data : Nat, parity : Nat, mux : BOOLEAN, probes : BOOLEAN, perCarrier : BOOLEAN,
     send : Nat, receive : Nat, paths : Nat, grace : Nat, migrations : Nat, repair : Nat,
     limits : [bytes : Nat, fragments : Nat, descriptors : Nat],
     aggregates : BOOLEAN, records : Nat, groupBytes : Nat]

----------------------------------------------------------------------------
(* validate.go                                                             *)

If(condition, caps) == IF condition THEN caps ELSE {}

ApplicableCaps(p) ==
    If(p.protocol = "datagram", {"manifest", "aggregation", "repair", "migration"})
    \cup If(p.protocol = "kcp", {"kcp", "pieces"} \cup If(p.mux, {"smux"}))
    \cup If(p.probes, {"probing"}) \cup If(p.perCarrier, {"carrierBudget"})

\* The framing and MTU capabilities that an active policy must require.
ActivePolicyCaps(p) ==
    If(p.probes, {"probing"}) \cup If(p.perCarrier, {"carrierBudget"})
    \cup If(p.protocol = "datagram", {"manifest"})
    \cup If(p.protocol = "kcp", {"kcp"} \cup If(p.probes \/ p.perCarrier, {"pieces"}))
    \cup If(p.mux, {"smux"})

ValidDatagram(d) ==
    d.bytes \in 1..2^24 /\ d.fragments \in 1..4096 /\ d.descriptors \in 1..MaxDescriptors

Validate(p) ==
    /\ p.required \subseteq Capabilities /\ p.required \subseteq p.offered
    /\ p.send \in MinUDP..MaxUDP /\ p.receive \in MinUDP..MaxUDP
    /\ p.paths \in 1..MaxPaths /\ p.grace \in Ages
    /\ IF "migration" \in p.offered THEN p.migrations \in 1..2 ELSE p.migrations = 0
    /\ p.protocol = "datagram" =>
         ~p.mux /\ p.data > 0 /\ p.parity > 0 /\ p.data + p.parity <= 256 /\ ValidDatagram(p.limits)
    /\ p.protocol = "kcp" => p.data = 0 /\ p.parity = 0
    /\ IF "repair" \in p.required
       THEN p.protocol = "datagram" /\ p.repair \in Ages ELSE p.repair = 0
    /\ "repair" \in p.offered <=> "repair" \in p.required
    /\ "smux" \in p.offered => p.mux
    /\ ActivePolicyCaps(p) \subseteq p.required
    /\ p.required \subseteq ApplicableCaps(p)

----------------------------------------------------------------------------
(* select.go                                                               *)

SamePolicy(p, q) ==
    /\ p.protocol = q.protocol /\ p.data = q.data /\ p.parity = q.parity
    /\ p.mux = q.mux /\ p.probes = q.probes /\ p.perCarrier = q.perCarrier
    /\ "repair" \in p.required <=> "repair" \in q.required

NoContract == [valid |-> FALSE]

\* The contract of a HELLO on a path and the CHALLENGE that answers it.
Accept(hello, path, challenge) ==
    LET selected == challenge.offered
        paths == Min({hello.paths, challenge.paths})
    IN  IF /\ Validate(hello) /\ Validate(challenge) /\ SamePolicy(hello, challenge)
           /\ selected \subseteq Capabilities \cap hello.offered
           /\ hello.required \cup challenge.required \subseteq selected
           /\ path \in 1..paths
           /\ ~hello.probes /\ hello.perCarrier => hello.paths <= challenge.paths
        THEN [valid |-> TRUE, selected |-> selected,
              active |-> selected \cap ApplicableCaps(hello), paths |-> paths, path |-> path,
              grace |-> Min({hello.grace, challenge.grace}),
              repair |-> Min({hello.repair, challenge.repair}),
              migrations |-> Min({hello.migrations, challenge.migrations}),
              client |-> hello, server |-> challenge]
        ELSE NoContract

\* The CHALLENGE of a listener: its profile, with the capabilities both offer.
Challenge(hello, listener) ==
    LET selected == hello.offered \cap listener.offered \cap Capabilities
    IN  [listener EXCEPT !.offered = selected,
                         !.migrations = IF "migration" \in selected THEN @ ELSE 0]

Select(hello, path, listener) ==
    IF Validate(listener) THEN Accept(hello, path, Challenge(hello, listener)) ELSE NoContract

\* Mutant: a sender uses its own UDP ceiling whatever the receiver takes.
MutantOwnCeiling(self, peer) ==
    [udp |-> self.send,
     bytes |-> Min({self.limits.bytes, peer.limits.bytes}),
     fragments |-> Min({self.limits.fragments, peer.limits.fragments}),
     descriptors |-> Min({self.records, peer.limits.descriptors})]

\* Contract.EffectiveSend: what the sender may do, by its own limits and the
\* receiver's.
EffectiveSend(self, peer) ==
    [udp |-> Min({self.send, peer.receive}),
     bytes |-> Min({self.limits.bytes, peer.limits.bytes}),
     fragments |-> Min({self.limits.fragments, peer.limits.fragments}),
     descriptors |-> Min({self.records, peer.limits.descriptors})]

----------------------------------------------------------------------------
(* sessionv2: the sender's encoding context and the receiver's checks      *)

\* validateConfig: the policies and sender limits the controller implements.
Supported(p) ==
    /\ p.protocol = "datagram" /\ ~p.probes /\ ~p.perCarrier /\ ~p.mux
    /\ p.offered \subseteq {"manifest", "aggregation"}
    /\ p.aggregates => "aggregation" \in p.offered
    /\ p.groupBytes \in MinLogical..2^24 /\ p.records \in 1..MaxDescriptors

\* New, for a side with the profile it was configured with and what the
\* contract says of both.
Constructs(contract, configured, self) ==
    /\ contract.valid /\ Supported(configured) /\ self = configured
    /\ configured.aggregates => "aggregation" \in contract.active

Context(self, peer) ==
    LET direction == EffectiveSend(self, peer)
        shardBytes == direction.udp - BundleOverhead
    IN  [data |-> self.data, parity |-> self.parity, shardBytes |-> shardBytes,
         descriptors |-> IF self.aggregates THEN direction.descriptors ELSE 1,
         logical |-> Min({self.groupBytes, self.data * shardBytes})]

\* receiveBudget of the update startBudget sends.
AcceptsBudget(local, remote, budget) ==
    budget \in MinUDP..Min({local.receive, remote.send})

\* receiveEncoding, with EncodingContext.Validate and the codec it makes.
AcceptsContext(local, remote, budget, context) ==
    /\ context.data = remote.data /\ context.parity = remote.parity
    /\ context.descriptors \in 1..local.limits.descriptors
    /\ context.shardBytes >= 1 /\ context.shardBytes + BundleOverhead <= budget
    /\ context.logical >= MinLogical
    /\ context.logical <= context.data * context.shardBytes

============================================================================
