--------------------------- MODULE MCHandshakeV2 ---------------------------
(***************************************************************************)
(* An instance of HandshakeV2 for TLC: a race of two carriers, a prepared  *)
(* dial that falls back from one carrier to the next, a responder that     *)
(* restarts during a handshake that retries, and one dial between every    *)
(* two of the profiles that can meet.                                      *)
(***************************************************************************)
EXTENDS HandshakeV2

\* The profile of a configuration without aggregation (v2ControllerConfig).
Plain ==
    [protocol |-> "datagram", offered |-> {"manifest", "aggregation"},
     required |-> {"manifest"}, data |-> 2, parity |-> 1, mux |-> FALSE,
     probes |-> FALSE, perCarrier |-> FALSE, send |-> 1200, receive |-> 1400,
     paths |-> 2, grace |-> 1000, migrations |-> 0, repair |-> 0,
     limits |-> [bytes |-> 9000, fragments |-> 16, descriptors |-> MaxDescriptors],
     aggregates |-> FALSE, records |-> 64, groupBytes |-> 4096]

\* The smallest payloads and groups, and limits of its own.
Small == [Plain EXCEPT !.required = @ \cup {"aggregation"}, !.aggregates = TRUE,
                       !.send = MinUDP, !.receive = MinUDP, !.groupBytes = MinLogical,
                       !.records = 1, !.grace = 100,
                       !.limits = [bytes |-> 1, fragments |-> 1, descriptors |-> 2]]
Large == [Plain EXCEPT !.required = @ \cup {"aggregation"}, !.aggregates = TRUE,
                       !.send = MaxUDP, !.receive = MaxUDP, !.records = MaxDescriptors,
                       !.groupBytes = 2^24]
Narrow == [Plain EXCEPT !.paths = 1]
OtherCode == [Plain EXCEPT !.parity = 2]

\* Profiles of the protocol that this version does not configure.
Bare == [Plain EXCEPT !.offered = {"manifest"}]
Future == [Plain EXCEPT !.offered = @ \cup {"migration", "unknown"}, !.migrations = 2]
Repairing == [Plain EXCEPT !.offered = @ \cup {"repair"}, !.required = @ \cup {"repair"},
                           !.repair = 100]
PerCarrier == [Plain EXCEPT !.offered = @ \cup {"carrierBudget"},
                            !.required = @ \cup {"carrierBudget"}, !.perCarrier = TRUE]
PerCarrierNarrow == [PerCarrier EXCEPT !.paths = 1]
Probing == [PerCarrierNarrow EXCEPT !.offered = @ \cup {"probing"},
                                    !.required = @ \cup {"probing"}, !.probes = TRUE]
Muxed == [Plain EXCEPT !.protocol = "kcp", !.data = 0, !.parity = 0, !.mux = TRUE,
                       !.offered = {"kcp", "pieces", "smux"}, !.required = {"kcp", "smux"}]

AllProfiles ==
    [Plain |-> Plain, Small |-> Small, Large |-> Large, Narrow |-> Narrow,
     OtherCode |-> OtherCode, Bare |-> Bare, Future |-> Future, Repairing |-> Repairing,
     PerCarrier |-> PerCarrier, PerCarrierNarrow |-> PerCarrierNarrow,
     Probing |-> Probing, Muxed |-> Muxed]

Config(mode, carriers, concurrent, deadline, maxSends, bound, client, server) ==
    [mode |-> mode, carriers |-> carriers, concurrent |-> concurrent,
     deadline |-> deadline, maxSends |-> maxSends, restarts |-> bound,
     client |-> client, server |-> server]

Race     == Config("sync", 2, 2, 2, 2, 0, "Plain", "Large")
Fallback == Config("prepared", 2, 1, 3, 2, 0, "Small", "Plain")
Restarts == Config("deferred", 1, 1, 2, 3, 1, "Large", "Small")

\* A second carrier where its number decides.
Carriers(client, server) ==
    IF AllProfiles[client].paths > AllProfiles[server].paths THEN 2 ELSE 1
Negotiating == {Config("sync", Carriers(c, s), 1, 1, 2, 0, c, s) :
                    c \in DOMAIN AllProfiles, s \in DOMAIN AllProfiles}

AllScenarios == {Race, Fallback, Restarts} \cup Negotiating

============================================================================
