------------------------ MODULE SessionFlowV2Proofs ------------------------
(***************************************************************************)
(* Theorems about what a v2 Session holds and sends: CreditLedger, for any *)
(* number of scopes, leases and claims and any limits, and SendPipelineV2, *)
(* for any number of paths, slots, shards and Datagrams of any size.       *)
(***************************************************************************)
EXTENDS CreditLedger, SendPipelineV2, FiniteSetTheorems, SequenceTheorems, TLAPS

\* There are finitely many scopes and held leases at any time, however many
\* handles there could be.
Finite == IsFiniteSet(begun) /\ IsFiniteSet(live)

----------------------------------------------------------------------------
(* Types and ceilings                                                      *)

Usages == [bytes : Int, reservations : Int, streams : Int, accepts : Int]
ClaimRecords == [bytes : Nat, stream : BOOLEAN, accept : BOOLEAN]

\* Adding and subtracting a claim gives a usage again.
LEMMA ClaimArithmetic ==
    ASSUME NEW u \in Usages, NEW c \in ClaimRecords
    PROVE  AddClaim(u, c) \in Usages /\ SubtractClaim(u, c) \in Usages
BY DEF AddClaim, SubtractClaim, Usages, ClaimRecords, One

\* A claim that fits takes the Peer and the scope no further than their ceilings.
LEMMA FittingClaim ==
    ASSUME TypeOK, NEW s \in Scopes, NEW c \in ClaimRecords, Fits(usage[s], c)
    PROVE  /\ AddClaim(peerUsage, c).bytes <= MaxPeerBytes
           /\ AddClaim(peerUsage, c).reservations <= MaxReservations
           /\ AddClaim(peerUsage, c).streams <= MaxPeerStreams
           /\ AddClaim(peerUsage, c).accepts <= MaxPendingAccepts
           /\ AddClaim(usage[s], c).bytes <= MaxSessionBytes
           /\ AddClaim(usage[s], c).streams <= MaxStreamsPerSession
<1>1. peerUsage \in Usages /\ usage[s] \in Usages
  BY DEF TypeOK, Usages
<1>2. /\ peerUsage.bytes \in Int /\ peerUsage.reservations \in Int
      /\ peerUsage.streams \in Int /\ peerUsage.accepts \in Int
      /\ usage[s].bytes \in Int /\ usage[s].streams \in Int
      /\ c.bytes \in Nat
  BY <1>1 DEF Usages, ClaimRecords
<1>3. /\ peerUsage.reservations <= MaxReservations
      /\ peerUsage.streams <= MaxPeerStreams /\ peerUsage.accepts <= MaxPendingAccepts
      /\ usage[s].streams <= MaxStreamsPerSession
  BY DEF TypeOK
<1>4. /\ peerUsage.bytes + c.bytes <= MaxPeerBytes
      /\ usage[s].bytes + c.bytes <= MaxSessionBytes
      /\ peerUsage.reservations + 1 <= MaxReservations
  BY <1>2, <1>3, ByteLimitsAssumption, CountLimitsAssumption DEF Fits, FitsSession
<1>5. /\ peerUsage.streams + One(c.stream) <= MaxPeerStreams
      /\ peerUsage.accepts + One(c.accept) <= MaxPendingAccepts
      /\ usage[s].streams + One(c.stream) <= MaxStreamsPerSession
  BY <1>2, <1>3, CountLimitsAssumption DEF Fits, FitsSession, One
<1>6. QED
  BY <1>4, <1>5 DEF AddClaim

\* What a lease gives back leaves every ceiling intact.
LEMMA SmallerUsage ==
    ASSUME NEW u \in Usages, NEW c \in ClaimRecords
    PROVE  /\ SubtractClaim(u, c).bytes <= u.bytes
           /\ SubtractClaim(u, c).reservations <= u.reservations
           /\ SubtractClaim(u, c).streams <= u.streams
           /\ SubtractClaim(u, c).accepts <= u.accepts
BY DEF SubtractClaim, One, Usages, ClaimRecords

\* Retiring scopes of a finite set only lowers the counts of slots.
LEMMA RetireTypes ==
    ASSUME TypeOK, Finite, NEW ss \in SUBSET begun, Retire(ss)
    PROVE  /\ slots' \in Int /\ pendingHandshakes' \in Int /\ established' \in Int
           /\ slots' <= slots /\ pendingHandshakes' <= pendingHandshakes
           /\ sessions' \subseteq begun
           /\ retired' = retired \cup ss
<1>1. /\ IsFiniteSet(ss) /\ IsFiniteSet(ss \cap pending) /\ IsFiniteSet(ss \ pending)
  BY FS_Subset DEF Finite
<1>2. /\ Cardinality(ss) \in Nat /\ Cardinality(ss \cap pending) \in Nat
      /\ Cardinality(ss \ pending) \in Nat
  BY <1>1, FS_CardinalityType
<1>3. QED
  BY <1>2 DEF Retire, TypeOK

\* A grant keeps the leases typed and the Peer and its scope under their ceilings.
LEMMA GrantTypes ==
    ASSUME TypeOK, NEW s \in Scopes, NEW l, NEW c \in Claims,
           Fits(usage[s], c), Grant(s, l, c)
    PROVE  /\ peerUsage' \in Usages
           /\ usage' \in [Scopes -> Usages]
           /\ live' \subseteq Leases /\ released' \subseteq Leases
           /\ owner' \in [Leases -> Scopes \cup {NoScope}]
           /\ \A k \in live' : owner'[k] \in begun \cup {s}
           /\ claim' \in [Leases -> ClaimRecords]
           /\ acceptReserved' \subseteq Leases /\ bound' \subseteq Leases
           /\ peerUsage'.bytes <= MaxPeerBytes /\ peerUsage'.reservations <= MaxReservations
           /\ peerUsage'.streams <= MaxPeerStreams /\ peerUsage'.accepts <= MaxPendingAccepts
           /\ \A x \in Scopes : /\ usage'[x].bytes <= MaxSessionBytes
                                /\ usage'[x].streams <= MaxStreamsPerSession
<1>1. c \in ClaimRecords
  BY ClaimsAssumption DEF ClaimRecords
<1>2. peerUsage \in Usages /\ usage \in [Scopes -> Usages] /\ claim \in [Leases -> ClaimRecords]
  BY DEF TypeOK, Usages, ClaimRecords
<1>3. peerUsage' \in Usages /\ usage' \in [Scopes -> Usages]
  BY <1>1, <1>2, ClaimArithmetic DEF Grant
<1>4. /\ live' \subseteq Leases /\ released' \subseteq Leases
      /\ owner' \in [Leases -> Scopes \cup {NoScope}]
      /\ \A k \in live' : owner'[k] \in begun \cup {s}
      /\ claim' \in [Leases -> ClaimRecords]
      /\ acceptReserved' \subseteq Leases /\ bound' \subseteq Leases
  BY <1>1, <1>2 DEF Grant, TypeOK
<1>5. /\ peerUsage'.bytes <= MaxPeerBytes /\ peerUsage'.reservations <= MaxReservations
      /\ peerUsage'.streams <= MaxPeerStreams /\ peerUsage'.accepts <= MaxPendingAccepts
  BY <1>1, FittingClaim DEF Grant
<1>6. \A x \in Scopes : usage'[x].bytes <= MaxSessionBytes
                        /\ usage'[x].streams <= MaxStreamsPerSession
  <2> TAKE x \in Scopes
  <2>1. CASE x = s
    <3>1. usage'[x] = AddClaim(usage[s], c)
      BY <2>1, <1>2 DEF Grant
    <3>2. QED
      BY <3>1, <1>1, FittingClaim
  <2>2. CASE x # s
    <3>1. usage'[x] = usage[x]
      BY <2>2, <1>2 DEF Grant
    <3>2. QED
      BY <3>1 DEF TypeOK
  <2>3. QED
    BY <2>1, <2>2
<1>7. QED
  BY <1>3, <1>4, <1>5, <1>6

----------------------------------------------------------------------------
\* Finiteness is preserved by every operation: only begin and a grant add a
\* member, and one at a time.
LEMMA StepKeepsFinite ==
    ASSUME TypeOK, Finite, [Next]_vars
    PROVE  Finite'
<1>1. \A s, l, c : Grant(s, l, c) => IsFiniteSet(live')
  BY FS_AddElement DEF Finite, Grant
<1>2. ASSUME NEW s, NEW l, NEW c, NEW p, Begin(s, l, c, p)
      PROVE  Finite'
  BY <1>1, <1>2, FS_AddElement DEF Begin, Finite, leaseVars
<1>3. ASSUME NEW s, NEW l, NEW c, Reserve(s, l, c)
      PROVE  Finite'
  BY <1>1, <1>3 DEF Reserve, Finite
<1>4. ASSUME NEW l, Release(l)
      PROVE  Finite'
  BY <1>4, FS_RemoveElement DEF Release, Finite
<1>5. ASSUME UNCHANGED <<begun, live>>
      PROVE  Finite'
  BY <1>5 DEF Finite
<1>6. QED
  BY <1>2, <1>3, <1>4, <1>5
     DEF Next, vars, scopeVars, leaseVars, Promote, Close, Transfer, BindBytes,
         MarkAccepted, ShrinkBytes, PeerClose

\* Types and ceilings are preserved, one operation at a time: begin charges only
\* a claim that fits, and takes a slot only below the limit.
LEMMA BeginTypes ==
    ASSUME TypeOK, NEW s \in Scopes, NEW l, NEW c \in Claims, NEW p \in BOOLEAN,
           Begin(s, l, c, p)
    PROVE  TypeOK'
<1>1. /\ slots' \in Int /\ pendingHandshakes' \in Int /\ established' \in Int
      /\ slots' <= MaxSessions /\ pendingHandshakes' <= MaxPendingHandshakes
  <2>1. /\ slots \in Int /\ pendingHandshakes \in Int /\ established \in Int
        /\ slots <= MaxSessions /\ pendingHandshakes <= MaxPendingHandshakes
    BY DEF TypeOK
  <2>2. QED
    BY <2>1, CountLimitsAssumption DEF Begin, One
<1>2. /\ peerClosed' \in BOOLEAN
      /\ begun' \subseteq Scopes /\ sessions' \subseteq begun' /\ pending' \subseteq begun'
      /\ closed' \subseteq begun' /\ retired' \subseteq closed'
      /\ begun' = begun \cup {s}
  BY DEF Begin, TypeOK
<1>3. CASE c = Empty
  <2>1. UNCHANGED <<leaseVars, peerUsage, usage>>
    BY <1>3 DEF Begin
  <2>2. QED
    BY <2>1, <1>1, <1>2 DEF TypeOK, leaseVars
<1>4. CASE c # Empty
  <2>1. Fits(usage[s], c) /\ Grant(s, l, c)
    BY <1>4 DEF Begin
  <2>2. QED
    BY <2>1, <1>1, <1>2, GrantTypes DEF TypeOK, Usages, ClaimRecords
<1>5. QED
  BY <1>3, <1>4

\* Reserve charges only a claim that fits.
LEMMA ReserveTypes ==
    ASSUME TypeOK, NEW s \in Scopes, NEW l, NEW c \in Claims, Reserve(s, l, c)
    PROVE  TypeOK'
<1>1. Fits(usage[s], c) /\ Grant(s, l, c) /\ s \in begun
  BY DEF Reserve
<1>2. \A k \in live' : owner'[k] \in begun
  BY <1>1, GrantTypes
<1>3. UNCHANGED <<slots, pendingHandshakes, established, peerClosed, sessions,
                  begun, pending, closed, retired>>
  BY DEF Reserve
<1>4. QED
  BY <1>1, <1>2, <1>3, GrantTypes DEF TypeOK, Usages, ClaimRecords

\* Transfer tests the target's ceilings alone: the Peer's usage does not change.
LEMMA TransferTypes ==
    ASSUME TypeOK, Finite, NEW l \in Leases, NEW t \in Scopes, Transfer(l, t)
    PROVE  TypeOK'
<1>1. /\ peerUsage \in Usages /\ usage \in [Scopes -> Usages]
      /\ claim[l] \in ClaimRecords /\ owner[l] \in Scopes /\ owner[l] \in begun
      /\ owner[l] # t /\ t \in begun
  BY DEF TypeOK, Transfer, Usages, ClaimRecords
<1>2. /\ usage' \in [Scopes -> Usages]
      /\ usage'[owner[l]] = SubtractClaim(usage[owner[l]], claim[l])
      /\ usage'[t] = AddClaim(usage[t], claim[l])
      /\ \A x \in Scopes \ {owner[l], t} : usage'[x] = usage[x]
  BY <1>1, ClaimArithmetic DEF Transfer, MovedUsage
<1>3. AddClaim(usage[t], claim[l]).bytes <= MaxSessionBytes
      /\ AddClaim(usage[t], claim[l]).streams <= MaxStreamsPerSession
  <2>1. /\ usage[t].bytes \in Int /\ usage[t].streams \in Int /\ claim[l].bytes \in Nat
    BY <1>1 DEF Usages, ClaimRecords
  <2>2. usage[t].streams <= MaxStreamsPerSession
    BY DEF TypeOK
  <2>3. FitsSession(usage[t], claim[l])
    BY DEF Transfer
  <2>4. /\ claim[l].bytes <= MaxSessionBytes - usage[t].bytes
        /\ claim[l].stream => usage[t].streams # MaxStreamsPerSession
    BY <2>3 DEF FitsSession
  <2>5. /\ AddClaim(usage[t], claim[l]).bytes = usage[t].bytes + claim[l].bytes
        /\ AddClaim(usage[t], claim[l]).streams = usage[t].streams + One(claim[l].stream)
    BY DEF AddClaim
  <2>6. usage[t].bytes + claim[l].bytes <= MaxSessionBytes
    BY <2>1, <2>4, ByteLimitsAssumption
  <2>7. usage[t].streams + One(claim[l].stream) <= MaxStreamsPerSession
    BY <2>1, <2>2, <2>4, CountLimitsAssumption DEF One
  <2>8. QED
    BY <2>5, <2>6, <2>7
<1>4. \A x \in Scopes : usage'[x].bytes <= MaxSessionBytes
                        /\ usage'[x].streams <= MaxStreamsPerSession
  <2> TAKE x \in Scopes
  <2>1. /\ usage[x].bytes <= MaxSessionBytes /\ usage[x].streams <= MaxStreamsPerSession
        /\ usage[x].bytes \in Int /\ usage[x].streams \in Int
    BY <1>1 DEF TypeOK, Usages
  <2>2. CASE x = owner[l]
    <3>1. SubtractClaim(usage[x], claim[l]) \in Usages
      BY <1>1, ClaimArithmetic
    <3>2. SubtractClaim(usage[x], claim[l]).bytes <= usage[x].bytes
          /\ SubtractClaim(usage[x], claim[l]).streams <= usage[x].streams
      BY <1>1, SmallerUsage
    <3>3. SubtractClaim(usage[x], claim[l]).bytes \in Int
          /\ SubtractClaim(usage[x], claim[l]).streams \in Int
      BY <3>1 DEF Usages
    <3>4. QED
      BY <2>1, <2>2, <3>2, <3>3, <1>2, ByteLimitsAssumption, CountLimitsAssumption
  <2>3. CASE x = t
    BY <2>3, <1>2, <1>3
  <2>4. CASE x \notin {owner[l], t}
    BY <2>1, <2>4, <1>2
  <2>5. QED
    BY <2>2, <2>3, <2>4
<1>5. LeftBehind(owner[l]) \in SUBSET begun /\ LeftBehind(owner[l]) \subseteq closed
  BY <1>1 DEF LeftBehind
<1>6. /\ slots' \in Int /\ pendingHandshakes' \in Int /\ established' \in Int
      /\ slots' <= slots /\ pendingHandshakes' <= pendingHandshakes
      /\ sessions' \subseteq begun /\ retired' \subseteq closed
  <2>1. Retire(LeftBehind(owner[l]))
    BY DEF Transfer
  <2>2. QED
    BY <2>1, <1>5, RetireTypes DEF TypeOK
<1>7. /\ UNCHANGED <<peerUsage, peerClosed, begun, pending, closed,
                     live, released, claim, acceptReserved, bound>>
      /\ owner' = [owner EXCEPT ![l] = t]
  BY DEF Transfer
<1>8. /\ owner' \in [Leases -> Scopes \cup {NoScope}]
      /\ \A k \in live' : owner'[k] \in begun
  BY <1>1, <1>7 DEF TypeOK
<1>9. slots' <= MaxSessions /\ pendingHandshakes' <= MaxPendingHandshakes
  BY <1>6, CountLimitsAssumption DEF TypeOK
<1>10. QED
  BY <1>2, <1>4, <1>6, <1>7, <1>8, <1>9 DEF TypeOK, Usages

\* A lease that gives back part of its claim: only the usage of the Peer and of
\* the owner, and the claim, change, and none of them grows.
LEMMA LowerUsageTypes ==
    ASSUME TypeOK, NEW l \in live, NEW u \in Usages, NEW v \in Usages,
           NEW c \in ClaimRecords,
           usage' = [usage EXCEPT ![owner[l]] = u],
           u.bytes <= usage[owner[l]].bytes, u.streams <= usage[owner[l]].streams,
           peerUsage' = v,
           v.bytes <= peerUsage.bytes, v.reservations <= peerUsage.reservations,
           v.streams <= peerUsage.streams, v.accepts <= peerUsage.accepts,
           claim' = [claim EXCEPT ![l] = c]
    PROVE  /\ peerUsage' \in Usages /\ usage' \in [Scopes -> Usages]
           /\ claim' \in [Leases -> ClaimRecords]
           /\ peerUsage'.bytes <= MaxPeerBytes /\ peerUsage'.reservations <= MaxReservations
           /\ peerUsage'.streams <= MaxPeerStreams /\ peerUsage'.accepts <= MaxPendingAccepts
           /\ \A x \in Scopes : /\ usage'[x].bytes <= MaxSessionBytes
                                /\ usage'[x].streams <= MaxStreamsPerSession
<1>1. /\ peerUsage \in Usages /\ usage \in [Scopes -> Usages]
      /\ claim \in [Leases -> ClaimRecords] /\ owner[l] \in Scopes
  BY DEF TypeOK, Usages, ClaimRecords
<1>2. peerUsage' \in Usages /\ usage' \in [Scopes -> Usages] /\ claim' \in [Leases -> ClaimRecords]
  BY <1>1
<1>3. /\ v.bytes \in Int /\ v.reservations \in Int /\ v.streams \in Int /\ v.accepts \in Int
      /\ peerUsage.bytes \in Int /\ peerUsage.reservations \in Int
      /\ peerUsage.streams \in Int /\ peerUsage.accepts \in Int
      /\ u.bytes \in Int /\ u.streams \in Int
      /\ usage[owner[l]].bytes \in Int /\ usage[owner[l]].streams \in Int
  BY <1>1 DEF Usages
<1>4. /\ peerUsage.bytes <= MaxPeerBytes /\ peerUsage.reservations <= MaxReservations
      /\ peerUsage.streams <= MaxPeerStreams /\ peerUsage.accepts <= MaxPendingAccepts
      /\ \A x \in Scopes : /\ usage[x].bytes <= MaxSessionBytes
                           /\ usage[x].streams <= MaxStreamsPerSession
  BY DEF TypeOK
<1>5. /\ peerUsage'.bytes <= MaxPeerBytes /\ peerUsage'.reservations <= MaxReservations
      /\ peerUsage'.streams <= MaxPeerStreams /\ peerUsage'.accepts <= MaxPendingAccepts
  BY <1>3, <1>4, ByteLimitsAssumption, CountLimitsAssumption
<1>6. \A x \in Scopes : usage'[x].bytes <= MaxSessionBytes
                        /\ usage'[x].streams <= MaxStreamsPerSession
  <2> TAKE x \in Scopes
  <2>1. CASE x = owner[l]
    <3>1. usage'[x] = u
      BY <2>1, <1>1
    <3>2. QED
      BY <3>1, <2>1, <1>1, <1>3, <1>4, ByteLimitsAssumption, CountLimitsAssumption
  <2>2. CASE x # owner[l]
    BY <2>2, <1>1, <1>4
  <2>3. QED
    BY <2>1, <2>2
<1>7. QED
  BY <1>2, <1>5, <1>6

\* MarkAccepted only gives back an accept slot.
LEMMA MarkAcceptedTypes ==
    ASSUME TypeOK, NEW l \in Leases, MarkAccepted(l)
    PROVE  TypeOK'
<1> DEFINE u == [usage[owner[l]] EXCEPT !.accepts = @ - 1]
           v == [peerUsage EXCEPT !.accepts = @ - 1]
           c == Accepted(claim[l])
<1>1. /\ peerUsage \in Usages /\ usage[owner[l]] \in Usages /\ claim[l] \in ClaimRecords
      /\ l \in live
  BY DEF TypeOK, MarkAccepted, Usages, ClaimRecords
<1>2. u \in Usages /\ v \in Usages /\ c \in ClaimRecords
  <2>1. u \in Usages /\ v \in Usages
    BY <1>1 DEF Usages
  <2>2. c \in ClaimRecords
    BY <1>1 DEF ClaimRecords, Accepted
  <2>3. QED
    BY <2>1, <2>2
<1>3. /\ u.bytes <= usage[owner[l]].bytes /\ u.streams <= usage[owner[l]].streams
      /\ v.bytes <= peerUsage.bytes /\ v.reservations <= peerUsage.reservations
      /\ v.streams <= peerUsage.streams /\ v.accepts <= peerUsage.accepts
  BY <1>1 DEF Usages
<1>4. /\ usage' = [usage EXCEPT ![owner[l]] = u]
      /\ peerUsage' = v
      /\ claim' = [claim EXCEPT ![l] = c]
      /\ UNCHANGED <<slots, pendingHandshakes, established, peerClosed, sessions,
                     begun, pending, closed, retired,
                     live, released, owner, acceptReserved, bound>>
  BY DEF MarkAccepted
<1> HIDE DEF u, v, c
<1>5. QED
  BY <1>1, <1>2, <1>3, <1>4, LowerUsageTypes DEF TypeOK, Usages, ClaimRecords

\* ShrinkBytes only gives back bytes.
LEMMA ShrinkBytesTypes ==
    ASSUME TypeOK, NEW l \in Leases, NEW bytes \in Nat, ShrinkBytes(l, bytes)
    PROVE  TypeOK'
<1> DEFINE given == claim[l].bytes - bytes
           u == [usage[owner[l]] EXCEPT !.bytes = @ - given]
           v == [peerUsage EXCEPT !.bytes = @ - given]
           c == [claim[l] EXCEPT !.bytes = bytes]
<1>1. /\ peerUsage \in Usages /\ usage[owner[l]] \in Usages /\ claim[l] \in ClaimRecords
      /\ l \in live
  BY DEF TypeOK, ShrinkBytes, Usages, ClaimRecords
<1>2. given \in Nat
  BY <1>1 DEF ShrinkBytes, ClaimRecords
<1>3. /\ usage' = [usage EXCEPT ![owner[l]] = u]
      /\ peerUsage' = v
      /\ claim' = [claim EXCEPT ![l] = c]
      /\ UNCHANGED <<slots, pendingHandshakes, established, peerClosed, sessions,
                     begun, pending, closed, retired,
                     live, released, owner, acceptReserved, bound>>
  BY DEF ShrinkBytes
<1> HIDE DEF given
<1>4. u \in Usages /\ v \in Usages /\ c \in ClaimRecords
  BY <1>1, <1>2 DEF Usages, ClaimRecords
<1>5. /\ u.bytes <= usage[owner[l]].bytes /\ u.streams <= usage[owner[l]].streams
      /\ v.bytes <= peerUsage.bytes /\ v.reservations <= peerUsage.reservations
      /\ v.streams <= peerUsage.streams /\ v.accepts <= peerUsage.accepts
  BY <1>1, <1>2 DEF Usages
<1> HIDE DEF u, v, c
<1>6. QED
  BY <1>1, <1>3, <1>4, <1>5, LowerUsageTypes DEF TypeOK, Usages, ClaimRecords

\* Release only gives back, and leaves no owner behind.
LEMMA ReleaseTypes ==
    ASSUME TypeOK, Finite, NEW l \in Leases, Release(l)
    PROVE  TypeOK'
<1> DEFINE u == SubtractClaim(usage[owner[l]], claim[l])
           v == SubtractClaim(peerUsage, claim[l])
<1>1. /\ peerUsage \in Usages /\ usage[owner[l]] \in Usages /\ claim[l] \in ClaimRecords
      /\ l \in live /\ owner[l] \in begun /\ Empty \in ClaimRecords
  BY DEF TypeOK, Release, Usages, ClaimRecords, Empty
<1>2. u \in Usages /\ v \in Usages
  BY <1>1, ClaimArithmetic
<1>3. /\ u.bytes <= usage[owner[l]].bytes /\ u.streams <= usage[owner[l]].streams
      /\ v.bytes <= peerUsage.bytes /\ v.reservations <= peerUsage.reservations
      /\ v.streams <= peerUsage.streams /\ v.accepts <= peerUsage.accepts
  BY <1>1, SmallerUsage
<1>4. /\ usage' = [usage EXCEPT ![owner[l]] = u]
      /\ peerUsage' = v
      /\ claim' = [claim EXCEPT ![l] = Empty]
      /\ live' = live \ {l} /\ released' = released \cup {l}
      /\ owner' = [owner EXCEPT ![l] = NoScope]
      /\ UNCHANGED <<peerClosed, begun, pending, closed, acceptReserved, bound>>
      /\ Retire(LeftBehind(owner[l]))
  BY DEF Release, PeerUsageWithout
<1>5. LeftBehind(owner[l]) \in SUBSET begun /\ LeftBehind(owner[l]) \subseteq closed
  BY <1>1 DEF LeftBehind
<1>6. /\ slots' \in Int /\ pendingHandshakes' \in Int /\ established' \in Int
      /\ slots' <= MaxSessions /\ pendingHandshakes' <= MaxPendingHandshakes
      /\ sessions' \subseteq begun /\ retired' \subseteq closed
  BY <1>4, <1>5, RetireTypes, CountLimitsAssumption DEF TypeOK
<1>7. /\ live' \subseteq Leases /\ released' \subseteq Leases
      /\ owner' \in [Leases -> Scopes \cup {NoScope}]
      /\ \A k \in live' : owner'[k] \in begun
  BY <1>4 DEF TypeOK
<1> HIDE DEF u, v
<1>8. QED
  BY <1>1, <1>2, <1>3, <1>4, <1>6, <1>7, LowerUsageTypes DEF TypeOK, Usages, ClaimRecords

\* Closing one scope or all of them.
LEMMA CloseTypes ==
    ASSUME TypeOK, Finite, NEW ss \in SUBSET begun, NEW rs \in SUBSET ss,
           closed' = closed \cup ss, Retire(rs), peerClosed' \in BOOLEAN,
           UNCHANGED <<peerUsage, begun, usage, pending, leaseVars>>
    PROVE  TypeOK'
<1>1. /\ slots' \in Int /\ pendingHandshakes' \in Int /\ established' \in Int
      /\ slots' <= MaxSessions /\ pendingHandshakes' <= MaxPendingHandshakes
      /\ sessions' \subseteq begun /\ retired' \subseteq closed'
  BY RetireTypes, CountLimitsAssumption DEF TypeOK
<1>2. QED
  BY <1>1 DEF TypeOK, leaseVars

\* The Peer and every Session stay under their ceilings: the invariant behind
\* admission (checkClaimLocked, checkSessionClaimLocked and begin).
THEOREM LedgerTypeCorrect == Spec => [](TypeOK /\ Finite)
<1>1. Init => TypeOK /\ Finite
  <2> SUFFICES ASSUME Init PROVE TypeOK /\ Finite
    OBVIOUS
  <2>1. NoUsage \in Usages /\ Empty \in ClaimRecords
    BY DEF NoUsage, Empty, Usages, ClaimRecords
  <2>2. /\ peerUsage \in Usages /\ usage \in [Scopes -> Usages]
        /\ claim \in [Leases -> ClaimRecords]
        /\ owner \in [Leases -> Scopes \cup {NoScope}]
    BY <2>1 DEF Init
  <2>3. /\ peerUsage.bytes = 0 /\ peerUsage.reservations = 0
        /\ peerUsage.streams = 0 /\ peerUsage.accepts = 0
        /\ \A s \in Scopes : usage[s].bytes = 0 /\ usage[s].streams = 0
    BY DEF Init, NoUsage
  <2>4. /\ peerUsage.bytes <= MaxPeerBytes /\ peerUsage.reservations <= MaxReservations
        /\ peerUsage.streams <= MaxPeerStreams /\ peerUsage.accepts <= MaxPendingAccepts
        /\ slots <= MaxSessions /\ pendingHandshakes <= MaxPendingHandshakes
        /\ \A s \in Scopes : /\ usage[s].bytes <= MaxSessionBytes
                             /\ usage[s].streams <= MaxStreamsPerSession
    BY <2>3, ByteLimitsAssumption, CountLimitsAssumption DEF Init
  <2>5. /\ slots \in Int /\ pendingHandshakes \in Int /\ established \in Int
        /\ begun \subseteq Scopes /\ sessions \subseteq begun /\ pending \subseteq begun
        /\ closed \subseteq begun /\ retired \subseteq closed
        /\ live \subseteq Leases /\ released \subseteq Leases
        /\ \A l \in live : owner[l] \in begun
        /\ acceptReserved \subseteq Leases /\ bound \subseteq Leases
    BY DEF Init
  <2>6. Finite
    BY FS_EmptySet DEF Init, Finite
  <2>7. peerClosed \in BOOLEAN
    BY Zenon DEF Init
  <2>8. QED
    BY <2>2, <2>4, <2>5, <2>6, <2>7 DEF TypeOK, Usages, ClaimRecords
<1>2. TypeOK /\ Finite /\ [Next]_vars => TypeOK' /\ Finite'
  <2> SUFFICES ASSUME TypeOK, Finite, [Next]_vars
               PROVE  TypeOK' /\ Finite'
    OBVIOUS
  <2>1. Finite'
    BY StepKeepsFinite
  <2>2. CASE \E s \in Scopes, l \in Leases, c \in Claims, p \in BOOLEAN : Begin(s, l, c, p)
    BY <2>1, <2>2, BeginTypes
  <2>3. CASE \E s \in Scopes, l \in Leases, c \in Claims : Reserve(s, l, c)
    BY <2>1, <2>3, ReserveTypes
  <2>4. ASSUME NEW s \in Scopes, Promote(s)
        PROVE  TypeOK'
    BY <2>4, CountLimitsAssumption DEF TypeOK, Promote, leaseVars
  <2>5. ASSUME NEW s \in Scopes, Close(s)
        PROVE  TypeOK'
    <3>1. {x \in {s} : x \notin retired /\ usage[x].reservations = 0} \in SUBSET {s}
          /\ {s} \in SUBSET begun /\ peerClosed' \in BOOLEAN
      BY <2>5 DEF Close, TypeOK
    <3>2. QED
      BY <3>1, <2>5, CloseTypes DEF Close
  <2>6. CASE \E s \in Scopes, l \in Leases : Transfer(l, s)
    BY <2>1, <2>6, TransferTypes
  <2>7. CASE \E s \in Scopes, l \in Leases, c \in Claims : BindBytes(s, l, c.bytes)
    BY <2>1, <2>7 DEF BindBytes, TypeOK, peerVars, scopeVars
  <2>8. ASSUME NEW l \in Leases, MarkAccepted(l) \/ Release(l)
        PROVE  TypeOK'
    BY <2>8, MarkAcceptedTypes, ReleaseTypes
  <2>9. CASE \E l \in Leases, c \in Claims : ShrinkBytes(l, c.bytes)
    <3>1. \A c \in Claims : c.bytes \in Nat
      BY ClaimsAssumption
    <3>2. QED
      BY <2>1, <2>9, <3>1, ShrinkBytesTypes
  <2>10. CASE PeerClose
    <3>1. {s \in sessions : s \notin retired /\ usage[s].reservations = 0} \in SUBSET sessions
          /\ sessions \in SUBSET begun /\ peerClosed' \in BOOLEAN
      BY <2>10 DEF PeerClose, TypeOK
    <3>2. QED
      BY <2>1, <3>1, <2>10, CloseTypes DEF PeerClose
  <2>11. CASE UNCHANGED vars
    BY <2>1, <2>11 DEF vars, peerVars, scopeVars, leaseVars, TypeOK
  <2>12. QED
    BY <2>1, <2>2, <2>3, <2>4, <2>5, <2>6, <2>7, <2>8, <2>9, <2>10, <2>11 DEF Next
<1>3. QED
  BY <1>1, <1>2, PTL DEF Spec

----------------------------------------------------------------------------
(* The counts of the leases                                                *)

\* The counts of a usage u are those of the leases ls with the claims cl.
Counted(u, cl, ls) ==
    /\ u.reservations = Cardinality(ls)
    /\ u.streams = Cardinality({l \in ls : cl[l].stream})
    /\ u.accepts = Cardinality({l \in ls : cl[l].accept})

\* What chargeLocked adds for a lease is what the lease adds to the counts.
LEMMA CountedWith ==
    ASSUME NEW u \in Usages, NEW c \in ClaimRecords, NEW cl, NEW cl2, NEW ls, NEW l,
           IsFiniteSet(ls), l \notin ls, Counted(u, cl, ls),
           \A k \in ls : cl2[k] = cl[k], cl2[l] = c
    PROVE  Counted(AddClaim(u, c), cl2, ls \cup {l})
<1> DEFINE S == {k \in ls : cl[k].stream}
           A == {k \in ls : cl[k].accept}
           S2 == {k \in ls \cup {l} : cl2[k].stream}
           A2 == {k \in ls \cup {l} : cl2[k].accept}
<1>1. IsFiniteSet(S) /\ IsFiniteSet(A)
  BY FS_Subset
<1>2. /\ Cardinality(ls) \in Nat /\ Cardinality(S) \in Nat /\ Cardinality(A) \in Nat
      /\ Cardinality(ls \cup {l}) = Cardinality(ls) + 1
  BY <1>1, FS_CardinalityType, FS_AddElement
<1>3. S2 = IF c.stream THEN S \cup {l} ELSE S
  OBVIOUS
<1>4. A2 = IF c.accept THEN A \cup {l} ELSE A
  OBVIOUS
<1>5. l \notin S /\ l \notin A
  OBVIOUS
<1> HIDE DEF S, A, S2, A2
<1>6. Cardinality(S \cup {l}) = Cardinality(S) + 1 /\ Cardinality(A \cup {l}) = Cardinality(A) + 1
  BY <1>1, <1>5, FS_AddElement
<1>7. Cardinality(S2) = Cardinality(S) + One(c.stream)
  BY <1>2, <1>3, <1>6 DEF One
<1>8. Cardinality(A2) = Cardinality(A) + One(c.accept)
  BY <1>2, <1>4, <1>6 DEF One
<1>9. /\ u.reservations = Cardinality(ls) /\ u.streams = Cardinality(S)
      /\ u.accepts = Cardinality(A)
  BY DEF Counted, S, A
<1>10. QED
  BY <1>2, <1>7, <1>8, <1>9 DEF Counted, AddClaim, S2, A2

\* What is subtracted for a lease is what it takes from the counts.
LEMMA CountedWithout ==
    ASSUME NEW u \in Usages, NEW cl, NEW cl2, NEW ls, NEW l \in ls, cl[l] \in ClaimRecords,
           IsFiniteSet(ls), Counted(u, cl, ls),
           \A k \in ls \ {l} : cl2[k] = cl[k]
    PROVE  Counted(SubtractClaim(u, cl[l]), cl2, ls \ {l})
<1> DEFINE S == {k \in ls : cl[k].stream}
           A == {k \in ls : cl[k].accept}
           S2 == {k \in ls \ {l} : cl2[k].stream}
           A2 == {k \in ls \ {l} : cl2[k].accept}
<1>1. IsFiniteSet(S) /\ IsFiniteSet(A)
  BY FS_Subset
<1>2. /\ Cardinality(ls) \in Nat /\ Cardinality(S) \in Nat /\ Cardinality(A) \in Nat
      /\ Cardinality(ls \ {l}) = Cardinality(ls) - 1
  BY <1>1, FS_CardinalityType, FS_RemoveElement
<1>3. S2 = S \ {l} /\ A2 = A \ {l}
  OBVIOUS
<1>4. (l \in S <=> cl[l].stream) /\ (l \in A <=> cl[l].accept)
  OBVIOUS
<1> HIDE DEF S, A, S2, A2
<1>5. /\ Cardinality(S2) = IF l \in S THEN Cardinality(S) - 1 ELSE Cardinality(S)
      /\ Cardinality(A2) = IF l \in A THEN Cardinality(A) - 1 ELSE Cardinality(A)
  BY <1>1, <1>3, FS_RemoveElement
<1>6. Cardinality(S2) = Cardinality(S) - One(cl[l].stream)
  BY <1>2, <1>4, <1>5 DEF One
<1>7. Cardinality(A2) = Cardinality(A) - One(cl[l].accept)
  BY <1>2, <1>4, <1>5 DEF One
<1>8. /\ u.reservations = Cardinality(ls) /\ u.streams = Cardinality(S)
      /\ u.accepts = Cardinality(A)
  BY DEF Counted, S, A
<1>9. QED
  BY <1>2, <1>6, <1>7, <1>8 DEF Counted, SubtractClaim, S2, A2

\* MarkAccepted takes one from the accepts and leaves the other counts.
LEMMA CountedAccepted ==
    ASSUME NEW u \in Usages, NEW cl, NEW cl2, NEW ls, NEW l \in ls, cl[l].accept,
           IsFiniteSet(ls), Counted(u, cl, ls),
           \A k \in ls \ {l} : cl2[k] = cl[k], cl2[l] = Accepted(cl[l])
    PROVE  Counted([u EXCEPT !.accepts = @ - 1], cl2, ls)
<1> DEFINE A == {k \in ls : cl[k].accept}
<1>1. /\ {k \in ls : cl2[k].stream} = {k \in ls : cl[k].stream}
      /\ {k \in ls : cl2[k].accept} = A \ {l}
  <2>1. cl2[l].stream = cl[l].stream /\ ~cl2[l].accept
    BY DEF Accepted
  <2>2. QED
    BY <2>1
<1>2. Cardinality(A \ {l}) = Cardinality(A) - 1
  BY FS_Subset, FS_RemoveElement
<1>3. QED
  BY <1>1, <1>2 DEF Counted, Usages

\* Counts see neither the bytes of a usage nor those of a claim.
LEMMA CountedSame ==
    ASSUME NEW u, NEW v, NEW cl, NEW cl2, NEW ls, Counted(u, cl, ls),
           v.reservations = u.reservations, v.streams = u.streams, v.accepts = u.accepts,
           \A k \in ls : cl2[k].stream = cl[k].stream /\ cl2[k].accept = cl[k].accept
    PROVE  Counted(v, cl2, ls)
<1>1. {k \in ls : cl2[k].stream} = {k \in ls : cl[k].stream}
  OBVIOUS
<1>2. {k \in ls : cl2[k].accept} = {k \in ls : cl[k].accept}
  OBVIOUS
<1>3. QED
  BY <1>1, <1>2 DEF Counted

\* CountsExact, said with Counted.
LEMMA CountsAreCounted ==
    /\ CountsExact <=> /\ Counted(peerUsage, claim, live)
                       /\ \A s \in Scopes : Counted(usage[s], claim, Owned(s))
    /\ CountsExact' <=> /\ Counted(peerUsage', claim', live')
                        /\ \A s \in Scopes : Counted(usage'[s], claim', Owned(s)')
BY DEF CountsExact, Counted, Streams, Accepts

\* The leases of every scope are finitely many.
LEMMA OwnedFinite ==
    ASSUME Finite, NEW s
    PROVE  IsFiniteSet(Owned(s))
BY FS_Subset DEF Finite, Owned

\* A grant counts the new lease, at the Peer and at its owner.
LEMMA GrantCounts ==
    ASSUME TypeOK, Finite, CountsExact, NEW s \in Scopes, NEW l, NEW c \in Claims,
           Grant(s, l, c)
    PROVE  CountsExact'
<1>1. /\ peerUsage \in Usages /\ usage \in [Scopes -> Usages]
      /\ c \in ClaimRecords /\ claim \in [Leases -> ClaimRecords]
  BY ClaimsAssumption DEF TypeOK, Usages, ClaimRecords
<1>2. /\ l \in Leases /\ l \notin live /\ live' = live \cup {l} /\ live \subseteq Leases
      /\ owner' = [owner EXCEPT ![l] = s] /\ claim' = [claim EXCEPT ![l] = c]
      /\ peerUsage' = AddClaim(peerUsage, c)
      /\ usage' = [usage EXCEPT ![s] = AddClaim(usage[s], c)]
  BY DEF Grant, TypeOK
<1>3. claim'[l] = c /\ \A k \in live : claim'[k] = claim[k]
  BY <1>1, <1>2
<1>4. Counted(peerUsage', claim', live')
  <2>1. IsFiniteSet(live) /\ Counted(peerUsage, claim, live)
    BY CountsAreCounted DEF Finite
  <2>2. QED
    BY <2>1, <1>1, <1>2, <1>3, CountedWith
<1>5. ASSUME NEW x \in Scopes
      PROVE  Counted(usage'[x], claim', Owned(x)')
  <2>1. IsFiniteSet(Owned(x)) /\ Counted(usage[x], claim, Owned(x)) /\ Owned(x) \subseteq live
    BY CountsAreCounted, OwnedFinite DEF Owned
  <2>2. CASE x = s
    <3>1. Owned(x)' = Owned(x) \cup {l} /\ usage'[x] = AddClaim(usage[x], c)
      BY <1>1, <1>2, <2>2 DEF Owned, TypeOK
    <3>2. usage[x] \in Usages /\ l \notin Owned(x) /\ \A k \in Owned(x) : claim'[k] = claim[k]
      BY <1>1, <1>2, <1>3, <2>1
    <3>3. Counted(AddClaim(usage[x], c), claim', Owned(x) \cup {l})
      BY <1>1, <1>3, <2>1, <3>2, CountedWith
    <3>4. QED
      BY <3>1, <3>3
  <2>3. CASE x # s
    <3>1. Owned(x)' = Owned(x) /\ usage'[x] = usage[x]
      BY <1>1, <1>2, <2>3 DEF Owned, TypeOK
    <3>2. QED
      BY <3>1, <1>3, <2>1, CountedSame
  <2>4. QED
    BY <2>2, <2>3
<1>6. QED
  BY <1>4, <1>5, CountsAreCounted

\* A transfer moves the lease's counts from one scope to the other.
LEMMA TransferCounts ==
    ASSUME TypeOK, Finite, CountsExact, NEW l \in Leases, NEW t \in Scopes, Transfer(l, t)
    PROVE  CountsExact'
<1>1. /\ usage \in [Scopes -> Usages] /\ claim[l] \in ClaimRecords
      /\ l \in live /\ owner[l] \in Scopes /\ owner[l] # t
      /\ owner \in [Leases -> Scopes \cup {NoScope}] /\ live \subseteq Leases
  BY DEF TypeOK, Usages, ClaimRecords, Transfer
<1>2. /\ usage' = MovedUsage(l, t) /\ owner' = [owner EXCEPT ![l] = t]
      /\ UNCHANGED <<peerUsage, live, claim>>
  BY DEF Transfer
<1>3. ASSUME NEW x \in Scopes
      PROVE  Counted(usage'[x], claim', Owned(x)')
  <2>1. IsFiniteSet(Owned(x)) /\ Counted(usage[x], claim, Owned(x)) /\ usage[x] \in Usages
    BY <1>1, CountsAreCounted, OwnedFinite
  <2>2. CASE x = owner[l]
    <3>1. /\ Owned(x)' = Owned(x) \ {l} /\ l \in Owned(x)
          /\ usage'[x] = SubtractClaim(usage[x], claim[l])
      BY <1>1, <1>2, <2>2 DEF Owned, MovedUsage
    <3>2. QED
      BY <3>1, <1>1, <1>2, <2>1, CountedWithout
  <2>3. CASE x = t
    <3>1. /\ Owned(x)' = Owned(x) \cup {l} /\ l \notin Owned(x)
          /\ usage'[x] = AddClaim(usage[x], claim[l])
      BY <1>1, <1>2, <2>3 DEF Owned, MovedUsage
    <3>2. QED
      BY <3>1, <1>1, <1>2, <2>1, CountedWith
  <2>4. CASE x # owner[l] /\ x # t
    <3>1. Owned(x)' = Owned(x) /\ usage'[x] = usage[x]
      BY <1>1, <1>2, <2>4 DEF Owned, MovedUsage
    <3>2. QED
      BY <3>1, <1>2, <2>1
  <2>5. QED
    BY <2>2, <2>3, <2>4
<1>4. QED
  BY <1>2, <1>3, CountsAreCounted

\* A release takes the lease, with the claim it has by then, from both counts.
LEMMA ReleaseCounts ==
    ASSUME TypeOK, Finite, CountsExact, NEW l \in Leases, Release(l)
    PROVE  CountsExact'
<1>1. /\ peerUsage \in Usages /\ usage \in [Scopes -> Usages] /\ claim[l] \in ClaimRecords
      /\ l \in live /\ owner[l] \in Scopes /\ live \subseteq Leases
      /\ owner \in [Leases -> Scopes \cup {NoScope}]
      /\ claim \in [Leases -> ClaimRecords]
  BY DEF TypeOK, Usages, ClaimRecords, Release
<1>2. /\ live' = live \ {l} /\ owner' = [owner EXCEPT ![l] = NoScope]
      /\ claim' = [claim EXCEPT ![l] = Empty]
      /\ usage' = [usage EXCEPT ![owner[l]] = SubtractClaim(usage[owner[l]], claim[l])]
      /\ peerUsage' = SubtractClaim(peerUsage, claim[l])
  BY DEF Release, PeerUsageWithout
<1>3. \A k \in live \ {l} : claim'[k] = claim[k]
  BY <1>1, <1>2
<1>4. Counted(peerUsage', claim', live')
  <2>1. IsFiniteSet(live) /\ Counted(peerUsage, claim, live)
    BY CountsAreCounted DEF Finite
  <2>2. QED
    BY <2>1, <1>1, <1>2, <1>3, CountedWithout
<1>5. ASSUME NEW x \in Scopes
      PROVE  Counted(usage'[x], claim', Owned(x)')
  <2>1. /\ IsFiniteSet(Owned(x)) /\ Counted(usage[x], claim, Owned(x)) /\ usage[x] \in Usages
        /\ Owned(x) \subseteq live
    BY <1>1, CountsAreCounted, OwnedFinite DEF Owned
  <2>2. CASE x = owner[l]
    <3>1. /\ Owned(x)' = Owned(x) \ {l} /\ l \in Owned(x)
          /\ usage'[x] = SubtractClaim(usage[x], claim[l])
      BY <1>1, <1>2, <2>2 DEF Owned
    <3>2. \A k \in Owned(x) \ {l} : claim'[k] = claim[k]
      BY <1>3, <2>1
    <3>3. Counted(SubtractClaim(usage[x], claim[l]), claim', Owned(x) \ {l})
      BY <3>1, <3>2, <1>1, <2>1, CountedWithout
    <3>4. QED
      BY <3>1, <3>3
  <2>3. CASE x # owner[l]
    <3>1. Owned(x)' = Owned(x) /\ usage'[x] = usage[x] /\ l \notin Owned(x)
      BY <1>1, <1>2, <2>3 DEF Owned
    <3>2. QED
      BY <3>1, <1>3, <2>1, CountedSame
  <2>4. QED
    BY <2>2, <2>3
<1>6. QED
  BY <1>4, <1>5, CountsAreCounted

\* An accepted lease stops counting as one to accept, at the Peer and its owner.
LEMMA MarkAcceptedCounts ==
    ASSUME TypeOK, Finite, CountsExact, NEW l \in Leases, MarkAccepted(l)
    PROVE  CountsExact'
<1>1. /\ peerUsage \in Usages /\ usage \in [Scopes -> Usages]
      /\ l \in live /\ owner[l] \in Scopes /\ live \subseteq Leases /\ claim[l].accept
      /\ claim \in [Leases -> ClaimRecords]
  BY DEF TypeOK, Usages, ClaimRecords, MarkAccepted
<1>2. /\ claim' = [claim EXCEPT ![l] = Accepted(claim[l])]
      /\ usage' = [usage EXCEPT ![owner[l]] = [usage[owner[l]] EXCEPT !.accepts = @ - 1]]
      /\ peerUsage' = [peerUsage EXCEPT !.accepts = @ - 1]
      /\ UNCHANGED <<live, owner>>
  BY DEF MarkAccepted
<1>3. claim'[l] = Accepted(claim[l]) /\ \A k \in live \ {l} : claim'[k] = claim[k]
  BY <1>1, <1>2
<1>4. Counted(peerUsage', claim', live')
  <2>1. IsFiniteSet(live) /\ Counted(peerUsage, claim, live)
    BY CountsAreCounted DEF Finite
  <2>2. Counted([peerUsage EXCEPT !.accepts = @ - 1], claim', live)
    BY <2>1, <1>1, <1>3, CountedAccepted
  <2>3. QED
    BY <2>2, <1>2
<1>5. ASSUME NEW x \in Scopes
      PROVE  Counted(usage'[x], claim', Owned(x)')
  <2>1. /\ IsFiniteSet(Owned(x)) /\ Counted(usage[x], claim, Owned(x)) /\ usage[x] \in Usages
        /\ Owned(x) \subseteq live /\ Owned(x)' = Owned(x)
    BY <1>1, <1>2, CountsAreCounted, OwnedFinite DEF Owned
  <2>2. CASE x = owner[l]
    <3>1. l \in Owned(x) /\ usage'[x] = [usage[x] EXCEPT !.accepts = @ - 1]
      BY <1>1, <1>2, <2>2 DEF Owned
    <3>2. \A k \in Owned(x) \ {l} : claim'[k] = claim[k]
      BY <1>3, <2>1
    <3>3. Counted([usage[x] EXCEPT !.accepts = @ - 1], claim', Owned(x))
      BY <3>1, <3>2, <1>1, <1>3, <2>1, CountedAccepted
    <3>4. QED
      BY <3>1, <3>3, <2>1
  <2>3. CASE x # owner[l]
    <3>1. usage'[x] = usage[x] /\ l \notin Owned(x)
      BY <1>1, <1>2, <2>3 DEF Owned
    <3>2. QED
      BY <3>1, <1>3, <2>1, CountedSame
  <2>4. QED
    BY <2>2, <2>3
<1>6. QED
  BY <1>4, <1>5, CountsAreCounted

\* Giving back bytes changes no count.
LEMMA ShrinkBytesCounts ==
    ASSUME TypeOK, CountsExact, NEW l \in Leases, NEW bytes, ShrinkBytes(l, bytes)
    PROVE  CountsExact'
<1>1. /\ peerUsage \in Usages /\ usage \in [Scopes -> Usages]
      /\ claim \in [Leases -> ClaimRecords] /\ live \subseteq Leases
  BY DEF TypeOK, Usages, ClaimRecords
<1>2. /\ claim' = [claim EXCEPT ![l].bytes = bytes]
      /\ UNCHANGED <<live, owner>>
  BY DEF ShrinkBytes
<1>3. \A k \in live : claim'[k].stream = claim[k].stream /\ claim'[k].accept = claim[k].accept
  BY <1>1, <1>2 DEF ClaimRecords
<1>4. /\ peerUsage'.reservations = peerUsage.reservations
      /\ peerUsage'.streams = peerUsage.streams /\ peerUsage'.accepts = peerUsage.accepts
  BY <1>1 DEF ShrinkBytes, Usages
<1>5. \A x \in Scopes : /\ usage'[x].reservations = usage[x].reservations
                        /\ usage'[x].streams = usage[x].streams
                        /\ usage'[x].accepts = usage[x].accepts
  <2> DEFINE given == claim[l].bytes - bytes
  <2>1. usage' = [usage EXCEPT ![owner[l]] = [usage[owner[l]] EXCEPT !.bytes = @ - given]]
    BY DEF ShrinkBytes
  <2> HIDE DEF given
  <2>2. QED
    BY <1>1, <2>1 DEF Usages
<1>6. Counted(peerUsage', claim', live')
  <2>1. Counted(peerUsage, claim, live)
    BY CountsAreCounted
  <2>2. Counted(peerUsage', claim', live)
    BY <2>1, <1>3, <1>4, CountedSame
  <2>3. QED
    BY <2>2, <1>2
<1>7. ASSUME NEW x \in Scopes
      PROVE  Counted(usage'[x], claim', Owned(x)')
  <2>1. Owned(x)' = Owned(x) /\ Owned(x) \subseteq live /\ Counted(usage[x], claim, Owned(x))
    BY <1>2, CountsAreCounted DEF Owned
  <2>2. QED
    BY <2>1, <1>3, <1>5, CountedSame
<1>8. QED
  BY <1>6, <1>7, CountsAreCounted

\* Steps that leave the leases and the usages alone leave the counts alone.
LEMMA CountsUnchanged ==
    ASSUME CountsExact, UNCHANGED <<peerUsage, usage, live, owner, claim>>
    PROVE  CountsExact'
<1>1. \A s \in Scopes : Owned(s)' = Owned(s)
  BY DEF Owned
<1>2. QED
  BY <1>1, CountsAreCounted

\* Every operation keeps the counts exact.
LEMMA StepKeepsCounts ==
    ASSUME TypeOK, Finite, CountsExact, [Next]_vars
    PROVE  CountsExact'
<1>1. ASSUME NEW s \in Scopes, NEW l \in Leases, NEW c \in Claims, NEW p \in BOOLEAN,
             Begin(s, l, c, p)
      PROVE  CountsExact'
  BY <1>1, GrantCounts, CountsUnchanged DEF Begin, leaseVars
<1>2. ASSUME NEW s \in Scopes, NEW l \in Leases, NEW c \in Claims, Reserve(s, l, c)
      PROVE  CountsExact'
  BY <1>2, GrantCounts DEF Reserve
<1>3. ASSUME NEW s \in Scopes, Promote(s) \/ Close(s)
      PROVE  CountsExact'
  BY <1>3, CountsUnchanged DEF Promote, Close, leaseVars
<1>4. ASSUME NEW s, NEW l, NEW b, BindBytes(s, l, b)
      PROVE  CountsExact'
  BY <1>4, CountsUnchanged DEF BindBytes, peerVars, scopeVars
<1>5. CASE PeerClose
  BY <1>5, CountsUnchanged DEF PeerClose, leaseVars
<1>6. CASE UNCHANGED vars
  BY <1>6, CountsUnchanged DEF vars, peerVars, scopeVars, leaseVars
<1>7. ASSUME NEW l \in Leases, NEW s \in Scopes, Transfer(l, s)
      PROVE  CountsExact'
  BY <1>7, TransferCounts
<1>8. ASSUME NEW l \in Leases, MarkAccepted(l) \/ Release(l)
      PROVE  CountsExact'
  BY <1>8, MarkAcceptedCounts, ReleaseCounts
<1>9. ASSUME NEW l \in Leases, NEW c \in Claims, ShrinkBytes(l, c.bytes)
      PROVE  CountsExact'
  BY <1>9, ShrinkBytesCounts
<1>10. QED
  BY <1>1, <1>2, <1>3, <1>4, <1>5, <1>6, <1>7, <1>8, <1>9 DEF Next

\* Whatever the limits and however the callers interleave, no reservation, stream
\* or accept slot of the Peer or of a Session leaks or is given back twice.
THEOREM LedgerCountsExact == Spec => []CountsExact
<1>1. Init => CountsExact
  <2> SUFFICES ASSUME Init PROVE CountsExact
    OBVIOUS
  <2>1. live = {} /\ \A s \in Scopes : Owned(s) = {}
    BY DEF Init, Owned
  <2>2. /\ Streams({}) = {} /\ Accepts({}) = {}
    BY DEF Streams, Accepts
  <2>3. /\ peerUsage.reservations = 0 /\ peerUsage.streams = 0 /\ peerUsage.accepts = 0
        /\ \A s \in Scopes : /\ usage[s].reservations = 0
                             /\ usage[s].streams = 0 /\ usage[s].accepts = 0
    BY DEF Init, NoUsage
  <2>4. QED
    BY <2>1, <2>2, <2>3, FS_EmptySet DEF CountsExact
<1>2. TypeOK /\ Finite /\ CountsExact /\ [Next]_vars => CountsExact'
  BY StepKeepsCounts
<1>3. QED
  BY <1>1, <1>2, LedgerTypeCorrect, PTL DEF Spec

----------------------------------------------------------------------------
(* The slots of the Sessions                                               *)

\* The counts of reservations tell whether a scope still holds a lease.
LEMMA HoldsNothing ==
    ASSUME Finite, CountsExact, NEW s \in Scopes
    PROVE  /\ usage[s].reservations = 0 <=> Owned(s) = {}
           /\ \A l \in Owned(s) : usage[s].reservations = 1 <=> Owned(s) = {l}
<1>1. IsFiniteSet(Owned(s)) /\ usage[s].reservations = Cardinality(Owned(s))
  BY OwnedFinite DEF CountsExact
<1>2. usage[s].reservations = 0 <=> Owned(s) = {}
  BY <1>1, FS_EmptySet
<1>3. ASSUME NEW l \in Owned(s)
      PROVE  usage[s].reservations = 1 <=> Owned(s) = {l}
  <2>1. IsFiniteSet(Owned(s) \ {l}) /\ Cardinality(Owned(s) \ {l}) = Cardinality(Owned(s)) - 1
    BY <1>1, FS_RemoveElement
  <2>2. Cardinality(Owned(s) \ {l}) = 0 <=> Owned(s) \ {l} = {}
    BY <2>1, FS_EmptySet
  <2>3. Cardinality(Owned(s)) \in Nat
    BY <1>1, FS_CardinalityType
  <2>4. QED
    BY <1>1, <2>1, <2>2, <2>3
<1>4. QED
  BY <1>2, <1>3

\* retireLocked gives back exactly the slots of the scopes it retires.
LEMMA RetireSlots ==
    ASSUME TypeOK, Finite, SlotsExact, NEW ss \in SUBSET sessions, Retire(ss),
           UNCHANGED <<begun, pending>>
    PROVE  /\ sessions' = begun' \ retired'
           /\ slots' = Cardinality(sessions')
           /\ pendingHandshakes' = Cardinality(sessions' \cap pending')
           /\ established' = Cardinality(sessions' \ pending')
<1>1. IsFiniteSet(sessions) /\ sessions = begun \ retired
  BY FS_Subset DEF Finite, SlotsExact, TypeOK
<1>2. IsFiniteSet(sessions \cap pending) /\ IsFiniteSet(sessions \ pending)
  BY <1>1, FS_Subset
<1>3. /\ sessions \cap ss = ss
      /\ (sessions \cap pending) \cap (ss \cap pending) = ss \cap pending
      /\ (sessions \ pending) \cap (ss \ pending) = ss \ pending
      /\ (sessions \cap pending) \ (ss \cap pending) = (sessions \ ss) \cap pending
      /\ (sessions \ pending) \ (ss \ pending) = (sessions \ ss) \ pending
  OBVIOUS
<1>4. /\ Cardinality(sessions \ ss) = Cardinality(sessions) - Cardinality(ss)
      /\ Cardinality((sessions \ ss) \cap pending)
           = Cardinality(sessions \cap pending) - Cardinality(ss \cap pending)
      /\ Cardinality((sessions \ ss) \ pending)
           = Cardinality(sessions \ pending) - Cardinality(ss \ pending)
  <2>1. Cardinality(sessions \ ss) = Cardinality(sessions) - Cardinality(sessions \cap ss)
    BY <1>1, FS_Difference
  <2>2. Cardinality((sessions \cap pending) \ (ss \cap pending))
           = Cardinality(sessions \cap pending) - Cardinality((sessions \cap pending) \cap (ss \cap pending))
    BY <1>2, FS_Difference
  <2>3. Cardinality((sessions \ pending) \ (ss \ pending))
           = Cardinality(sessions \ pending) - Cardinality((sessions \ pending) \cap (ss \ pending))
    BY <1>2, FS_Difference
  <2>4. QED
    BY <2>1, <2>2, <2>3, <1>3
<1>5. sessions' = sessions \ ss /\ retired' = retired \cup ss
  BY DEF Retire
<1>6. QED
  BY <1>1, <1>4, <1>5 DEF Retire, SlotsExact

\* A new scope takes a slot, as a handshake or as a Session.
LEMMA BeginSlots ==
    ASSUME TypeOK, Finite, SlotsExact, NEW s \in Scopes, NEW l \in Leases, NEW c,
           NEW p \in BOOLEAN, Begin(s, l, c, p)
    PROVE  SlotsExact'
<1>1. /\ s \notin begun /\ sessions = begun \ retired /\ pending \subseteq begun
      /\ closed \subseteq begun /\ sessions \subseteq begun
      /\ begun' = begun \cup {s} /\ sessions' = sessions \cup {s}
      /\ closed' = closed /\ retired' = retired /\ peerClosed' = peerClosed /\ ~peerClosed
      /\ pending' = IF p THEN pending \cup {s} ELSE pending
      /\ retired \subseteq closed
  BY DEF Begin, TypeOK, SlotsExact
<1>2. \A x \in closed : Owned(x)' = Owned(x)
  <2>1. CASE UNCHANGED leaseVars
    BY <2>1 DEF leaseVars, Owned
  <2>2. CASE Grant(s, l, c)
    BY <2>2, <1>1 DEF Grant, Owned, TypeOK
  <2>3. QED
    BY <2>1, <2>2 DEF Begin
<1>3. retired' = {x \in closed' : Owned(x)' = {}}
  BY <1>1, <1>2 DEF SlotsExact
<1>4. /\ IsFiniteSet(sessions) /\ IsFiniteSet(sessions \cap pending)
      /\ IsFiniteSet(sessions \ pending)
  BY FS_Subset DEF Finite, TypeOK
<1>5. /\ Cardinality(sessions \cup {s}) = Cardinality(sessions) + 1
      /\ Cardinality((sessions \cap pending) \cup {s}) = Cardinality(sessions \cap pending) + 1
      /\ Cardinality((sessions \ pending) \cup {s}) = Cardinality(sessions \ pending) + 1
      /\ Cardinality(sessions \cap pending) \in Nat /\ Cardinality(sessions \ pending) \in Nat
  BY <1>1, <1>4, FS_AddElement, FS_CardinalityType
<1>6. /\ pendingHandshakes = Cardinality(sessions \cap pending)
      /\ established = Cardinality(sessions \ pending) /\ slots = Cardinality(sessions)
      /\ pendingHandshakes' = pendingHandshakes + One(p)
      /\ established' = established + One(~p) /\ slots' = slots + 1
  BY DEF SlotsExact, Begin
<1>7. /\ pendingHandshakes' = Cardinality(sessions' \cap pending')
      /\ established' = Cardinality(sessions' \ pending')
  <2>1. CASE p
    <3>1. /\ sessions' \cap pending' = (sessions \cap pending) \cup {s}
          /\ sessions' \ pending' = sessions \ pending
      BY <1>1, <2>1
    <3>2. QED
      BY <3>1, <1>5, <1>6, <2>1 DEF One
  <2>2. CASE ~p
    <3>1. /\ sessions' \cap pending' = sessions \cap pending
          /\ sessions' \ pending' = (sessions \ pending) \cup {s}
      BY <1>1, <2>2
    <3>2. QED
      BY <3>1, <1>5, <1>6, <2>2 DEF One
  <2>3. QED
    BY <2>1, <2>2
<1>8. sessions' = begun' \ retired' /\ slots' = Cardinality(sessions')
  BY <1>1, <1>5, <1>6
<1>9. QED
  BY <1>1, <1>3, <1>7, <1>8 DEF SlotsExact

\* Promote turns the slot of a handshake into that of a Session.
LEMMA PromoteSlots ==
    ASSUME TypeOK, Finite, SlotsExact, NEW s \in Scopes, Promote(s)
    PROVE  SlotsExact'
<1>1. /\ s \in sessions /\ s \in pending /\ pending' = pending \ {s}
      /\ UNCHANGED <<slots, peerClosed, sessions, begun, closed, retired>>
  BY DEF Promote, SlotsExact, TypeOK
<1>2. \A x : Owned(x)' = Owned(x)
  BY DEF Promote, leaseVars, Owned
<1>3. IsFiniteSet(sessions \cap pending) /\ IsFiniteSet(sessions \ pending)
  BY FS_Subset DEF Finite, TypeOK
<1>4. /\ Cardinality((sessions \cap pending) \ {s}) = Cardinality(sessions \cap pending) - 1
      /\ Cardinality((sessions \ pending) \cup {s}) = Cardinality(sessions \ pending) + 1
  BY <1>1, <1>3, FS_AddElement, FS_RemoveElement
<1>5. /\ sessions' \cap pending' = (sessions \cap pending) \ {s}
      /\ sessions' \ pending' = (sessions \ pending) \cup {s}
  BY <1>1
<1>6. /\ pendingHandshakes' = Cardinality(sessions' \cap pending')
      /\ established' = Cardinality(sessions' \ pending')
  BY <1>4, <1>5 DEF Promote, SlotsExact
<1>7. QED
  BY <1>1, <1>2, <1>6 DEF SlotsExact

\* The scope a lease leaves, by Transfer or Release, is retired if and only if it
\* is closed and that was its last lease.
LEMMA LeavingSlots ==
    ASSUME TypeOK, Finite, CountsExact, SlotsExact, NEW l, l \in live,
           NEW s, s = owner[l], Retire(LeftBehind(s)),
           UNCHANGED <<peerClosed, begun, pending, closed>>,
           Owned(s)' = Owned(s) \ {l},
           \A x \in closed \ {s} : Owned(x)' = Owned(x)
    PROVE  SlotsExact'
<1>1. s \in begun /\ s \in Scopes /\ l \in Owned(s)
  BY DEF TypeOK, Owned
<1>2. usage[s].reservations = 1 <=> Owned(s) = {l}
  BY <1>1, HoldsNothing
<1>3. s \notin retired
  BY <1>1 DEF SlotsExact
<1>4. LeftBehind(s) = IF s \in closed /\ Owned(s) = {l} THEN {s} ELSE {}
  BY <1>2, <1>3 DEF LeftBehind
<1>5. LeftBehind(s) \in SUBSET sessions
  BY <1>1, <1>3, <1>4 DEF SlotsExact
<1>6. /\ sessions' = begun' \ retired' /\ slots' = Cardinality(sessions')
      /\ pendingHandshakes' = Cardinality(sessions' \cap pending')
      /\ established' = Cardinality(sessions' \ pending')
  BY <1>5, RetireSlots
<1>7. retired' = {x \in closed' : Owned(x)' = {}}
  <2>1. retired' = retired \cup LeftBehind(s) /\ retired = {x \in closed : Owned(x) = {}}
    BY DEF Retire, SlotsExact
  <2>2. Owned(s)' = {} <=> Owned(s) = {l}
    BY <1>1
  <2>3. ASSUME NEW x
        PROVE  x \in retired' <=> x \in closed /\ Owned(x)' = {}
    <3>1. CASE x = s
      BY <3>1, <1>3, <1>4, <2>1, <2>2
    <3>2. CASE x # s
      BY <3>2, <1>4, <2>1
    <3>3. QED
      BY <3>1, <3>2
  <2>4. QED
    BY <2>3
<1>8. QED
  BY <1>6, <1>7 DEF SlotsExact

\* Closing scopes retires those that hold nothing and were not retired before.
LEMMA CloseSlots ==
    ASSUME TypeOK, Finite, CountsExact, SlotsExact, NEW ss \in SUBSET begun,
           closed' = closed \cup ss,
           Retire({x \in ss : x \notin retired /\ usage[x].reservations = 0}),
           UNCHANGED <<begun, pending, leaseVars>>,
           peerClosed' => closed' = begun'
    PROVE  SlotsExact'
<1> DEFINE rs == {x \in ss : x \notin retired /\ usage[x].reservations = 0}
<1>1. rs \in SUBSET sessions
  BY DEF SlotsExact
<1>2. \A x : Owned(x)' = Owned(x)
  BY DEF leaseVars, Owned
<1>3. \A x \in ss : usage[x].reservations = 0 <=> Owned(x) = {}
  BY HoldsNothing DEF TypeOK
<1>4. /\ sessions' = begun' \ retired' /\ slots' = Cardinality(sessions')
      /\ pendingHandshakes' = Cardinality(sessions' \cap pending')
      /\ established' = Cardinality(sessions' \ pending')
  BY <1>1, RetireSlots
<1>5. retired' = {x \in closed' : Owned(x)' = {}}
  <2>1. retired' = retired \cup rs /\ retired = {x \in closed : Owned(x) = {}}
    BY DEF Retire, SlotsExact
  <2>2. QED
    BY <1>2, <1>3, <2>1
<1>6. QED
  BY <1>4, <1>5 DEF SlotsExact

\* Steps that change no scope, and no lease of a closed one, leave the slots alone.
LEMMA SlotsUnchanged ==
    ASSUME SlotsExact,
           UNCHANGED <<slots, pendingHandshakes, established, peerClosed, sessions,
                       begun, pending, closed, retired>>,
           \A x \in closed : Owned(x)' = Owned(x)
    PROVE  SlotsExact'
<1>1. retired' = {x \in closed' : Owned(x)' = {}}
  BY DEF SlotsExact
<1>2. QED
  BY <1>1 DEF SlotsExact

\* Every operation keeps the slots exact.
LEMMA StepKeepsSlots ==
    ASSUME TypeOK, Finite, CountsExact, SlotsExact, [Next]_vars
    PROVE  SlotsExact'
<1>1. ASSUME NEW s \in Scopes, NEW l \in Leases, NEW c \in Claims, NEW p \in BOOLEAN,
             Begin(s, l, c, p)
      PROVE  SlotsExact'
  BY <1>1, BeginSlots
<1>2. ASSUME NEW s \in Scopes, NEW l \in Leases, NEW c \in Claims, Reserve(s, l, c)
      PROVE  SlotsExact'
  <2>1. \A x \in closed : Owned(x)' = Owned(x)
    BY <1>2 DEF Reserve, Grant, Owned, TypeOK
  <2>2. QED
    BY <1>2, <2>1, SlotsUnchanged DEF Reserve
<1>3. ASSUME NEW s \in Scopes, Promote(s)
      PROVE  SlotsExact'
  BY <1>3, PromoteSlots
<1>4. ASSUME NEW s \in Scopes, Close(s)
      PROVE  SlotsExact'
  <2>1. /\ {s} \in SUBSET begun /\ closed' = closed \cup {s}
        /\ Retire({x \in {s} : x \notin retired /\ usage[x].reservations = 0})
        /\ UNCHANGED <<begun, pending, leaseVars>> /\ peerClosed' = peerClosed
    BY <1>4 DEF Close
  <2>2. peerClosed' => closed' = begun'
    BY <2>1 DEF SlotsExact, TypeOK
  <2>3. QED
    BY <2>1, <2>2, CloseSlots
<1>5. CASE PeerClose
  <2>1. /\ sessions \in SUBSET begun /\ closed' = closed \cup sessions
        /\ Retire({x \in sessions : x \notin retired /\ usage[x].reservations = 0})
        /\ UNCHANGED <<begun, pending, leaseVars>>
    BY <1>5 DEF PeerClose, TypeOK
  <2>2. closed' = begun'
    BY <2>1 DEF SlotsExact, TypeOK
  <2>3. QED
    BY <2>1, <2>2, CloseSlots
<1>6. ASSUME NEW l \in Leases, NEW t \in Scopes, Transfer(l, t)
      PROVE  SlotsExact'
  <2>1. /\ l \in live /\ owner[l] # t /\ t \notin closed
        /\ Retire(LeftBehind(owner[l]))
        /\ UNCHANGED <<peerClosed, begun, pending, closed, live>>
        /\ owner' = [owner EXCEPT ![l] = t]
        /\ owner \in [Leases -> Scopes \cup {NoScope}] /\ live \subseteq Leases
    BY <1>6 DEF Transfer, TypeOK
  <2>2. PICK s : s = owner[l]
    OBVIOUS
  <2>3. Owned(s)' = Owned(s) \ {l} /\ \A x \in closed \ {s} : Owned(x)' = Owned(x)
    BY <2>1, <2>2 DEF Owned
  <2>4. QED
    BY <2>1, <2>2, <2>3, LeavingSlots
<1>7. ASSUME NEW l \in Leases, Release(l)
      PROVE  SlotsExact'
  <2>1. /\ l \in live /\ Retire(LeftBehind(owner[l])) /\ live' = live \ {l}
        /\ UNCHANGED <<peerClosed, begun, pending, closed>>
        /\ owner' = [owner EXCEPT ![l] = NoScope]
        /\ owner \in [Leases -> Scopes \cup {NoScope}] /\ live \subseteq Leases
    BY <1>7 DEF Release, TypeOK
  <2>2. PICK s : s = owner[l]
    OBVIOUS
  <2>3. Owned(s)' = Owned(s) \ {l} /\ \A x \in closed \ {s} : Owned(x)' = Owned(x)
    BY <2>1, <2>2 DEF Owned
  <2>4. QED
    BY <2>1, <2>2, <2>3, LeavingSlots
<1>8. ASSUME NEW l \in Leases, NEW b, MarkAccepted(l) \/ ShrinkBytes(l, b)
      PROVE  SlotsExact'
  BY <1>8, SlotsUnchanged DEF MarkAccepted, ShrinkBytes, Owned
<1>9. ASSUME NEW s, NEW l, NEW b, BindBytes(s, l, b)
      PROVE  SlotsExact'
  BY <1>9, SlotsUnchanged DEF BindBytes, peerVars, scopeVars, Owned
<1>10. CASE UNCHANGED vars
  BY <1>10, SlotsUnchanged DEF vars, peerVars, scopeVars, leaseVars, Owned
<1>11. QED
  BY <1>1, <1>2, <1>3, <1>4, <1>5, <1>6, <1>7, <1>8, <1>9, <1>10 DEF Next

\* A closed scope gives its slot back exactly once, when its last lease is gone,
\* in whatever order Close, Release, Transfer, Promote and the Peer's Close come.
THEOREM LedgerSlotsExact == Spec => []SlotsExact
<1>1. Init => SlotsExact
  <2> SUFFICES ASSUME Init PROVE SlotsExact
    OBVIOUS
  <2>1. /\ sessions = {} /\ begun = {} /\ retired = {} /\ closed = {} /\ slots = 0
        /\ pendingHandshakes = 0 /\ established = 0
        /\ sessions \cap pending = {} /\ sessions \ pending = {}
    BY DEF Init
  <2>2. QED
    BY <2>1, FS_EmptySet DEF SlotsExact
<1>2. TypeOK /\ Finite /\ CountsExact /\ SlotsExact /\ [Next]_vars => SlotsExact'
  BY StepKeepsSlots
<1>3. QED
  BY <1>1, <1>2, LedgerTypeCorrect, LedgerCountsExact, PTL DEF Spec

----------------------------------------------------------------------------
(* Sums of natural numbers over a finite set                               *)

\* One point for every unit that w gives to an element of S: a sum as the size of a set.
Units(w, S) == UNION {{x} \X (1..w[x]) : x \in S}

LEMMA UnitsOfOne ==
    ASSUME NEW x, NEW n \in Nat
    PROVE  IsFiniteSet({x} \X (1..n)) /\ Cardinality({x} \X (1..n)) = n
<1>1. IsFiniteSet({x}) /\ Cardinality({x}) = 1
  BY FS_Singleton
<1>2. IsFiniteSet(1..n) /\ Cardinality(1..n) = n
  BY FS_Interval
<1>3. IsFiniteSet({x} \X (1..n)) /\ Cardinality({x} \X (1..n)) = Cardinality({x}) * Cardinality(1..n)
  BY <1>1, <1>2, FS_Product
<1>4. QED
  BY <1>1, <1>2, <1>3

LEMMA UnitsFinite ==
    ASSUME NEW w, NEW S, IsFiniteSet(S), \A x \in S : w[x] \in Nat
    PROVE  IsFiniteSet(Units(w, S)) /\ Cardinality(Units(w, S)) \in Nat
<1> DEFINE F == [x \in S |-> {x} \X (1..w[x])]
           C == {F[x] : x \in S}
<1>1. F \in [S -> C] /\ F \in Surjection(S, C)
  BY DEF Surjection
<1>2. IsFiniteSet(C)
  BY <1>1, FS_Surjection
<1>3. ASSUME NEW T \in C PROVE IsFiniteSet(T)
  <2>1. PICK x \in S : T = {x} \X (1..w[x])
    OBVIOUS
  <2>2. QED
    BY <2>1, UnitsOfOne
<1> HIDE DEF C
<1>4. IsFiniteSet(UNION C)
  BY <1>2, <1>3, FS_UNION
<1>5. UNION C = Units(w, S)
  BY DEF C, Units
<1>6. QED
  BY <1>4, <1>5, FS_CardinalityType

LEMMA UnitsAdd ==
    ASSUME NEW w, NEW S, IsFiniteSet(S), NEW x, x \notin S, \A y \in S \cup {x} : w[y] \in Nat
    PROVE  Cardinality(Units(w, S \cup {x})) = Cardinality(Units(w, S)) + w[x]
<1> DEFINE one == {x} \X (1..w[x])
<1>1. IsFiniteSet(one) /\ Cardinality(one) = w[x]
  BY UnitsOfOne
<1>2. IsFiniteSet(Units(w, S)) /\ Cardinality(Units(w, S)) \in Nat
  BY UnitsFinite
<1>3. Units(w, S \cup {x}) = Units(w, S) \cup one
  BY DEF Units
<1>4. Units(w, S) \cap one = {}
  BY DEF Units
<1> HIDE DEF one
<1>5. Cardinality(Units(w, S) \cup one)
        = Cardinality(Units(w, S)) + Cardinality(one) - Cardinality(Units(w, S) \cap one)
  BY <1>1, <1>2, FS_Union
<1>6. Cardinality(Units(w, S) \cap one) = 0
  BY <1>4, FS_EmptySet
<1>7. w[x] \in Nat
  OBVIOUS
<1>8. ASSUME NEW a \in Nat, NEW b \in Nat, NEW c, c = 0 PROVE a + b - c = a + b
  BY <1>8
<1>9. Cardinality(Units(w, S) \cup one) = Cardinality(Units(w, S)) + w[x]
  BY <1>1, <1>2, <1>5, <1>6, <1>7, <1>8
<1>10. QED
  BY <1>3, <1>9, Zenon

LEMMA UnitsSame ==
    ASSUME NEW w, NEW v, NEW S, \A x \in S : v[x] = w[x]
    PROVE  Units(v, S) = Units(w, S)
  BY DEF Units

LEMMA UnitsNone ==
    ASSUME NEW w
    PROVE  Cardinality(Units(w, {})) = 0
<1>1. Units(w, {}) = {}
  BY DEF Units
<1>2. QED
  BY <1>1, FS_EmptySet

\* What MapThenSumSet folds: one element after the other.
Adds(f, w, S) ==
    f = [s \in SUBSET S |-> IF s = {} THEN 0 ELSE
            w[CHOOSE x \in s : TRUE] + f[s \ {CHOOSE x \in s : TRUE}]]

\* By a smallest set for which the fold computes something else.
LEMMA AddsUnits ==
    ASSUME NEW w, NEW S, IsFiniteSet(S), \A x \in S : w[x] \in Nat, NEW f, Adds(f, w, S)
    PROVE  f[S] = Cardinality(Units(w, S))
<1> DEFINE wrong == {s \in SUBSET S : f[s] # Cardinality(Units(w, s))}
           R == StrictSubsetOrdering(S)
<1>0. \A s \in SUBSET S :
        f[s] = IF s = {} THEN 0 ELSE w[CHOOSE x \in s : TRUE] + f[s \ {CHOOSE x \in s : TRUE}]
  BY DEF Adds
<1>1. SUFFICES ASSUME wrong # {} PROVE FALSE
  OBVIOUS
<1>2. PICK s \in wrong : \A t \in wrong : ~(<<t, s>> \in R)
  <2>1. IsWellFoundedOn(R, SUBSET S)
    BY FS_StrictSubsetOrderingWellFounded, FS_FiniteSubsetsOfFinite
  <2>2. wrong \subseteq SUBSET S
    OBVIOUS
  <2> HIDE DEF wrong, R
  <2>3. QED
    BY <1>1, <2>1, <2>2, WFMin
<1>3. s # {}
  <2>1. SUFFICES ASSUME s = {} PROVE FALSE
    OBVIOUS
  <2>2. f[{}] = 0
    BY <1>0
  <2>3. QED
    BY <1>2, <2>1, <2>2, UnitsNone
<1> DEFINE x == CHOOSE y \in s : TRUE
           t == s \ {x}
<1>4. x \in s
  BY <1>3
<1>5. f[s] = w[x] + f[t]
  BY <1>0, <1>2, <1>3
<1> HIDE DEF x
<1>6. t \in SUBSET S /\ <<t, s>> \in R
  BY <1>2, <1>4 DEF StrictSubsetOrdering
<1>7. f[t] = Cardinality(Units(w, t))
  BY <1>2, <1>6
<1>8. IsFiniteSet(t) /\ x \notin t /\ t \cup {x} = s /\ \A y \in t \cup {x} : w[y] \in Nat
  BY <1>4, <1>6, FS_Subset
<1> HIDE DEF t
<1>9. Cardinality(Units(w, s)) = Cardinality(Units(w, t)) + w[x] /\ w[x] \in Nat
      /\ Cardinality(Units(w, t)) \in Nat
  BY <1>8, UnitsAdd, UnitsFinite
<1>10. f[s] = Cardinality(Units(w, s))
  BY <1>5, <1>7, <1>9
<1>11. QED
  BY <1>2, <1>10

LEMMA AddsExists ==
    ASSUME NEW w, NEW S, IsFiniteSet(S), \A x \in S : w[x] \in Nat
    PROVE  \E f : Adds(f, w, S)
<1> DEFINE g == [s \in SUBSET S |-> Cardinality(Units(w, s))]
<1>1. ASSUME NEW s \in SUBSET S
      PROVE  g[s] = IF s = {} THEN 0
                    ELSE w[CHOOSE x \in s : TRUE] + g[s \ {CHOOSE x \in s : TRUE}]
  <2>1. CASE s = {}
    BY <2>1, UnitsNone
  <2>2. CASE s # {}
    <3> DEFINE x == CHOOSE y \in s : TRUE
               t == s \ {x}
    <3>1. x \in s
      BY <2>2
    <3> HIDE DEF x
    <3>2. t \in SUBSET S /\ IsFiniteSet(t) /\ x \notin t /\ t \cup {x} = s
          /\ \A y \in t \cup {x} : w[y] \in Nat
      BY <3>1, FS_Subset
    <3> HIDE DEF t
    <3>3. Cardinality(Units(w, s)) = Cardinality(Units(w, t)) + w[x] /\ w[x] \in Nat
          /\ Cardinality(Units(w, t)) \in Nat
      BY <3>2, UnitsAdd, UnitsFinite
    <3>4. g[s] = w[x] + g[t]
      BY <3>2, <3>3
    <3> HIDE DEF g
    <3>5. QED
      BY <2>2, <3>4 DEF t, x
  <2>3. QED
    BY <2>1, <2>2
<1>2. g = [s \in SUBSET S |->
                   IF s = {} THEN 0
                   ELSE w[CHOOSE x \in s : TRUE] + g[s \ {CHOOSE x \in s : TRUE}]]
  <2>1. g = [s \in SUBSET S |-> g[s]]
    OBVIOUS
  <2> HIDE DEF g
  <2>2. QED
    BY <1>1, <2>1
<1> HIDE DEF g
<1>3. QED
  BY <1>2 DEF Adds

----------------------------------------------------------------------------
(* The bytes of the leases                                                 *)

\* The bytes of the leases ls with the claims cl.
Total(cl, ls) == MapThenSumSet(LAMBDA l : cl[l].bytes, ls)

LEMMA TotalUnits ==
    ASSUME NEW cl, NEW X, IsFiniteSet(X), \A l \in X : cl[l].bytes \in Nat
    PROVE  Total(cl, X) = Cardinality(Units([l \in X |-> cl[l].bytes], X))
<1> DEFINE w == [l \in X |-> cl[l].bytes]
           P(g) == g = [s \in SUBSET X |-> IF s = {} THEN 0 ELSE
                       cl[CHOOSE x \in s : TRUE].bytes + g[s \ {CHOOSE x \in s : TRUE}]]
           f == CHOOSE g : P(g)
<1>1. Total(cl, X) = f[X]
  BY DEF Total, MapThenSumSet, MapThenFoldSet
<1>2. \A l \in X : w[l] = cl[l].bytes /\ w[l] \in Nat
  OBVIOUS
<1>3. ASSUME NEW s \in SUBSET X, s # {}
      PROVE  w[CHOOSE x \in s : TRUE] = cl[CHOOSE x \in s : TRUE].bytes
  BY <1>2, <1>3
<1> HIDE DEF w
<1>4. \A g : P(g) <=> Adds(g, w, X)
  BY <1>3 DEF Adds
<1>5. \E g : Adds(g, w, X)
  BY <1>2, AddsExists
<1> HIDE DEF P
<1>6. Adds(f, w, X)
  BY <1>4, <1>5
<1> HIDE DEF f
<1>7. f[X] = Cardinality(Units(w, X))
  BY <1>2, <1>6, AddsUnits
<1>8. QED
  BY <1>1, <1>7 DEF w

\* A lease adds its bytes to the sum, and no lease has other bytes than before.
LEMMA TotalWith ==
    ASSUME NEW cl, NEW cl2, NEW ls, IsFiniteSet(ls), NEW l, l \notin ls,
           \A k \in ls : cl[k].bytes \in Nat /\ cl2[k].bytes = cl[k].bytes, cl2[l].bytes \in Nat
    PROVE  Total(cl2, ls \cup {l}) = Total(cl, ls) + cl2[l].bytes /\ Total(cl, ls) \in Nat
<1> DEFINE w == [k \in ls |-> cl[k].bytes]
           all == ls \cup {l}
           v == [k \in all |-> cl2[k].bytes]
<1>1. IsFiniteSet(all)
  BY FS_AddElement
<1>2. /\ Total(cl, ls) = Cardinality(Units(w, ls)) /\ \A k \in ls : w[k] \in Nat
      /\ Total(cl2, all) = Cardinality(Units(v, all)) /\ \A k \in all : v[k] \in Nat
  BY <1>1, TotalUnits
<1>3. v[l] = cl2[l].bytes /\ \A k \in ls : v[k] = w[k]
  OBVIOUS
<1> HIDE DEF w, v
<1>4. Cardinality(Units(v, all)) = Cardinality(Units(v, ls)) + v[l]
  BY <1>2, UnitsAdd
<1>5. Units(v, ls) = Units(w, ls)
  BY <1>3, UnitsSame
<1>6. Cardinality(Units(w, ls)) \in Nat
  BY <1>2, UnitsFinite
<1>7. QED
  BY <1>2, <1>3, <1>4, <1>5, <1>6

LEMMA TotalNone ==
    ASSUME NEW cl
    PROVE  Total(cl, {}) = 0
<1>1. Total(cl, {}) = Cardinality(Units([l \in {} |-> cl[l].bytes], {}))
  BY TotalUnits, FS_EmptySet
<1>2. QED
  BY <1>1, UnitsNone

LEMMA TotalSame ==
    ASSUME NEW cl, NEW cl2, NEW ls, IsFiniteSet(ls),
           \A k \in ls : cl[k].bytes \in Nat /\ cl2[k].bytes = cl[k].bytes
    PROVE  Total(cl2, ls) = Total(cl, ls)
<1> DEFINE w == [k \in ls |-> cl[k].bytes]
           v == [k \in ls |-> cl2[k].bytes]
<1>1. v = w
  OBVIOUS
<1>2. Total(cl, ls) = Cardinality(Units(w, ls)) /\ Total(cl2, ls) = Cardinality(Units(v, ls))
  BY TotalUnits
<1> HIDE DEF w, v
<1>3. QED
  BY <1>1, <1>2

LEMMA TotalWithout ==
    ASSUME NEW cl, NEW cl2, NEW ls, IsFiniteSet(ls), NEW l \in ls,
           \A k \in ls : cl[k].bytes \in Nat, \A k \in ls \ {l} : cl2[k].bytes = cl[k].bytes
    PROVE  Total(cl2, ls \ {l}) = Total(cl, ls) - cl[l].bytes
<1> DEFINE rest == ls \ {l}
<1>1. IsFiniteSet(rest) /\ l \notin rest /\ rest \cup {l} = ls
  BY FS_RemoveElement
<1>2. \A k \in rest : cl[k].bytes \in Nat /\ cl2[k].bytes = cl[k].bytes
  OBVIOUS
<1> HIDE DEF rest
<1>3. Total(cl, rest \cup {l}) = Total(cl, rest) + cl[l].bytes /\ Total(cl, rest) \in Nat
  BY <1>1, <1>2, TotalWith
<1>4. Total(cl2, rest) = Total(cl, rest)
  BY <1>1, <1>2, TotalSame
<1>5. Total(cl, ls) = Total(cl, rest) + cl[l].bytes
  BY <1>1, <1>3, Zenon
<1>6. Total(cl2, rest) = Total(cl, ls) - cl[l].bytes
  BY <1>3, <1>4, <1>5
<1>7. QED
  BY <1>6 DEF rest

\* A lease that has other bytes than before changes the sum by the difference.
LEMMA TotalChanged ==
    ASSUME NEW cl, NEW cl2, NEW ls, IsFiniteSet(ls), NEW l \in ls, cl2[l].bytes \in Nat,
           \A k \in ls : cl[k].bytes \in Nat, \A k \in ls \ {l} : cl2[k].bytes = cl[k].bytes
    PROVE  Total(cl2, ls) = Total(cl, ls) - (cl[l].bytes - cl2[l].bytes)
<1> DEFINE rest == ls \ {l}
<1>1. IsFiniteSet(rest) /\ l \notin rest /\ rest \cup {l} = ls
  BY FS_RemoveElement
<1>2. \A k \in rest : cl[k].bytes \in Nat /\ cl2[k].bytes = cl[k].bytes
  OBVIOUS
<1> HIDE DEF rest
<1>3. Total(cl, rest \cup {l}) = Total(cl, rest) + cl[l].bytes /\ Total(cl, rest) \in Nat
  BY <1>1, <1>2, TotalWith
<1>4. Total(cl2, rest \cup {l}) = Total(cl, rest) + cl2[l].bytes
  BY <1>1, <1>2, TotalWith
<1>5. Total(cl, ls) = Total(cl, rest) + cl[l].bytes /\ Total(cl2, ls) = Total(cl, rest) + cl2[l].bytes
  BY <1>1, <1>3, <1>4, Zenon
<1>6. QED
  BY <1>3, <1>5

----------------------------------------------------------------------------
\* The bytes of the Peer and of every scope are those of their leases.
Weighed ==
    /\ peerUsage.bytes = Total(claim, live)
    /\ \A s \in Scopes : usage[s].bytes = Total(claim, Owned(s))

LEMMA WeighedPrimed ==
    Weighed' <=> /\ peerUsage'.bytes = Total(claim', live')
                 /\ \A s \in Scopes : usage'[s].bytes = Total(claim', Owned(s)')
BY DEF Weighed, Total, MapThenSumSet, MapThenFoldSet

LEMMA LeaseTypes ==
    ASSUME TypeOK, Finite
    PROVE  /\ peerUsage \in Usages /\ usage \in [Scopes -> Usages]
           /\ claim \in [Leases -> ClaimRecords] /\ live \subseteq Leases
           /\ owner \in [Leases -> Scopes \cup {NoScope}]
           /\ \A k \in live : claim[k].bytes \in Nat /\ owner[k] \in Scopes
           /\ IsFiniteSet(live)
           /\ \A s \in Scopes : IsFiniteSet(Owned(s)) /\ Owned(s) \subseteq live
<1>1. /\ peerUsage \in Usages /\ usage \in [Scopes -> Usages]
      /\ claim \in [Leases -> ClaimRecords] /\ live \subseteq Leases
      /\ owner \in [Leases -> Scopes \cup {NoScope}] /\ IsFiniteSet(live)
      /\ \A k \in live : owner[k] \in Scopes
  BY DEF TypeOK, Usages, ClaimRecords, Finite
<1>2. \A k \in live : claim[k].bytes \in Nat
  BY <1>1 DEF ClaimRecords
<1>3. \A s \in Scopes : IsFiniteSet(Owned(s)) /\ Owned(s) \subseteq live
  BY OwnedFinite DEF Owned
<1>4. QED
  BY <1>1, <1>2, <1>3

\* A grant charges the bytes of the new lease to the Peer and to its owner.
LEMMA GrantBytes ==
    ASSUME TypeOK, Finite, Weighed, NEW s \in Scopes, NEW l, NEW c \in Claims, Grant(s, l, c)
    PROVE  Weighed'
<1>1. /\ l \in Leases /\ l \notin live /\ live' = live \cup {l}
      /\ owner' = [owner EXCEPT ![l] = s] /\ claim' = [claim EXCEPT ![l] = c]
      /\ peerUsage' = AddClaim(peerUsage, c)
      /\ usage' = [usage EXCEPT ![s] = AddClaim(usage[s], c)]
  BY DEF Grant
<1>2. c.bytes \in Nat
  BY ClaimsAssumption
<1>3. claim'[l].bytes = c.bytes /\ \A k \in live : claim'[k].bytes = claim[k].bytes
  BY <1>1, LeaseTypes
<1>4. AddClaim(peerUsage, c).bytes = peerUsage.bytes + c.bytes
      /\ \A x \in Scopes : AddClaim(usage[x], c).bytes = usage[x].bytes + c.bytes
  BY DEF AddClaim
<1>5. peerUsage'.bytes = Total(claim', live')
  <2>1. /\ IsFiniteSet(live) /\ l \notin live
        /\ \A k \in live : claim[k].bytes \in Nat /\ claim'[k].bytes = claim[k].bytes
    BY <1>1, <1>3, LeaseTypes
  <2>2. claim'[l].bytes \in Nat
    BY <1>2, <1>3
  <2>3. Total(claim', live \cup {l}) = Total(claim, live) + claim'[l].bytes
    BY <2>1, <2>2, TotalWith
  <2>4. QED
    BY <1>1, <1>3, <1>4, <2>3 DEF Weighed
<1>6. ASSUME NEW x \in Scopes
      PROVE  usage'[x].bytes = Total(claim', Owned(x)')
  <2>1. /\ IsFiniteSet(Owned(x)) /\ usage[x].bytes = Total(claim, Owned(x)) /\ l \notin Owned(x)
        /\ \A k \in Owned(x) : claim[k].bytes \in Nat /\ claim'[k].bytes = claim[k].bytes
    BY <1>1, <1>3, LeaseTypes DEF Weighed
  <2>2. CASE x = s
    <3>1. Owned(x)' = Owned(x) \cup {l} /\ usage'[x] = AddClaim(usage[x], c)
      BY <1>1, <2>2, LeaseTypes DEF Owned
    <3>2. Total(claim', Owned(x) \cup {l}) = Total(claim, Owned(x)) + claim'[l].bytes
      BY <1>2, <1>3, <2>1, TotalWith
    <3>3. QED
      BY <1>3, <1>4, <2>1, <3>1, <3>2
  <2>3. CASE x # s
    <3>1. Owned(x)' = Owned(x) /\ usage'[x] = usage[x]
      BY <1>1, <2>3, LeaseTypes DEF Owned
    <3>2. Total(claim', Owned(x)) = Total(claim, Owned(x))
      BY <2>1, TotalSame
    <3>3. QED
      BY <2>1, <3>1, <3>2
  <2>4. QED
    BY <2>2, <2>3
<1>7. QED
  BY <1>5, <1>6, WeighedPrimed

\* A transfer moves them from one scope to the other.
LEMMA TransferBytes ==
    ASSUME TypeOK, Finite, Weighed, NEW l \in Leases, NEW t \in Scopes, Transfer(l, t)
    PROVE  Weighed'
<1>1. /\ l \in live /\ owner[l] \in Scopes /\ owner[l] # t
      /\ usage' = MovedUsage(l, t) /\ owner' = [owner EXCEPT ![l] = t]
      /\ UNCHANGED <<peerUsage, live, claim>>
  BY LeaseTypes DEF Transfer
<1>2. /\ \A x \in Scopes : AddClaim(usage[x], claim[l]).bytes = usage[x].bytes + claim[l].bytes
      /\ \A x \in Scopes : SubtractClaim(usage[x], claim[l]).bytes = usage[x].bytes - claim[l].bytes
  BY DEF AddClaim, SubtractClaim
<1>3. ASSUME NEW x \in Scopes
      PROVE  usage'[x].bytes = Total(claim, Owned(x)')
  <2>1. /\ IsFiniteSet(Owned(x)) /\ usage[x].bytes = Total(claim, Owned(x))
        /\ \A k \in Owned(x) \cup {l} : claim[k].bytes \in Nat
    BY <1>1, LeaseTypes DEF Weighed
  <2>2. CASE x = owner[l]
    <3>1. /\ Owned(x)' = Owned(x) \ {l} /\ l \in Owned(x)
          /\ usage'[x] = SubtractClaim(usage[x], claim[l])
      BY <1>1, <2>2, LeaseTypes DEF Owned, MovedUsage
    <3>2. Total(claim, Owned(x) \ {l}) = Total(claim, Owned(x)) - claim[l].bytes
      BY <2>1, <3>1, TotalWithout
    <3>3. QED
      BY <1>2, <2>1, <3>1, <3>2
  <2>3. CASE x = t
    <3>1. /\ Owned(x)' = Owned(x) \cup {l} /\ l \notin Owned(x)
          /\ usage'[x] = AddClaim(usage[x], claim[l])
      BY <1>1, <2>3, LeaseTypes DEF Owned, MovedUsage
    <3>2. Total(claim, Owned(x) \cup {l}) = Total(claim, Owned(x)) + claim[l].bytes
      BY <2>1, <3>1, TotalWith
    <3>3. QED
      BY <1>2, <2>1, <3>1, <3>2
  <2>4. CASE x # owner[l] /\ x # t
    <3>1. Owned(x)' = Owned(x) /\ usage'[x] = usage[x]
      BY <1>1, <2>4, LeaseTypes DEF Owned, MovedUsage
    <3>2. QED
      BY <2>1, <3>1
  <2>5. QED
    BY <2>2, <2>3, <2>4
<1>4. peerUsage'.bytes = Total(claim, live)
  BY <1>1 DEF Weighed
<1>5. QED
  BY <1>1, <1>3, <1>4, WeighedPrimed

\* A release gives back the bytes the lease has by then.
LEMMA ReleaseBytes ==
    ASSUME TypeOK, Finite, Weighed, NEW l \in Leases, Release(l)
    PROVE  Weighed'
<1>1. /\ l \in live /\ owner[l] \in Scopes /\ live' = live \ {l}
      /\ owner' = [owner EXCEPT ![l] = NoScope] /\ claim' = [claim EXCEPT ![l] = Empty]
      /\ usage' = [usage EXCEPT ![owner[l]] = SubtractClaim(usage[owner[l]], claim[l])]
      /\ peerUsage' = SubtractClaim(peerUsage, claim[l])
  BY LeaseTypes DEF Release, PeerUsageWithout
<1>2. \A k \in live \ {l} : claim'[k].bytes = claim[k].bytes
  BY <1>1, LeaseTypes
<1>3. /\ SubtractClaim(peerUsage, claim[l]).bytes = peerUsage.bytes - claim[l].bytes
      /\ \A x \in Scopes : SubtractClaim(usage[x], claim[l]).bytes = usage[x].bytes - claim[l].bytes
  BY DEF SubtractClaim
<1>4. peerUsage'.bytes = Total(claim', live')
  <2>1. IsFiniteSet(live) /\ l \in live /\ \A k \in live : claim[k].bytes \in Nat
    BY <1>1, LeaseTypes
  <2>2. Total(claim', live \ {l}) = Total(claim, live) - claim[l].bytes
    <3> DEFINE rest == live \ {l}
    <3>1. IsFiniteSet(rest) /\ l \notin rest /\ rest \cup {l} = live
      BY <2>1, FS_RemoveElement
    <3>2. \A k \in rest : claim[k].bytes \in Nat /\ claim'[k].bytes = claim[k].bytes
      BY <1>2, <2>1
    <3>3. claim[l].bytes \in Nat
      BY <2>1
    <3> HIDE DEF rest
    <3>4. Total(claim, rest \cup {l}) = Total(claim, rest) + claim[l].bytes /\ Total(claim, rest) \in Nat
      BY <3>1, <3>2, <3>3, TotalWith
    <3>5. Total(claim', rest) = Total(claim, rest)
      BY <3>1, <3>2, TotalSame
    <3>6. Total(claim, live) = Total(claim, rest) + claim[l].bytes
      BY <3>1, <3>4, Zenon
    <3>7. Total(claim', rest) = Total(claim, live) - claim[l].bytes
      BY <3>3, <3>4, <3>5, <3>6
    <3>8. QED
      BY <3>7 DEF rest
  <2>3. QED
    BY <1>1, <1>3, <2>2 DEF Weighed
<1>5. ASSUME NEW x \in Scopes
      PROVE  usage'[x].bytes = Total(claim', Owned(x)')
  <2>1. /\ IsFiniteSet(Owned(x)) /\ usage[x].bytes = Total(claim, Owned(x))
        /\ \A k \in Owned(x) : claim[k].bytes \in Nat
        /\ \A k \in Owned(x) \ {l} : claim'[k].bytes = claim[k].bytes
    BY <1>2, LeaseTypes DEF Weighed
  <2>2. CASE x = owner[l]
    <3>1. /\ Owned(x)' = Owned(x) \ {l} /\ l \in Owned(x)
          /\ usage'[x] = SubtractClaim(usage[x], claim[l])
      BY <1>1, <2>2, LeaseTypes DEF Owned
    <3>2. Total(claim', Owned(x) \ {l}) = Total(claim, Owned(x)) - claim[l].bytes
      BY <2>1, <3>1, TotalWithout
    <3>3. QED
      BY <1>3, <2>1, <3>1, <3>2
  <2>3. CASE x # owner[l]
    <3>1. Owned(x)' = Owned(x) /\ usage'[x] = usage[x] /\ l \notin Owned(x)
      BY <1>1, <2>3, LeaseTypes DEF Owned
    <3>2. Total(claim', Owned(x)) = Total(claim, Owned(x))
      BY <2>1, <3>1, TotalSame
    <3>3. QED
      BY <2>1, <3>1, <3>2
  <2>4. QED
    BY <2>2, <2>3
<1>6. QED
  BY <1>4, <1>5, WeighedPrimed

\* An accepted lease keeps its bytes.
LEMMA MarkAcceptedBytes ==
    ASSUME TypeOK, Finite, Weighed, NEW l \in Leases, MarkAccepted(l)
    PROVE  Weighed'
<1>1. /\ claim' = [claim EXCEPT ![l] = Accepted(claim[l])]
      /\ usage' = [usage EXCEPT ![owner[l]] = [usage[owner[l]] EXCEPT !.accepts = @ - 1]]
      /\ peerUsage' = [peerUsage EXCEPT !.accepts = @ - 1]
      /\ UNCHANGED <<live, owner>>
  BY DEF MarkAccepted
<1>2. Accepted(claim[l]).bytes = claim[l].bytes
  BY DEF Accepted
<1>3. \A k \in live : claim'[k].bytes = claim[k].bytes
  BY <1>1, <1>2, LeaseTypes
<1>4. peerUsage'.bytes = peerUsage.bytes /\ \A x \in Scopes : usage'[x].bytes = usage[x].bytes
  BY <1>1, LeaseTypes DEF Usages
<1>5. Total(claim', live) = Total(claim, live)
  BY <1>3, LeaseTypes, TotalSame
<1>6. ASSUME NEW x \in Scopes
      PROVE  usage'[x].bytes = Total(claim', Owned(x)')
  <2>1. IsFiniteSet(Owned(x)) /\ Owned(x) \subseteq live /\ Owned(x)' = Owned(x)
    BY <1>1, LeaseTypes DEF Owned
  <2>2. \A k \in Owned(x) : claim[k].bytes \in Nat /\ claim'[k].bytes = claim[k].bytes
    BY <1>3, <2>1, LeaseTypes
  <2>3. Total(claim', Owned(x)) = Total(claim, Owned(x))
    BY <2>1, <2>2, TotalSame
  <2>4. QED
    BY <1>4, <2>1, <2>3 DEF Weighed
<1>7. QED
  BY <1>1, <1>4, <1>5, <1>6, WeighedPrimed DEF Weighed

\* A lease that shrinks gives the difference back, to the Peer and to its owner.
LEMMA ShrinkBytesBytes ==
    ASSUME TypeOK, Finite, Weighed, NEW l \in Leases, NEW bytes \in Nat, ShrinkBytes(l, bytes)
    PROVE  Weighed'
<1> DEFINE given == claim[l].bytes - bytes
<1>1. /\ l \in live /\ owner[l] \in Scopes /\ UNCHANGED <<live, owner>>
      /\ claim' = [claim EXCEPT ![l] = [claim[l] EXCEPT !.bytes = bytes]]
      /\ usage' = [usage EXCEPT ![owner[l]] = [usage[owner[l]] EXCEPT !.bytes = @ - given]]
      /\ peerUsage' = [peerUsage EXCEPT !.bytes = @ - given]
  BY LeaseTypes DEF ShrinkBytes
<1>2. /\ claim'[l].bytes = bytes /\ \A k \in live \ {l} : claim'[k].bytes = claim[k].bytes
  BY <1>1, LeaseTypes DEF ClaimRecords
<1>3. given = claim[l].bytes - claim'[l].bytes
  BY <1>2
<1> HIDE DEF given
<1>4. /\ peerUsage'.bytes = peerUsage.bytes - given
      /\ usage'[owner[l]].bytes = usage[owner[l]].bytes - given
      /\ \A x \in Scopes : x # owner[l] => usage'[x] = usage[x]
  BY <1>1, LeaseTypes DEF Usages
<1>5. Total(claim', live) = Total(claim, live) - given
  <2>1. IsFiniteSet(live) /\ l \in live /\ \A k \in live : claim[k].bytes \in Nat
    BY <1>1, LeaseTypes
  <2>2. claim'[l].bytes \in Nat
    BY <1>2
  <2>3. QED
    BY <1>2, <1>3, <2>1, <2>2, TotalChanged
<1>6. ASSUME NEW x \in Scopes
      PROVE  usage'[x].bytes = Total(claim', Owned(x)')
  <2>1. /\ IsFiniteSet(Owned(x)) /\ usage[x].bytes = Total(claim, Owned(x)) /\ Owned(x)' = Owned(x)
        /\ \A k \in Owned(x) : claim[k].bytes \in Nat
        /\ \A k \in Owned(x) \ {l} : claim'[k].bytes = claim[k].bytes
    BY <1>1, <1>2, LeaseTypes DEF Weighed, Owned
  <2>2. CASE x = owner[l]
    <3>1. l \in Owned(x)
      BY <1>1, <2>2 DEF Owned
    <3>2. Total(claim', Owned(x)) = Total(claim, Owned(x)) - given
      BY <1>2, <1>3, <2>1, <3>1, TotalChanged
    <3>3. QED
      BY <1>4, <2>1, <2>2, <3>2
  <2>3. CASE x # owner[l]
    <3>1. l \notin Owned(x)
      BY <2>3 DEF Owned
    <3>2. Total(claim', Owned(x)) = Total(claim, Owned(x))
      BY <2>1, <3>1, TotalSame
    <3>3. QED
      BY <1>4, <2>1, <2>3, <3>2
  <2>4. QED
    BY <2>2, <2>3
<1>7. QED
  BY <1>1, <1>4, <1>5, <1>6, WeighedPrimed DEF Weighed

LEMMA BytesUnchanged ==
    ASSUME Weighed, UNCHANGED <<peerUsage, usage, live, owner, claim>>
    PROVE  Weighed'
<1>1. \A s \in Scopes : Owned(s)' = Owned(s)
  BY DEF Owned
<1>2. QED
  BY <1>1, WeighedPrimed DEF Weighed

\* Every operation keeps the bytes exact.
LEMMA StepKeepsBytes ==
    ASSUME TypeOK, Finite, Weighed, [Next]_vars
    PROVE  Weighed'
<1>1. ASSUME NEW s \in Scopes, NEW l \in Leases, NEW c \in Claims, NEW p \in BOOLEAN,
             Begin(s, l, c, p)
      PROVE  Weighed'
  BY <1>1, GrantBytes, BytesUnchanged DEF Begin, leaseVars
<1>2. ASSUME NEW s \in Scopes, NEW l \in Leases, NEW c \in Claims, Reserve(s, l, c)
      PROVE  Weighed'
  BY <1>2, GrantBytes DEF Reserve
<1>3. ASSUME NEW s \in Scopes, Promote(s) \/ Close(s)
      PROVE  Weighed'
  BY <1>3, BytesUnchanged DEF Promote, Close, leaseVars
<1>4. ASSUME NEW s, NEW l, NEW b, BindBytes(s, l, b)
      PROVE  Weighed'
  BY <1>4, BytesUnchanged DEF BindBytes, peerVars, scopeVars
<1>5. CASE PeerClose
  BY <1>5, BytesUnchanged DEF PeerClose, leaseVars
<1>6. CASE UNCHANGED vars
  BY <1>6, BytesUnchanged DEF vars, peerVars, scopeVars, leaseVars
<1>7. ASSUME NEW l \in Leases, NEW s \in Scopes, Transfer(l, s)
      PROVE  Weighed'
  BY <1>7, TransferBytes
<1>8. ASSUME NEW l \in Leases, MarkAccepted(l) \/ Release(l)
      PROVE  Weighed'
  BY <1>8, MarkAcceptedBytes, ReleaseBytes
<1>9. ASSUME NEW l \in Leases, NEW c \in Claims, ShrinkBytes(l, c.bytes)
      PROVE  Weighed'
  BY <1>9, ClaimsAssumption, ShrinkBytesBytes
<1>10. QED
  BY <1>1, <1>2, <1>3, <1>4, <1>5, <1>6, <1>7, <1>8, <1>9 DEF Next

\* Whatever the claims, no byte of the Peer's or of a Session's credit leaks or is
\* given back twice, through transfers, shrinking and releases in any order, and
\* no ceiling is passed.
THEOREM LedgerBytesExact == Spec => []BytesExact
<1>1. Init => Weighed
  <2> SUFFICES ASSUME Init PROVE Weighed
    OBVIOUS
  <2>1. live = {} /\ \A s \in Scopes : Owned(s) = {}
    BY DEF Init, Owned
  <2>2. peerUsage.bytes = 0 /\ \A s \in Scopes : usage[s].bytes = 0
    BY DEF Init, NoUsage
  <2>3. QED
    BY <2>1, <2>2, TotalNone DEF Weighed
<1>2. TypeOK /\ Finite /\ Weighed /\ [Next]_vars => Weighed'
  BY StepKeepsBytes
<1>3. TypeOK /\ Weighed => BytesExact
  BY DEF Weighed, BytesExact, Total, MapThenSumSet, MapThenFoldSet
<1>4. QED
  BY <1>1, <1>2, <1>3, LedgerTypeCorrect, PTL DEF Spec

----------------------------------------------------------------------------
(* The sending half: its invariant                                         *)

SlotRecords == [path : {0} \cup Paths, source : {"none", "data", "context", "budget"},
                shard : Nat, transaction : Nat, version : Nat]
PathRecords == [active : BOOLEAN, generation : Nat, epoch : {1, 2}, joining : BOOLEAN,
                joined : Nat, slot : {0} \cup Slots, queued : Int]
RetryRecords == [id : Nat, version : Nat, pending : BOOLEAN, sends : Int, inflight : Int,
                 queued : BOOLEAN, dispatched : BOOLEAN]
OutRecords == [ids : SUBSET Nat, through : Int, group : Nat, next : Nat,
               shards : [Shards -> {"waiting", "dispatched", "terminal"}]]
Entries == [id : Nat, size : Nat, offset : Nat, fragments : Nat]
Controllers ==
    [state : {"open", "closing", "final"}, accepting : BOOLEAN,
     queue : Seq(Entries), nextID : Nat \ {0}, nextGroup : Nat,
     forced : Nat, completed : Int, failedFrom : Int, lost : SUBSET Nat,
     out : OutRecords, slots : [Slots -> SlotRecords], path : [Paths -> PathRecords],
     retry : [Controls -> RetryRecords], contextPath : {0} \cup Paths, acknowledged : BOOLEAN]

\* A path and the send it waits for know each other.
PathsMatch(k) ==
    /\ \A s \in Slots :
          \/ k.slots[s] = Free
          \/ /\ k.slots[s].source # "none" /\ k.slots[s].path # 0
             /\ k.path[k.slots[s].path].slot = s
    /\ \A p \in Paths :
          \/ k.path[p].slot = 0 /\ k.path[p].queued = 0
          \/ /\ k.path[p].slot # 0 /\ k.path[p].queued = 1
             /\ k.slots[k.path[p].slot].source # "none" /\ k.slots[k.path[p].slot].path = p

\* A shard is in flight exactly while one slot has it.
ShardsMatch(k) ==
    /\ \A s \in Slots : k.slots[s].source = "data" =>
          k.slots[s].shard \in Shards /\ k.out.shards[k.slots[s].shard] = "dispatched"
    /\ \A s, u \in Slots :
          k.slots[s].source = "data" /\ k.slots[u].source = "data"
            /\ k.slots[s].shard = k.slots[u].shard => s = u
    /\ \A d \in Shards : k.out.shards[d] = "dispatched" =>
          \E s \in Slots : k.slots[s].source = "data" /\ k.slots[s].shard = d

\* The control a send was for, and the sends of the transaction x runs now.
ControlOf(send) == IF send.source = "context" THEN Context ELSE send.path
Mine(k, x) == {s \in Slots : k.retry[x].id # 0 /\ k.slots[s].transaction = k.retry[x].id}

\* No two transactions have one number, no two sends of one the same version.
Distinct(k) ==
    /\ \A x \in Controls : k.retry[x].pending => k.retry[x].id # 0
    /\ \A x, y \in Controls : x # y /\ k.retry[x].id # 0 => k.retry[x].id # k.retry[y].id
    /\ \A s \in Slots :
          IF k.slots[s].source \in {"context", "budget"}
          THEN /\ k.slots[s].transaction # 0
               /\ \A y \in Controls :
                     k.retry[y].id = k.slots[s].transaction => y = ControlOf(k.slots[s])
          ELSE k.slots[s].transaction = 0
    /\ \A s, u \in Slots :
          s # u /\ k.slots[s].transaction = k.slots[u].transaction /\ k.slots[s].transaction # 0
            => k.slots[s].version # k.slots[u].version

RetriesMatch(k) ==
    \A x \in Controls :
        /\ k.retry[x].inflight = Cardinality(Mine(k, x))
        /\ k.retry[x].dispatched <=> \E s \in Mine(k, x) : k.slots[s].version = k.retry[x].version
        /\ k.retry[x].sends + k.retry[x].inflight <= ControlSends

\* A Datagram that waits fits the fragments it has left.
Fitting(queue) ==
    \A i \in 1..Len(queue) :
        /\ queue[i].offset <= queue[i].size
        /\ queue[i].fragments + FragmentCount(queue[i].size - queue[i].offset) <= MaxFragments

\* The queue is numbered without gaps up to the last Datagram accepted.  What
\* is sealed and not completed comes before it, and after what is completed.
Numbered(k) ==
    /\ Fitting(k.queue)
    /\ \A i \in 1..Len(k.queue) : k.queue[i].id = k.nextID - 1 - Len(k.queue) + i
    /\ 0 <= k.completed /\ k.completed <= k.nextID - 1 - Len(k.queue)
    /\ k.forced <= k.nextID - 1
    /\ HasOut(k) => k.completed <= k.out.through /\ k.out.through <= k.nextID - 1 - Len(k.queue)

\* The first failure is at or before every Datagram that lost a shard.
Failures(k) ==
    /\ \A d \in k.out.ids : d > k.completed
    /\ \A d \in k.lost : k.failedFrom # 0 /\ k.failedFrom <= d
    /\ 0 <= k.failedFrom /\ k.failedFrom <= k.completed + 1
    /\ k.failedFrom # 0 => k.lost # {}
    /\ HasOut(k) \/ \A s \in Shards : k.out.shards[s] = "terminal"

Fenced(k) == Numbered(k) /\ Failures(k)

Consistent(k) ==
    /\ k \in Controllers /\ k.state # "final" /\ PathsMatch(k) /\ Fenced(k)
    /\ ShardsMatch(k) /\ Distinct(k) /\ RetriesMatch(k)
    /\ ~owned => \A s \in Slots : k.slots[s] = Free

SendInv ==
    /\ scenario \in Scenarios /\ socket \in [Paths -> Nat]
    /\ ctl \in Controllers /\ PathsMatch(ctl) /\ Fenced(ctl)
    /\ ctl.state = "open" => Consistent(ctl)
    /\ ctl.state = "final" => \A s \in Slots : ctl.slots[s] = Free

----------------------------------------------------------------------------
(* Least numbers and induction                                             *)

LEMMA LeastOf ==
    ASSUME NEW S, S \subseteq Nat, S # {}
    PROVE  \E n \in S : \A m \in S : n <= m
<1> DEFINE R == {pair \in Nat \X Nat : pair[1] < pair[2]}
<1>1. IsWellFoundedOn(R, Nat)
  BY NatLessThanWellFounded, Zenon DEF OpToRel
<1>2. PICK n \in S : \A m \in S : ~(<<m, n>> \in R)
  <2> HIDE DEF R
  <2>1. QED
    BY <1>1, WFMin
<1>3. ASSUME NEW m \in S PROVE n <= m
  <2>1. m \in Nat /\ n \in Nat /\ ~(<<m, n>> \in R)
    BY <1>2
  <2>2. QED
    BY <2>1
<1>4. QED
  BY <1>2, <1>3

LEMMA MinOf ==
    ASSUME NEW S, S \subseteq Nat, S # {}
    PROVE  Min(S) \in S /\ \A m \in S : Min(S) <= m
BY LeastOf DEF Min

LEMMA Induction ==
    ASSUME NEW N \in Nat, NEW S, 0 \in S, \A n \in 1..N : n - 1 \in S => n \in S
    PROVE  \A n \in 0..N : n \in S
<1> DEFINE T == {n \in 0..N : n \notin S}
<1>1. SUFFICES ASSUME T # {} PROVE FALSE
  OBVIOUS
<1>2. PICK n \in T : \A m \in T : n <= m
  <2>1. T \subseteq Nat
    OBVIOUS
  <2> HIDE DEF T
  <2>2. QED
    BY <1>1, <2>1, LeastOf
<1>3. n # 0 /\ n \in 1..N /\ n - 1 \in 0..N /\ n - 1 < n
  BY <1>2
<1>4. n - 1 \in S
  BY <1>2, <1>3
<1>5. QED
  BY <1>2, <1>3, <1>4

----------------------------------------------------------------------------
(* What a group takes from the queue                                       *)

LEMMA QueueFacts ==
    /\ FreshCapacity \in Nat \ {0} /\ DescriptorBytes \in Nat \ {0} /\ GroupBytes \in Int
    /\ GroupBytes = FreshCapacity + DescriptorBytes
    /\ MaxDescriptors \in Nat \ {0} /\ MaxFragments \in Nat \ {0}
BY QueueAssumption DEF FreshCapacity

LEMMA DivOf ==
    ASSUME NEW n \in Int, NEW m \in Nat \ {0}
    PROVE  n = m * (n \div m) + (n % m) /\ n % m \in 0..(m - 1) /\ n \div m \in Int
OBVIOUS

LEMMA Apart ==
    ASSUME NEW m \in Nat \ {0}, NEW a \in Int, NEW b \in Int, a < b
    PROVE  m * b >= m * a + m
<1>1. b - a - 1 \in Nat
  OBVIOUS
<1>2. m * (b - a - 1) >= 0
  BY <1>1
<1>3. QED
  BY <1>2

LEMMA FragmentCountType ==
    ASSUME NEW b \in Nat
    PROVE  FragmentCount(b) \in Nat
<1>1. CASE b = 0
  BY <1>1 DEF FragmentCount
<1>2. CASE b # 0
  <2>1. FragmentCount(b) = 1 + (b - 1) \div FreshCapacity /\ b - 1 \in Nat
    BY <1>2 DEF FragmentCount
  <2>2. (b - 1) \div FreshCapacity \in Nat
    BY <2>1, QueueFacts
  <2>3. QED
    BY <2>1, <2>2
<1>3. QED
  BY <1>1, <1>2

\* A fragment as large as a group allows leaves one fragment less.
LEMMA FragmentCountStep ==
    ASSUME NEW b \in Nat, b > FreshCapacity
    PROVE  FragmentCount(b - FreshCapacity) + 1 = FragmentCount(b)
<1> DEFINE F == FreshCapacity
           q == (b - 1) \div F
           r == (b - 1) % F
           u == (b - F - 1) \div F
           v == (b - F - 1) % F
<1>1. F \in Nat \ {0} /\ b - 1 \in Int /\ b - F - 1 \in Int /\ b - F \in Nat \ {0} /\ b # 0
  BY QueueFacts
<1>2. FragmentCount(b) = 1 + q /\ FragmentCount(b - F) = 1 + u
  BY <1>1 DEF FragmentCount
<1>3. b - 1 = F * q + r /\ r \in 0..(F - 1) /\ q \in Int
  BY <1>1, DivOf
<1>4. b - F - 1 = F * u + v /\ v \in 0..(F - 1) /\ u \in Int
  BY <1>1, DivOf
<1> HIDE DEF F, q, r, u, v
<1>5. F * q = F * (u + 1) + (v - r) /\ F * (u + 1) \in Int /\ F * q \in Int
  BY <1>1, <1>3, <1>4
<1>6. ~(q < u + 1)
  <2>1. SUFFICES ASSUME q < u + 1 PROVE FALSE
    OBVIOUS
  <2>2. F * (u + 1) >= F * q + F
    BY <1>1, <1>3, <1>4, <2>1, Apart
  <2>3. QED
    BY <1>1, <1>3, <1>4, <1>5, <2>2
<1>7. ~(u + 1 < q)
  <2>1. SUFFICES ASSUME u + 1 < q PROVE FALSE
    OBVIOUS
  <2>2. F * q >= F * (u + 1) + F
    BY <1>1, <1>3, <1>4, <2>1, Apart
  <2>3. QED
    BY <1>1, <1>3, <1>4, <1>5, <2>2
<1>8. q = u + 1
  BY <1>3, <1>4, <1>6, <1>7
<1>9. QED
  BY <1>2, <1>3, <1>4, <1>8 DEF F

LEMMA MinPair ==
    ASSUME NEW a \in Int, NEW b \in Int
    PROVE  Min({a, b}) = IF a <= b THEN a ELSE b
<1> DEFINE m == IF a <= b THEN a ELSE b
<1>1. Min({a, b}) = CHOOSE x \in {a, b} : \A y \in {a, b} : x <= y
  BY DEF Min
<1>2. m \in {a, b} /\ \A y \in {a, b} : m <= y
  OBVIOUS
<1>3. ASSUME NEW x \in {a, b}, \A y \in {a, b} : x <= y PROVE x = m
  BY <1>3
<1> HIDE DEF m
<1>4. Min({a, b}) = m
  BY <1>1, <1>2, <1>3
<1>5. QED
  BY <1>4 DEF m

PlanRecords == [used : Nat, count : Nat, next : Nat, bytes : Nat, full : BOOLEAN]
NoPlan == [used |-> 0, count |-> 0, next |-> 0, bytes |-> 0, full |-> FALSE]

\* What a plan for the first n Datagrams of the queue is: a fragment it takes
\* leaves its Datagram fragments enough.
PlanSound(plan, queue, n) ==
    /\ plan \in PlanRecords /\ plan.next <= n /\ plan.count <= n
    /\ ~plan.full => plan.next = n /\ plan.bytes = 0
    /\ plan.bytes # 0 =>
          /\ plan.next < n
          /\ plan.bytes <= queue[plan.next + 1].size - queue[plan.next + 1].offset
          /\ queue[plan.next + 1].fragments + 1
               + FragmentCount(queue[plan.next + 1].size - queue[plan.next + 1].offset - plan.bytes)
                 <= MaxFragments
    /\ IF n = 0 THEN plan = NoPlan ELSE plan.count > 0

LEMMA PlanEntrySound ==
    ASSUME NEW queue \in Seq(Entries), Fitting(queue), NEW n \in 1..Len(queue),
           NEW plan, PlanSound(plan, queue, n - 1)
    PROVE  PlanSound(PlanEntry(plan, queue[n]), queue, n)
<1> DEFINE e == queue[n]
           remaining == e.size - e.offset
           room == GroupBytes - plan.used - DescriptorBytes
           consumed == Min({room, remaining})
           blocked == \/ plan.full \/ plan.count = MaxDescriptors
                      \/ room < 0 \/ (room = 0 /\ remaining > 0)
                      \/ consumed < remaining
                         /\ e.fragments + 1 + FragmentCount(remaining - consumed) > MaxFragments
           stopped == [plan EXCEPT !.full = TRUE]
           taken == [used |-> plan.used + DescriptorBytes + consumed, count |-> plan.count + 1,
                     next |-> IF consumed < remaining THEN plan.next ELSE plan.next + 1,
                     bytes |-> IF consumed < remaining THEN consumed ELSE 0,
                     full |-> consumed < remaining]
<1>1. PlanEntry(plan, e) = IF blocked THEN stopped ELSE taken
  BY DEF PlanEntry
<1>2. e \in Entries /\ n \in Nat /\ Len(queue) \in Nat
  BY ElementOfSeq, LenProperties
<1>3. e.size \in Nat /\ e.offset \in Nat /\ e.fragments \in Nat /\ e.offset <= e.size
  BY <1>2 DEF Fitting, Entries
<1>12. e.fragments + FragmentCount(remaining) <= MaxFragments
  BY <1>2 DEF Fitting
<1>4. plan \in PlanRecords
  BY DEF PlanSound
<1>5. plan.used \in Nat /\ plan.count \in Nat /\ plan.next \in Nat /\ plan.bytes \in Nat
      /\ plan.full \in BOOLEAN
  BY <1>4 DEF PlanRecords
<1>6. remaining \in Nat /\ room \in Int /\ consumed = IF room <= remaining THEN room ELSE remaining
  <2>1. remaining \in Nat /\ room \in Int
    BY <1>3, <1>5, QueueFacts
  <2> HIDE DEF remaining, room
  <2>2. Min({room, remaining}) = IF room <= remaining THEN room ELSE remaining
    BY <2>1, MinPair
  <2>3. QED
    BY <2>1, <2>2
<1>7. room = FreshCapacity - plan.used
  BY <1>5, QueueFacts
<1>8. consumed \in Int /\ consumed <= remaining
  BY <1>6
<1> HIDE DEF remaining, room, consumed
<1>9. CASE blocked
  <2>1. stopped \in PlanRecords /\ stopped.full = TRUE /\ stopped.next = plan.next
        /\ stopped.bytes = plan.bytes /\ stopped.count = plan.count
    BY <1>4 DEF PlanRecords
  <2>2. n # 1
    <3>1. SUFFICES ASSUME n = 1 PROVE FALSE
      OBVIOUS
    <3>2. plan = NoPlan
      BY <3>1 DEF PlanSound
    <3>3. plan.used = 0 /\ plan.count = 0 /\ ~plan.full
      BY <3>2 DEF NoPlan
    <3>4. room = FreshCapacity /\ room > 0
      BY <1>7, <3>3, QueueFacts
    <3>5. consumed < remaining /\ e.fragments + 1 + FragmentCount(remaining - consumed) > MaxFragments
      BY <1>9, <3>3, <3>4, QueueFacts
    <3>6. consumed = FreshCapacity /\ remaining > FreshCapacity
      BY <1>6, <3>4, <3>5
    <3>7. FragmentCount(remaining - FreshCapacity) + 1 = FragmentCount(remaining)
      BY <1>6, <3>6, FragmentCountStep
    <3>8. FragmentCount(remaining) \in Nat /\ FragmentCount(remaining - FreshCapacity) \in Nat
      <4>1. remaining - FreshCapacity \in Nat
        BY <1>6, <3>6, QueueFacts
      <4>2. QED
        BY <1>6, <4>1, FragmentCountType
    <3>9. QED
      BY <1>3, <1>12, <3>5, <3>6, <3>7, <3>8, QueueFacts DEF remaining
  <2>3. plan.count > 0 /\ plan.next <= n - 1 /\ plan.count <= n - 1
    BY <1>2, <2>2 DEF PlanSound
  <2> HIDE DEF stopped, e, blocked
  <2>4. plan.bytes # 0 => plan.next < n - 1
    BY DEF PlanSound
  <2>5. QED
    BY <1>1, <1>2, <1>5, <1>9, <2>1, <2>2, <2>3, <2>4 DEF PlanSound, e
<1>10. CASE ~blocked
  <2>1. ~plan.full /\ room >= 0 /\ (room = 0 => remaining = 0)
        /\ (consumed < remaining => e.fragments + 1 + FragmentCount(remaining - consumed) <= MaxFragments)
    <3>1. consumed < remaining => FragmentCount(remaining - consumed) \in Nat
      <4>1. consumed < remaining => remaining - consumed \in Nat
        BY <1>6, <1>8
      <4>2. QED
        BY <4>1, FragmentCountType
    <3>2. /\ ~plan.full /\ ~(room < 0) /\ ~(room = 0 /\ remaining > 0)
          /\ ~(consumed < remaining
                /\ e.fragments + 1 + FragmentCount(remaining - consumed) > MaxFragments)
      BY <1>10
    <3> HIDE DEF e, blocked
    <3>3. ASSUME consumed < remaining
          PROVE  e.fragments + 1 + FragmentCount(remaining - consumed) <= MaxFragments
      BY <1>3, <3>1, <3>2, <3>3, QueueFacts
    <3>4. QED
      BY <1>6, <3>2, <3>3
  <2>2. plan.next = n - 1 /\ plan.count <= n - 1
    BY <2>1 DEF PlanSound
  <2>3. consumed \in Nat /\ (consumed < remaining => consumed # 0)
    BY <1>6, <1>8, <2>1
  <2>4. taken \in PlanRecords
    <3> HIDE DEF e, blocked, stopped
    <3>1. /\ plan.used + DescriptorBytes + consumed \in Nat /\ plan.count + 1 \in Nat
          /\ (IF consumed < remaining THEN plan.next ELSE plan.next + 1) \in Nat
          /\ (IF consumed < remaining THEN consumed ELSE 0) \in Nat
      BY <1>5, <2>3, QueueFacts
    <3>2. (consumed < remaining) \in BOOLEAN
      OBVIOUS
    <3>3. QED
      BY <3>1, <3>2, Zenon DEF PlanRecords
  <2>5. /\ taken.next = (IF consumed < remaining THEN n - 1 ELSE n) /\ taken.count = plan.count + 1
        /\ taken.bytes = (IF consumed < remaining THEN consumed ELSE 0)
        /\ taken.full = (consumed < remaining)
    BY <1>2, <2>2
  <2> HIDE DEF taken, blocked
  <2>6. taken.next <= n /\ taken.count <= n /\ taken.count > 0
    BY <1>2, <1>5, <2>2, <2>5
  <2>7. ~taken.full => taken.next = n /\ taken.bytes = 0
    BY <2>5
  <2>8. taken.bytes # 0 => consumed < remaining /\ taken.next + 1 = n /\ taken.bytes = consumed
    BY <1>2, <2>5
  <2>9. taken.bytes # 0 =>
          /\ taken.next < n
          /\ taken.bytes <= queue[taken.next + 1].size - queue[taken.next + 1].offset
          /\ queue[taken.next + 1].fragments + 1
               + FragmentCount(queue[taken.next + 1].size - queue[taken.next + 1].offset - taken.bytes)
                 <= MaxFragments
    <3>1. SUFFICES ASSUME taken.bytes # 0
                   PROVE  /\ taken.next < n /\ taken.bytes <= remaining
                          /\ e.fragments + 1 + FragmentCount(remaining - taken.bytes) <= MaxFragments
      BY <2>8 DEF remaining
    <3>2. taken.next < n
      BY <1>2, <2>4, <2>8, <3>1 DEF PlanRecords
    <3>3. QED
      BY <1>8, <2>1, <2>8, <3>1, <3>2
  <2>10. n # 0 /\ PlanEntry(plan, queue[n]) = taken
    BY <1>1, <1>2, <1>10
  <2> HIDE DEF e
  <2>11. QED
    BY <2>4, <2>6, <2>7, <2>9, <2>10 DEF PlanSound
<1>11. QED
  BY <1>9, <1>10

\* The loop of planLocked.
Plans(f, queue) ==
    f = [n \in 0..Len(queue) |-> IF n = 0 THEN NoPlan ELSE PlanEntry(f[n - 1], queue[n])]

LEMMA PlansExist ==
    ASSUME NEW queue \in Seq(Entries)
    PROVE  \E f : Plans(f, queue)
<1> DEFINE Upto(f, n) == f = [m \in 0..n |-> IF m = 0 THEN NoPlan ELSE PlanEntry(f[m - 1], queue[m])]
           S == {n \in 0..Len(queue) : \E f : Upto(f, n)}
<1>1. Len(queue) \in Nat
  BY LenProperties
<1>2. 0 \in S
  <2>1. Upto([m \in 0..0 |-> NoPlan], 0)
    OBVIOUS
  <2> HIDE DEF Upto
  <2>2. QED
    BY <1>1, <2>1
<1>3. ASSUME NEW n \in 1..Len(queue), n - 1 \in S PROVE n \in S
  <2>1. PICK f : Upto(f, n - 1)
    BY <1>3
  <2> DEFINE g == [m \in 0..n |-> IF m = n THEN PlanEntry(f[n - 1], queue[n]) ELSE f[m]]
  <2>2. \A m \in 0..(n - 1) : f[m] = IF m = 0 THEN NoPlan ELSE PlanEntry(f[m - 1], queue[m])
    BY <2>1
  <2> HIDE DEF Upto
  <2>3. \A m \in 0..n : g[m] = IF m = 0 THEN NoPlan ELSE PlanEntry(g[m - 1], queue[m])
    <3>1. SUFFICES ASSUME NEW m \in 0..n
                   PROVE  g[m] = IF m = 0 THEN NoPlan ELSE PlanEntry(g[m - 1], queue[m])
      OBVIOUS
    <3>2. CASE m = n
      <4>1. m # 0 /\ g[m] = PlanEntry(f[n - 1], queue[n]) /\ g[m - 1] = f[n - 1]
        BY <1>1, <1>3, <3>2
      <4>2. QED
        BY <3>2, <4>1
    <3>3. CASE m # n
      <4>1. m \in 0..(n - 1) /\ g[m] = f[m] /\ (m # 0 => g[m - 1] = f[m - 1])
        BY <1>1, <1>3, <3>3
      <4>2. QED
        BY <2>2, <4>1
    <3>4. QED
      BY <3>2, <3>3
  <2>4. g = [m \in 0..n |-> g[m]]
    OBVIOUS
  <2> HIDE DEF g
  <2>5. Upto(g, n)
    BY <2>3, <2>4 DEF Upto
  <2>6. n \in 0..Len(queue)
    BY <1>1
  <2>7. QED
    BY <2>5, <2>6
<1>4. Len(queue) \in S
  <2> HIDE DEF S
  <2>1. \A n \in 0..Len(queue) : n \in S
    BY <1>1, <1>2, <1>3, Induction
  <2>2. QED
    BY <1>1, <2>1
<1>5. QED
  BY <1>4 DEF Plans

LEMMA PlanIsSound ==
    ASSUME NEW queue \in Seq(Entries), Fitting(queue)
    PROVE  LET plan == Plan(queue)
           IN  /\ plan.count \in 0..Len(queue) /\ plan.next \in 0..Len(queue) /\ plan.bytes \in Nat
               /\ plan.bytes # 0 =>
                     /\ plan.next < Len(queue)
                     /\ plan.bytes <= queue[plan.next + 1].size - queue[plan.next + 1].offset
                     /\ queue[plan.next + 1].fragments + 1
                          + FragmentCount(queue[plan.next + 1].size - queue[plan.next + 1].offset
                                            - plan.bytes) <= MaxFragments
               /\ Len(queue) # 0 => plan.count > 0
<1> DEFINE f == CHOOSE g : Plans(g, queue)
           S == {n \in 0..Len(queue) : PlanSound(f[n], queue, n)}
<1>1. PlanSteps(queue) = f
  BY DEF PlanSteps, Plans, NoPlan
<1>2. Plans(f, queue)
  BY PlansExist
<1>3. Len(queue) \in Nat
  BY LenProperties
<1> HIDE DEF f
<1>4. \A n \in 0..Len(queue) : f[n] = IF n = 0 THEN NoPlan ELSE PlanEntry(f[n - 1], queue[n])
  BY <1>2 DEF Plans
<1>5. 0 \in S
  <2>1. f[0] = NoPlan
    BY <1>3, <1>4
  <2>2. NoPlan \in PlanRecords /\ NoPlan.next = 0 /\ NoPlan.count = 0 /\ NoPlan.bytes = 0
    BY DEF NoPlan, PlanRecords
  <2>3. PlanSound(f[0], queue, 0)
    BY <2>1, <2>2 DEF PlanSound
  <2>4. QED
    BY <1>3, <2>3
<1>6. ASSUME NEW n \in 1..Len(queue), n - 1 \in S PROVE n \in S
  <2>1. PlanSound(f[n - 1], queue, n - 1)
    BY <1>6
  <2>2. PlanSound(PlanEntry(f[n - 1], queue[n]), queue, n)
    BY <2>1, PlanEntrySound
  <2>3. n \in 0..Len(queue) /\ n # 0
    BY <1>3
  <2>4. QED
    BY <1>4, <2>2, <2>3
<1>7. PlanSound(f[Len(queue)], queue, Len(queue))
  <2>1. \A n \in 0..Len(queue) : n \in S
    <3> HIDE DEF S
    <3>1. QED
      BY <1>3, <1>5, <1>6, Induction
  <2>2. QED
    BY <1>3, <2>1
<1> DEFINE p == f[Len(queue)]
<1>8. Plan(queue) = [p EXCEPT !.full = p.full \/ p.used = GroupBytes \/ p.count = MaxDescriptors]
  BY <1>1 DEF Plan
<1>9. p \in PlanRecords
  BY <1>7 DEF PlanSound
<1> HIDE DEF p
<1>10. Plan(queue).count = p.count /\ Plan(queue).next = p.next /\ Plan(queue).bytes = p.bytes
       /\ p.count \in Nat /\ p.next \in Nat /\ p.bytes \in Nat
  BY <1>8, <1>9 DEF PlanRecords
<1>11. PlanSound(p, queue, Len(queue))
  BY <1>7 DEF p
<1>12. QED
  BY <1>3, <1>10, <1>11 DEF PlanSound

LEMMA EntryAdvances ==
    ASSUME NEW e \in Entries, NEW b \in Nat
    PROVE  LET f == [e EXCEPT !.offset = e.offset + b, !.fragments = e.fragments + 1]
           IN  /\ f \in Entries /\ f.id = e.id /\ f.size = e.size /\ f.offset = e.offset + b
               /\ f.fragments = e.fragments + 1
               /\ e.size \in Nat /\ e.offset \in Nat /\ e.fragments \in Nat
<1> DEFINE o == e.offset + b
           g == e.fragments + 1
<1>1. o \in Nat /\ g \in Nat /\ e.size \in Nat /\ e.offset \in Nat /\ e.fragments \in Nat
  BY DEF Entries
<1> HIDE DEF o, g
<1>2. [e EXCEPT !.offset = o, !.fragments = g] \in Entries
  BY <1>1 DEF Entries
<1>3. LET f == [e EXCEPT !.offset = o, !.fragments = g]
      IN  f.id = e.id /\ f.size = e.size /\ f.offset = o /\ f.fragments = g
  BY DEF Entries
<1>4. QED
  BY <1>1, <1>2, <1>3 DEF o, g

\* What is left of the queue fits what is left of its fragments.
LEMMA RemainderFacts ==
    ASSUME NEW queue \in Seq(Entries), Fitting(queue)
    PROVE  LET left == Remainder(queue, Plan(queue))
           IN  /\ left \in Seq(Entries) /\ Fitting(left)
               /\ Len(left) = Len(queue) - Plan(queue).next
               /\ \A i \in 1..Len(left) : left[i].id = queue[Plan(queue).next + i].id
<1> DEFINE plan == Plan(queue)
           left == Remainder(queue, plan)
           rest == SubSeq(queue, plan.next + 1, Len(queue))
           n == Len(queue) - plan.next
<1>1. Len(queue) \in Nat /\ \A i \in 1..Len(queue) : queue[i] \in Entries
  BY LenProperties, ElementOfSeq
<1>2. /\ plan.next \in 0..Len(queue) /\ plan.bytes \in Nat
      /\ plan.bytes # 0 =>
           /\ plan.next < Len(queue)
           /\ plan.bytes <= queue[plan.next + 1].size - queue[plan.next + 1].offset
           /\ queue[plan.next + 1].fragments + 1
                + FragmentCount(queue[plan.next + 1].size - queue[plan.next + 1].offset
                                  - plan.bytes) <= MaxFragments
  BY PlanIsSound
<1> HIDE DEF plan
<1>3. n \in Nat /\ plan.bytes \in Nat
  BY <1>1, <1>2
<1>4. rest \in Seq(Entries) /\ Len(rest) = n /\ \A i \in 1..n : rest[i] = queue[plan.next + i]
  <2>1. plan.next + 1 \in Int /\ Len(queue) \in Int
        /\ \A i \in (plan.next + 1)..Len(queue) : queue[i] \in Entries
    BY <1>1, <1>2
  <2>2. /\ rest \in Seq(Entries)
        /\ Len(rest) = IF plan.next + 1 <= Len(queue) THEN Len(queue) - (plan.next + 1) + 1 ELSE 0
        /\ \A i \in 1..(Len(queue) - (plan.next + 1) + 1) : rest[i] = queue[plan.next + 1 + i - 1]
    BY <2>1, SubSeqProperties
  <2> HIDE DEF rest
  <2>3. Len(rest) = n
    BY <1>1, <1>2, <2>2
  <2>4. ASSUME NEW i \in 1..n PROVE rest[i] = queue[plan.next + i]
    <3>1. i \in 1..(Len(queue) - (plan.next + 1) + 1) /\ plan.next + 1 + i - 1 = plan.next + i
      BY <1>1, <1>2
    <3>2. QED
      BY <2>2, <3>1
  <2>5. QED
    BY <2>2, <2>3, <2>4
<1>5. left = IF plan.bytes = 0 THEN rest
             ELSE [rest EXCEPT ![1].offset = @ + plan.bytes, ![1].fragments = @ + 1]
  BY DEF Remainder
<1> HIDE DEF rest, left
<1>6. Fitting(rest)
  <2>1. SUFFICES ASSUME NEW i \in 1..n
                 PROVE  /\ rest[i].offset <= rest[i].size
                        /\ rest[i].fragments + FragmentCount(rest[i].size - rest[i].offset)
                             <= MaxFragments
    BY <1>4 DEF Fitting
  <2>2. plan.next + i \in 1..Len(queue) /\ rest[i] = queue[plan.next + i]
    BY <1>1, <1>2, <1>4
  <2>3. QED
    BY <2>2 DEF Fitting
<1>7. CASE plan.bytes = 0
  BY <1>4, <1>5, <1>6, <1>7 DEF plan, left
<1>8. CASE plan.bytes # 0
  <2> DEFINE e == rest[1]
             f == [e EXCEPT !.offset = e.offset + plan.bytes, !.fragments = e.fragments + 1]
  <2>1. 1 \in 1..n /\ e = queue[plan.next + 1] /\ e \in Entries
    <3>1. 1 \in 1..n /\ plan.next + 1 \in 1..Len(queue)
      BY <1>1, <1>2, <1>8
    <3>2. QED
      BY <1>1, <1>4, <3>1
  <2>2. left = [rest EXCEPT ![1] = f]
    <3>1. 1 \in DOMAIN rest
      BY <1>4, <2>1, LenProperties
    <3>2. QED
      BY <1>5, <1>8, <2>1, <3>1 DEF Entries
  <2> HIDE DEF e
  <2>3. f \in Entries /\ f.id = e.id /\ f.size = e.size /\ f.offset = e.offset + plan.bytes
        /\ f.fragments = e.fragments + 1
        /\ e.size \in Nat /\ e.offset \in Nat /\ e.fragments \in Nat
    <3>1. e \in Entries /\ plan.bytes \in Nat
      BY <1>3, <2>1
    <3>2. QED
      BY <3>1, EntryAdvances, Zenon
  <2> HIDE DEF f
  <2>4. /\ left \in Seq(Entries) /\ Len(left) = n
        /\ \A i \in 1..n : left[i] = IF i = 1 THEN f ELSE rest[i]
    <3>1. rest \in Seq(Entries) /\ 1 \in 1..Len(rest) /\ f \in Entries
      BY <1>4, <2>1, <2>3
    <3>2. /\ [rest EXCEPT ![1] = f] \in Seq(Entries)
          /\ Len([rest EXCEPT ![1] = f]) = Len(rest)
          /\ \A j \in 1..Len(rest) : [rest EXCEPT ![1] = f][j] = IF j = 1 THEN f ELSE rest[j]
      BY <3>1, ExceptSeq
    <3>3. QED
      BY <1>4, <2>2, <3>2
  <2>5. f.offset <= f.size
    BY <1>2, <1>8, <2>1, <2>3
  <2>6. f.fragments + FragmentCount(f.size - f.offset) <= MaxFragments
    <3>1. f.size - f.offset = e.size - e.offset - plan.bytes
      BY <1>3, <2>3
    <3>2. e.fragments + 1 + FragmentCount(e.size - e.offset - plan.bytes) <= MaxFragments
      BY <1>2, <1>8, <2>1
    <3>3. QED
      BY <2>3, <3>1, <3>2
  <2>7. Fitting(left)
    <3>1. SUFFICES ASSUME NEW i \in 1..n
                   PROVE  /\ left[i].offset <= left[i].size
                          /\ left[i].fragments + FragmentCount(left[i].size - left[i].offset)
                               <= MaxFragments
      BY <2>4 DEF Fitting
    <3>2. CASE i = 1
      BY <2>4, <2>5, <2>6, <3>2
    <3>3. CASE i # 1
      BY <1>4, <1>6, <2>4, <3>3 DEF Fitting
    <3>4. QED
      BY <3>2, <3>3
  <2>8. ASSUME NEW i \in 1..n PROVE left[i].id = queue[plan.next + i].id
    BY <1>4, <2>1, <2>3, <2>4
  <2>9. QED
    BY <2>4, <2>7, <2>8 DEF plan, left
<1>9. QED
  BY <1>7, <1>8

----------------------------------------------------------------------------
(* Groups                                                                  *)

LEMMA PathFacts ==
    /\ NumPaths \in Nat \ {0} /\ Paths = 1..NumPaths /\ Paths \subseteq Nat /\ 0 \notin Paths
    /\ NumShards \in Nat \ {0} /\ Shards = 1..NumShards /\ Shards # {}
    /\ MaxSlots \in Nat \ {0} /\ Slots = 1..MaxSlots /\ Slots \subseteq Nat /\ 0 \notin Slots
    /\ Controls = {0} \cup Paths /\ Context = 0 /\ ControlSends \in Nat \ {0}
BY CountsAssumption DEF Paths, Shards, Slots, Controls, Context

LEMMA Fields ==
    ASSUME NEW k \in Controllers
    PROVE  /\ k.state \in {"open", "closing", "final"} /\ k.accepting \in BOOLEAN
           /\ k.queue \in Seq(Entries) /\ k.nextID \in Nat \ {0} /\ k.nextGroup \in Nat
           /\ k.forced \in Nat /\ k.completed \in Int /\ k.failedFrom \in Int
           /\ k.lost \in SUBSET Nat /\ k.out \in OutRecords
           /\ k.slots \in [Slots -> SlotRecords] /\ k.path \in [Paths -> PathRecords]
           /\ k.retry \in [Controls -> RetryRecords] /\ k.contextPath \in {0} \cup Paths
           /\ k.acknowledged \in BOOLEAN
BY DEF Controllers

LEMMA OutFields ==
    ASSUME NEW o \in OutRecords
    PROVE  /\ o.ids \in SUBSET Nat /\ o.through \in Int /\ o.group \in Nat /\ o.next \in Nat
           /\ o.shards \in [Shards -> {"waiting", "dispatched", "terminal"}]
BY DEF OutRecords

\* What the code below leaves alone when it changes groups and fences only.
SameSends(k, n) ==
    /\ n.slots = k.slots /\ n.path = k.path /\ n.retry = k.retry
    /\ n.contextPath = k.contextPath /\ n.acknowledged = k.acknowledged
    /\ n.state = k.state

LEMMA SealFenced ==
    ASSUME NEW k \in Controllers, Fenced(k), ~HasOut(k), NEW t
    PROVE  LET n == Seal(k, t)
           IN  /\ n \in Controllers /\ Fenced(n) /\ SameSends(k, n)
               /\ \A s \in Shards : n.out.shards[s] # "dispatched"
<1> DEFINE n == Seal(k, t)
           plan == Plan(k.queue)
           left == Remainder(k.queue, plan)
           ids == {k.queue[i].id : i \in 1..plan.count}
           skip == k.queue = <<>> \/ ~(k.forced > k.completed \/ Due(k, plan, t))
           through == k.nextID - 1 - Len(left)
           o == [ids |-> ids, group |-> k.nextGroup, next |-> 1,
                 through |-> through, shards |-> [s \in Shards |-> "waiting"]]
           g == 1 + (k.nextGroup % NumPaths)
<1>1. CASE skip
  <2>1. n = k
    BY <1>1 DEF Seal
  <2>2. QED
    BY <2>1 DEF Fenced, Failures, SameSends
<1>2. CASE ~skip
  <2>1. n = [k EXCEPT !.queue = left, !.nextGroup = g, !.out = o]
    BY <1>2 DEF Seal
  <2>2. /\ k.queue \in Seq(Entries) /\ k.nextID \in Nat \ {0} /\ k.nextGroup \in Nat
        /\ k.forced \in Nat /\ k.completed \in Int /\ Len(k.queue) \in Nat /\ k.failedFrom \in Int
    BY Fields, LenProperties
  <2>3. Fitting(k.queue) /\ Len(k.queue) # 0
    BY <1>2, <2>2, EmptySeq DEF Fenced, Numbered
  <2>4. plan.count \in 0..Len(k.queue) /\ plan.next \in 0..Len(k.queue) /\ plan.count > 0
    BY <2>2, <2>3, PlanIsSound
  <2>5. /\ left \in Seq(Entries) /\ Fitting(left)
        /\ Len(left) = Len(k.queue) - plan.next
        /\ \A i \in 1..Len(left) : left[i].id = k.queue[plan.next + i].id
    BY <2>2, <2>3, RemainderFacts
  <2> HIDE DEF plan, left, skip
  <2>6. g \in Nat
    BY <2>2, PathFacts
  <2>7. \A i \in 1..Len(k.queue) : k.queue[i].id = k.nextID - 1 - Len(k.queue) + i
    BY DEF Fenced, Numbered
  <2>8. k.completed >= 0 /\ k.completed <= k.nextID - 1 - Len(k.queue) /\ k.forced <= k.nextID - 1
    BY DEF Fenced, Numbered
  <2>9. \A d \in ids : d \in Nat /\ d > k.completed
    <3>1. SUFFICES ASSUME NEW i \in 1..plan.count
                   PROVE  k.queue[i].id \in Nat /\ k.queue[i].id > k.completed
      OBVIOUS
    <3>2. i \in 1..Len(k.queue) /\ i \in Nat /\ i >= 1
      BY <2>2, <2>4
    <3>3. k.queue[i].id = k.nextID - 1 - Len(k.queue) + i
      BY <2>7, <3>2
    <3>4. QED
      BY <2>2, <2>8, <3>2, <3>3
  <2>10. ids # {}
    <3>1. 1 \in 1..plan.count
      BY <2>2, <2>4
    <3>2. k.queue[1].id \in ids
      BY <3>1
    <3>3. QED
      BY <3>2
  <2>17. through \in Int
    BY <2>2, <2>4, <2>5
  <2> HIDE DEF ids, g, through
  <2>11. o \in OutRecords
    BY <2>2, <2>9, <2>17 DEF OutRecords
  <2>12. /\ o.ids = ids /\ o.through = k.nextID - 1 - Len(left)
         /\ \A s \in Shards : o.shards[s] = "waiting"
    BY DEF through
  <2> HIDE DEF o
  <2>13. /\ n \in Controllers /\ SameSends(k, n) /\ n.queue = left /\ n.out = o /\ n.nextID = k.nextID
         /\ n.completed = k.completed /\ n.forced = k.forced /\ n.lost = k.lost
         /\ n.failedFrom = k.failedFrom
    BY <2>1, <2>5, <2>6, <2>11 DEF Controllers, SameSends
  <2> HIDE DEF n
  <2>14. Numbered(n)
    <3>1. ASSUME NEW i \in 1..Len(left) PROVE left[i].id = k.nextID - 1 - Len(left) + i
      <4>1. plan.next + i \in 1..Len(k.queue)
        BY <2>2, <2>4, <2>5
      <4>2. left[i].id = k.nextID - 1 - Len(k.queue) + (plan.next + i)
        BY <2>5, <2>7, <4>1
      <4>3. QED
        BY <2>2, <2>4, <2>5, <4>2
    <3>2. k.completed <= k.nextID - 1 - Len(left)
      BY <2>2, <2>4, <2>5, <2>8
    <3>3. QED
      BY <2>2, <2>4, <2>5, <2>8, <2>12, <2>13, <3>1, <3>2 DEF Numbered
  <2>15. Failures(n)
    <3>1. Failures(k)
      BY DEF Fenced
    <3>2. HasOut(n)
      BY <2>10, <2>12, <2>13 DEF HasOut
    <3>3. QED
      BY <2>9, <2>12, <2>13, <3>1, <3>2 DEF Failures
  <2>16. QED
    BY <2>12, <2>13, <2>14, <2>15 DEF Fenced, n
<1>3. QED
  BY <1>1, <1>2

\* Shards that complete keep the fences honest.
LEMMA CompleteFenced ==
    ASSUME NEW k \in Controllers, Fenced(k), NEW S, NEW failed \in BOOLEAN,
           HasOut(k) \/ S \subseteq Shards
    PROVE  LET n == CompleteShards(k, S, failed)
           IN  /\ n \in Controllers /\ Fenced(n) /\ SameSends(k, n)
               /\ \A s \in Shards :
                     n.out.shards[s] = IF s \in S THEN "terminal" ELSE k.out.shards[s]
<1> DEFINE n == CompleteShards(k, S, failed)
           now == {s \in S : k.out.shards[s] # "terminal"}
           shards == [s \in Shards |-> IF s \in now THEN "terminal" ELSE k.out.shards[s]]
           from == IF failed /\ k.failedFrom = 0 THEN k.completed + 1 ELSE k.failedFrom
           lost == IF failed THEN k.lost \cup k.out.ids ELSE k.lost
           done == [k EXCEPT !.out.shards = shards, !.failedFrom = from, !.lost = lost]
<1>1. /\ k.completed \in Int /\ k.failedFrom \in Int /\ k.lost \in SUBSET Nat /\ k.out \in OutRecords
      /\ k.out.ids \in SUBSET Nat /\ k.out.through \in Int
      /\ k.out.shards \in [Shards -> {"waiting", "dispatched", "terminal"}]
  BY Fields, OutFields
<1>2. \A s \in Shards : shards[s] = IF s \in S THEN "terminal" ELSE k.out.shards[s]
  OBVIOUS
<1>3. n = IF now = {} THEN k
          ELSE IF \E s \in Shards : done.out.shards[s] # "terminal" THEN done
          ELSE [ReleaseOutput(done) EXCEPT !.completed = k.out.through]
  BY DEF CompleteShards
<1>4. CASE now = {}
  <2>1. n = k
    BY <1>3, <1>4
  <2>2. \A s \in Shards : s \in S => k.out.shards[s] = "terminal"
    BY <1>4
  <2> HIDE DEF n
  <2>3. SameSends(k, n)
    BY <2>1 DEF SameSends
  <2>4. QED
    BY <2>1, <2>2, <2>3 DEF n
<1>5. CASE now # {}
  <2>1. HasOut(k)
    BY <1>5 DEF Fenced, Failures
  <2>2. shards \in [Shards -> {"waiting", "dispatched", "terminal"}]
    BY <1>1
  <2>3. from \in Int /\ lost \in SUBSET Nat
    BY <1>1
  <2>4. /\ 0 <= k.completed /\ 0 <= k.failedFrom /\ k.failedFrom <= k.completed + 1
        /\ k.completed <= k.out.through
    BY <2>1 DEF Fenced, Numbered, Failures
  <2>5. 0 <= from /\ from <= k.completed + 1 /\ (failed => from # 0)
        /\ (k.failedFrom # 0 => from = k.failedFrom)
    BY <1>1, <2>4
  <2>6. \A d \in lost : from # 0 /\ from <= d
    <3>1. SUFFICES ASSUME NEW d \in lost PROVE from # 0 /\ from <= d
      OBVIOUS
    <3>2. CASE d \in k.lost
      BY <2>5, <3>2 DEF Fenced, Failures
    <3>3. CASE d \notin k.lost
      <4>1. failed /\ d \in k.out.ids
        BY <3>1, <3>3
      <4>2. d > k.completed /\ d \in Nat
        BY <1>1, <4>1 DEF Fenced, Failures
      <4>3. QED
        BY <1>1, <2>3, <2>5, <4>1, <4>2
    <3>4. QED
      BY <3>2, <3>3
  <2>7. from # 0 => lost # {}
    BY <2>1 DEF Fenced, Failures, HasOut
  <2> HIDE DEF now, shards, from, lost
  <2>8. done \in Controllers /\ SameSends(k, done) /\ done.queue = k.queue /\ done.nextID = k.nextID
        /\ done.completed = k.completed /\ done.forced = k.forced /\ done.lost = lost
        /\ done.failedFrom = from /\ done.out.shards = shards /\ done.out.ids = k.out.ids
        /\ done.out.through = k.out.through
    BY <1>1, <2>2, <2>3 DEF Controllers, SameSends, OutRecords
  <2> HIDE DEF done
  <2>9. Numbered(k) /\ Failures(k)
    BY DEF Fenced
  <2>10. CASE \E s \in Shards : shards[s] # "terminal"
    <3>1. n = done
      BY <1>3, <1>5, <2>8, <2>10
    <3>2. Numbered(done)
      BY <2>8, <2>9 DEF Numbered, HasOut
    <3>3. Failures(done)
      BY <2>1, <2>5, <2>6, <2>7, <2>8, <2>9 DEF Failures, HasOut
    <3> HIDE DEF n
    <3>4. QED
      BY <1>2, <2>8, <3>1, <3>2, <3>3 DEF n, Fenced
  <2>11. CASE \A s \in Shards : shards[s] = "terminal"
    <3>1. n = [ReleaseOutput(done) EXCEPT !.completed = k.out.through]
      BY <1>3, <1>5, <2>8, <2>11
    <3>2. NoOut \in OutRecords /\ NoOut.ids = {} /\ \A s \in Shards : NoOut.shards[s] = "terminal"
      BY DEF NoOut, OutRecords
    <3>3. n = [done EXCEPT !.out = NoOut, !.completed = k.out.through]
      BY <3>1 DEF ReleaseOutput
    <3> HIDE DEF n
    <3>4. /\ n \in Controllers /\ SameSends(k, n) /\ n.queue = k.queue /\ n.nextID = k.nextID
          /\ n.completed = k.out.through /\ n.forced = k.forced /\ n.lost = lost
          /\ n.failedFrom = from /\ n.out = NoOut
      BY <1>1, <2>8, <3>2, <3>3 DEF Controllers, SameSends
    <3>5. ~HasOut(n) /\ n.out.ids = {}
      BY <3>2, <3>4 DEF HasOut
    <3>6. Numbered(n)
      <4>1. k.out.through <= k.nextID - 1 - Len(k.queue) /\ 0 <= k.out.through
        BY <1>1, <2>1, <2>4, <2>9 DEF Numbered
      <4>2. QED
        BY <2>9, <3>4, <3>5, <4>1 DEF Numbered
    <3>7. Failures(n)
      <4>1. from <= k.out.through + 1
        BY <1>1, <2>3, <2>4, <2>5
      <4>2. QED
        BY <2>5, <2>6, <2>7, <3>2, <3>4, <3>5, <4>1 DEF Failures
    <3>8. QED
      BY <1>2, <2>11, <3>2, <3>4, <3>6, <3>7 DEF n, Fenced
  <2>12. QED
    BY <2>10, <2>11
<1>6. QED
  BY <1>4, <1>5

\* Without owned sends no shard is ever in flight.
Emitting(k, n) ==
    /\ n \in Controllers /\ Fenced(n) /\ SameSends(k, n)
    /\ \A s \in Shards : n.out.shards[s] # "dispatched"

LEMMA EmitKeeps ==
    ASSUME NEW b, NEW k, Emitting(b, k), NEW t, NEW failed \in BOOLEAN
    PROVE  Emitting(b, EmitShard(t, k, failed))
<1> DEFINE none == EligiblePaths(k) = {}
           sealed == IF HasOut(k) \/ none THEN k ELSE Seal(k, t)
           next == CompleteShards(sealed, {sealed.out.next}, failed)
           moved == [next EXCEPT !.out.next = @ + 1]
<1>1. EmitShard(t, k, failed)
        = IF ~HasOut(sealed) \/ none THEN sealed ELSE IF HasOut(next) THEN moved ELSE next
  BY DEF EmitShard
<1>2. Emitting(b, sealed)
  <2>1. CASE HasOut(k) \/ none
    BY <2>1
  <2>2. CASE ~(HasOut(k) \/ none)
    <3>1. sealed = Seal(k, t)
      BY <2>2
    <3> HIDE DEF sealed
    <3>2. QED
      BY <2>2, <3>1, SealFenced DEF Emitting, SameSends
  <2>3. QED
    BY <2>1, <2>2
<1> HIDE DEF none, sealed
<1>3. CASE ~HasOut(sealed) \/ none
  BY <1>1, <1>2, <1>3
<1>4. CASE HasOut(sealed) /\ ~none
  <2>1. /\ next \in Controllers /\ Fenced(next) /\ SameSends(sealed, next)
        /\ \A s \in Shards : next.out.shards[s] =
              IF s \in {sealed.out.next} THEN "terminal" ELSE sealed.out.shards[s]
    BY <1>2, <1>4, CompleteFenced DEF Emitting
  <2> HIDE DEF next
  <2>2. Emitting(b, next)
    BY <1>2, <2>1 DEF Emitting, SameSends
  <2>3. CASE ~HasOut(next)
    BY <1>1, <1>4, <2>2, <2>3
  <2>4. CASE HasOut(next)
    <3> DEFINE o == next.out.next + 1
    <3>1. next.out \in OutRecords /\ o \in Nat
      BY <2>1, Fields, OutFields
    <3>2. moved = [next EXCEPT !.out.next = o]
      OBVIOUS
    <3> HIDE DEF o, moved
    <3>3. /\ moved \in Controllers /\ SameSends(next, moved) /\ moved.queue = next.queue
          /\ moved.nextID = next.nextID /\ moved.completed = next.completed
          /\ moved.forced = next.forced /\ moved.lost = next.lost
          /\ moved.failedFrom = next.failedFrom /\ moved.out.shards = next.out.shards
          /\ moved.out.ids = next.out.ids /\ moved.out.through = next.out.through
      BY <2>1, <3>1, <3>2 DEF Controllers, OutRecords, SameSends
    <3>4. Fenced(moved)
      BY <2>1, <3>3 DEF Fenced, Numbered, Failures, HasOut
    <3>5. Emitting(b, moved)
      BY <2>2, <3>3, <3>4 DEF Emitting, SameSends
    <3>6. EmitShard(t, k, failed) = moved
      BY <1>1, <1>4, <2>4
    <3>7. QED
      BY <3>5, <3>6
  <2>5. QED
    BY <2>3, <2>4
<1>5. QED
  BY <1>3, <1>4

Emits(f, k, t) ==
    f = [n \in 0..Len(t.emits) |-> IF n = 0 THEN k ELSE EmitShard(t, f[n - 1], t.emits[n])]

LEMMA EmitsExist ==
    ASSUME NEW k, NEW t, Len(t.emits) \in Nat
    PROVE  \E f : Emits(f, k, t)
<1> DEFINE L == Len(t.emits)
           Upto(f, n) == f = [m \in 0..n |-> IF m = 0 THEN k ELSE EmitShard(t, f[m - 1], t.emits[m])]
           S == {n \in 0..L : \E f : Upto(f, n)}
<1>1. L \in Nat
  OBVIOUS
<1> HIDE DEF L
<1>2. 0 \in S
  <2>1. Upto([m \in 0..0 |-> k], 0)
    OBVIOUS
  <2> HIDE DEF Upto
  <2>2. QED
    BY <1>1, <2>1
<1>3. ASSUME NEW n \in 1..L, n - 1 \in S PROVE n \in S
  <2>1. PICK f : Upto(f, n - 1)
    BY <1>3
  <2> DEFINE g == [m \in 0..n |-> IF m = n THEN EmitShard(t, f[n - 1], t.emits[n]) ELSE f[m]]
  <2>2. \A m \in 0..(n - 1) : f[m] = IF m = 0 THEN k ELSE EmitShard(t, f[m - 1], t.emits[m])
    BY <2>1
  <2> HIDE DEF Upto
  <2>3. \A m \in 0..n : g[m] = IF m = 0 THEN k ELSE EmitShard(t, g[m - 1], t.emits[m])
    <3>1. SUFFICES ASSUME NEW m \in 0..n
                   PROVE  g[m] = IF m = 0 THEN k ELSE EmitShard(t, g[m - 1], t.emits[m])
      OBVIOUS
    <3>2. CASE m = n
      <4>1. m # 0 /\ g[m] = EmitShard(t, f[n - 1], t.emits[n]) /\ g[m - 1] = f[n - 1]
        BY <1>1, <1>3, <3>2
      <4>2. QED
        BY <3>2, <4>1
    <3>3. CASE m # n
      <4>1. m \in 0..(n - 1) /\ g[m] = f[m] /\ (m # 0 => g[m - 1] = f[m - 1])
        BY <1>1, <1>3, <3>3
      <4>2. QED
        BY <2>2, <4>1
    <3>4. QED
      BY <3>2, <3>3
  <2>4. g = [m \in 0..n |-> g[m]]
    OBVIOUS
  <2> HIDE DEF g
  <2>5. Upto(g, n)
    BY <2>3, <2>4 DEF Upto
  <2>6. n \in 0..L
    BY <1>1
  <2>7. QED
    BY <2>5, <2>6
<1>4. L \in S
  <2> HIDE DEF S
  <2>1. \A n \in 0..L : n \in S
    BY <1>1, <1>2, <1>3, Induction
  <2>2. QED
    BY <1>1, <2>1
<1>5. QED
  BY <1>4 DEF Emits, L

LEMMA EmitStepsKeep ==
    ASSUME NEW k, Emitting(k, k), NEW t, t.emits \in Seq(BOOLEAN)
    PROVE  Emitting(k, EmitSteps(k, t)[Len(t.emits)])
<1> DEFINE L == Len(t.emits)
           f == CHOOSE g : Emits(g, k, t)
           S == {n \in 0..L : Emitting(k, f[n])}
<1>1. L \in Nat /\ \A n \in 1..L : t.emits[n] \in BOOLEAN
  BY LenProperties, ElementOfSeq
<1>2. EmitSteps(k, t) = f
  BY DEF EmitSteps, Emits
<1>3. Emits(f, k, t)
  BY <1>1, EmitsExist
<1> HIDE DEF f
<1>4. \A n \in 0..L : f[n] = IF n = 0 THEN k ELSE EmitShard(t, f[n - 1], t.emits[n])
  BY <1>3 DEF Emits
<1> HIDE DEF L
<1>5. 0 \in S
  BY <1>1, <1>4
<1>6. ASSUME NEW n \in 1..L, n - 1 \in S PROVE n \in S
  <2>1. n \in 0..L /\ n # 0 /\ t.emits[n] \in BOOLEAN
    BY <1>1
  <2>2. f[n] = EmitShard(t, f[n - 1], t.emits[n])
    BY <1>4, <2>1
  <2>3. QED
    BY <1>6, <2>1, <2>2, EmitKeeps
<1>7. Emitting(k, f[L])
  <2>1. \A n \in 0..L : n \in S
    <3> HIDE DEF S
    <3>1. QED
      BY <1>1, <1>5, <1>6, Induction
  <2>2. QED
    BY <1>1, <2>1
<1>8. QED
  BY <1>2, <1>7 DEF L

----------------------------------------------------------------------------
(* Control transactions                                                    *)

LEMMA ImageFinite ==
    ASSUME NEW S, IsFiniteSet(S), NEW f
    PROVE  IsFiniteSet({f[x] : x \in S})
<1> DEFINE T == {f[x] : x \in S}
           g == [x \in S |-> f[x]]
<1>1. g \in Surjection(S, T)
  BY DEF Surjection
<1> HIDE DEF T, g
<1>2. IsFiniteSet(T)
  BY <1>1, FS_Surjection
<1>3. QED
  BY <1>2 DEF T

LEMMA ControlsFinite == IsFiniteSet(Controls) /\ IsFiniteSet(Slots) /\ IsFiniteSet(Shards)
<1>1. Controls = 0..NumPaths
  BY PathFacts
<1>2. QED
  BY <1>1, PathFacts, FS_Interval

LEMMA SlotFields ==
    ASSUME NEW k \in Controllers, NEW s \in Slots
    PROVE  /\ k.slots[s] \in SlotRecords
           /\ k.slots[s].path \in {0} \cup Paths
           /\ k.slots[s].source \in {"none", "data", "context", "budget"}
           /\ k.slots[s].shard \in Nat
           /\ k.slots[s].transaction \in Nat /\ k.slots[s].version \in Nat
BY Fields DEF SlotRecords

LEMMA RetryFields ==
    ASSUME NEW k \in Controllers, NEW x \in Controls
    PROVE  /\ k.retry[x] \in RetryRecords
           /\ k.retry[x].id \in Nat /\ k.retry[x].version \in Nat /\ k.retry[x].pending \in BOOLEAN
           /\ k.retry[x].sends \in Int /\ k.retry[x].inflight \in Int
           /\ k.retry[x].queued \in BOOLEAN /\ k.retry[x].dispatched \in BOOLEAN
BY Fields DEF RetryRecords

LEMMA PathFields ==
    ASSUME NEW k \in Controllers, NEW p \in Paths
    PROVE  /\ k.path[p] \in PathRecords
           /\ k.path[p].active \in BOOLEAN /\ k.path[p].generation \in Nat
           /\ k.path[p].epoch \in {1, 2} /\ k.path[p].joining \in BOOLEAN
           /\ k.path[p].joined \in Nat /\ k.path[p].slot \in {0} \cup Slots /\ k.path[p].queued \in Int
BY Fields DEF PathRecords

\* nextControlID: no transaction or version in use has the next number.
LEMMA FreshIs ==
    ASSUME NEW k \in Controllers
    PROVE  /\ FreshID(k) \in Nat \ {0}
           /\ \A x \in Controls : FreshID(k) # k.retry[x].id /\ FreshID(k) # k.retry[x].version
           /\ \A s \in Slots : FreshID(k) # k.slots[s].transaction /\ FreshID(k) # k.slots[s].version
<1> DEFINE ofRetries == {{r.id, r.version} : r \in Range(k.retry)}
           ofSlots == {{s.transaction, s.version} : s \in Range(k.slots)}
           used == (UNION ofRetries) \cup (UNION ofSlots)
           fa == [x \in Controls |-> k.retry[x].id]
           fb == [x \in Controls |-> k.retry[x].version]
           fc == [s \in Slots |-> k.slots[s].transaction]
           fd == [s \in Slots |-> k.slots[s].version]
           A == {fa[x] : x \in Controls}
           B == {fb[x] : x \in Controls}
           C == {fc[s] : s \in Slots}
           D == {fd[s] : s \in Slots}
           all == ((A \cup B) \cup C) \cup D
           n == Cardinality(used)
<1>1. IsFiniteSet(all)
  <2>1. IsFiniteSet(A)
    BY ControlsFinite, ImageFinite
  <2>2. IsFiniteSet(B)
    BY ControlsFinite, ImageFinite
  <2>3. IsFiniteSet(C)
    BY ControlsFinite, ImageFinite
  <2>4. IsFiniteSet(D)
    BY ControlsFinite, ImageFinite
  <2> HIDE DEF A, B, C, D
  <2>5. IsFiniteSet(A \cup B)
    BY <2>1, <2>2, FS_Union
  <2>6. IsFiniteSet((A \cup B) \cup C)
    BY <2>3, <2>5, FS_Union
  <2>7. QED
    BY <2>4, <2>6, FS_Union
<1>2. DOMAIN k.retry = Controls /\ DOMAIN k.slots = Slots
  BY Fields
<1>3. used \subseteq all
  <2>1. ASSUME NEW r \in Range(k.retry) PROVE r.id \in all /\ r.version \in all
    <3>1. PICK x \in Controls : r = k.retry[x]
      BY <1>2 DEF Range
    <3>2. QED
      BY <3>1
  <2>2. ASSUME NEW r \in Range(k.slots) PROVE r.transaction \in all /\ r.version \in all
    <3>1. PICK s \in Slots : r = k.slots[s]
      BY <1>2 DEF Range
    <3>2. QED
      BY <3>1
  <2> HIDE DEF all
  <2>3. SUFFICES ASSUME NEW z \in used PROVE z \in all
    OBVIOUS
  <2>4. CASE z \in UNION ofRetries
    <3>1. PICK r \in Range(k.retry) : z \in {r.id, r.version}
      BY <2>4
    <3>2. QED
      BY <2>1, <3>1
  <2>5. CASE z \in UNION ofSlots
    <3>1. PICK r \in Range(k.slots) : z \in {r.transaction, r.version}
      BY <2>5
    <3>2. QED
      BY <2>2, <3>1
  <2> HIDE DEF ofRetries, ofSlots
  <2>6. QED
    BY <2>3, <2>4, <2>5
<1>4. \A x \in Controls : k.retry[x].id \in used /\ k.retry[x].version \in used
  <2>1. SUFFICES ASSUME NEW x \in Controls
                 PROVE  k.retry[x].id \in used /\ k.retry[x].version \in used
    OBVIOUS
  <2>2. k.retry[x] \in Range(k.retry)
    BY <1>2 DEF Range
  <2>3. {k.retry[x].id, k.retry[x].version} \in ofRetries
    BY <2>2
  <2> HIDE DEF ofRetries
  <2>4. k.retry[x].id \in UNION ofRetries /\ k.retry[x].version \in UNION ofRetries
    BY <2>3
  <2>5. QED
    BY <2>4
<1>5. \A s \in Slots : k.slots[s].transaction \in used /\ k.slots[s].version \in used
  <2>1. SUFFICES ASSUME NEW s \in Slots
                 PROVE  k.slots[s].transaction \in used /\ k.slots[s].version \in used
    OBVIOUS
  <2>2. k.slots[s] \in Range(k.slots)
    BY <1>2 DEF Range
  <2>3. {k.slots[s].transaction, k.slots[s].version} \in ofSlots
    BY <2>2
  <2> HIDE DEF ofSlots
  <2>4. k.slots[s].transaction \in UNION ofSlots /\ k.slots[s].version \in UNION ofSlots
    BY <2>3
  <2>5. QED
    BY <2>4
<1>6. FreshID(k) = CHOOSE m \in 1..(n + 1) : m \notin used /\ \A l \in 1..(m - 1) : l \in used
  BY DEF FreshID
<1> HIDE DEF used, all
<1>7. IsFiniteSet(used)
  BY <1>1, <1>3, FS_Subset
<1>8. n \in Nat
  BY <1>7, FS_CardinalityType
<1> HIDE DEF n
<1> DEFINE free == {m \in 1..(n + 1) : m \notin used}
<1>9. free # {}
  <2>1. SUFFICES ASSUME 1..(n + 1) \subseteq used PROVE FALSE
    OBVIOUS
  <2>2. Cardinality(1..(n + 1)) <= n
    BY <1>7, <2>1, FS_Subset DEF n
  <2>3. Cardinality(1..(n + 1)) = n + 1
    BY <1>8, FS_Interval
  <2>4. QED
    BY <1>8, <2>2, <2>3
<1>10. PICK m \in free : \A l \in free : m <= l
  <2>1. free \subseteq Nat
    BY <1>8
  <2> HIDE DEF free
  <2>2. QED
    BY <1>9, <2>1, LeastOf
<1>11. m \in 1..(n + 1) /\ m \notin used /\ \A l \in 1..(m - 1) : l \in used
  BY <1>8, <1>10
<1>12. FreshID(k) \in 1..(n + 1) /\ FreshID(k) \notin used
  BY <1>6, <1>11
<1>13. QED
  BY <1>4, <1>5, <1>8, <1>12

Transactions(k) == Distinct(k) /\ RetriesMatch(k)

SameCounts(r, q) == q.sends = r.sends /\ q.inflight = r.inflight
\* How a retry may change without a send: its transaction goes on with the same
\* frame or with a new version of it, a new one begins, or there is none.
GoesOn(r, q) ==
    /\ q.id = r.id /\ q.version = r.version /\ SameCounts(r, q) /\ q.dispatched = r.dispatched
    /\ q.pending => r.pending
NewVersion(k, r, q) ==
    /\ q.id = r.id /\ SameCounts(r, q) /\ ~q.dispatched /\ (q.pending => r.pending)
    /\ \A s \in Slots : k.slots[s].version # q.version
Renewed(k, q) ==
    /\ q.id # 0 /\ q.sends = 0 /\ q.inflight = 0 /\ ~q.dispatched
    /\ \A s \in Slots : k.slots[s].transaction # q.id
Absent(q) == q.id = 0 /\ q.sends = 0 /\ q.inflight = 0 /\ ~q.dispatched /\ ~q.pending

LEMMA RetryChanges ==
    ASSUME NEW k \in Controllers, NEW n \in Controllers, Transactions(k), n.slots = k.slots,
           \A x \in Controls :
               \/ GoesOn(k.retry[x], n.retry[x]) \/ NewVersion(k, k.retry[x], n.retry[x])
               \/ /\ Renewed(k, n.retry[x])
                  /\ \A y \in Controls : y # x => n.retry[y].id # n.retry[x].id
               \/ Absent(n.retry[x])
    PROVE  Transactions(n)
<1> USE DEF Transactions
<1>1. ASSUME NEW x \in Controls, NEW s \in Slots, n.retry[x].id = k.slots[s].transaction,
             k.slots[s].transaction # 0
      PROVE  n.retry[x].id = k.retry[x].id
  BY <1>1 DEF GoesOn, NewVersion, Renewed, Absent
<1>2. Distinct(n)
  <2>1. \A x \in Controls : n.retry[x].pending => n.retry[x].id # 0
    BY DEF Distinct, GoesOn, NewVersion, Renewed, Absent
  <2>2. ASSUME NEW x \in Controls, NEW y \in Controls, x # y, n.retry[x].id # 0
        PROVE  n.retry[x].id # n.retry[y].id
    BY <2>2 DEF Distinct, GoesOn, NewVersion, Renewed, Absent
  <2>3. ASSUME NEW s \in Slots
        PROVE  IF n.slots[s].source \in {"context", "budget"}
               THEN /\ n.slots[s].transaction # 0
                    /\ \A y \in Controls :
                         n.retry[y].id = n.slots[s].transaction => y = ControlOf(n.slots[s])
               ELSE n.slots[s].transaction = 0
    BY <1>1 DEF Distinct
  <2>4. QED
    BY <2>1, <2>2, <2>3 DEF Distinct
<1>3. ASSUME NEW x \in Controls
      PROVE  /\ n.retry[x].inflight = Cardinality(Mine(n, x))
             /\ n.retry[x].dispatched <=>
                  \E s \in Mine(n, x) : n.slots[s].version = n.retry[x].version
             /\ n.retry[x].sends + n.retry[x].inflight <= ControlSends
  <2> DEFINE r == k.retry[x]
             q == n.retry[x]
  <2>1. /\ r.inflight = Cardinality(Mine(k, x)) /\ r.sends + r.inflight <= ControlSends
        /\ r.dispatched <=> \E s \in Mine(k, x) : k.slots[s].version = r.version
    BY DEF RetriesMatch
  <2>2. CASE q.id = r.id /\ SameCounts(r, q)
    <3>1. Mine(n, x) = Mine(k, x) /\ Mine(k, x) \subseteq Slots
      BY <2>2 DEF Mine
    <3>2. CASE GoesOn(r, q)
      BY <2>1, <3>1, <3>2 DEF GoesOn, SameCounts
    <3>3. CASE NewVersion(k, r, q)
      BY <2>1, <3>1, <3>3 DEF NewVersion, SameCounts
    <3>4. CASE Renewed(k, q) \/ Absent(q)
      <4>1. Mine(n, x) = {} /\ q.inflight = 0 /\ q.sends = 0 /\ ~q.dispatched
        BY <3>4 DEF Renewed, Absent, Mine
      <4>2. QED
        BY <4>1, FS_EmptySet, PathFacts
    <3>5. QED
      BY <3>2, <3>3, <3>4
  <2>3. CASE Renewed(k, q) \/ Absent(q)
    <3>1. Mine(n, x) = {} /\ q.inflight = 0 /\ q.sends = 0 /\ ~q.dispatched
      BY <2>3 DEF Renewed, Absent, Mine
    <3>2. QED
      BY <3>1, FS_EmptySet, PathFacts
  <2>4. QED
    BY <2>2, <2>3 DEF GoesOn, NewVersion
<1>4. QED
  BY <1>2, <1>3 DEF RetriesMatch

\* What the code below leaves alone when it changes transactions only.
SameGroups(k, n) ==
    /\ n.slots = k.slots /\ n.path = k.path /\ n.out = k.out /\ n.queue = k.queue
    /\ n.nextID = k.nextID /\ n.forced = k.forced /\ n.completed = k.completed
    /\ n.failedFrom = k.failedFrom /\ n.lost = k.lost
    /\ n.state = k.state /\ n.acknowledged = k.acknowledged

LEMMA SameGroupsKeep ==
    ASSUME NEW k, NEW n, SameGroups(k, n)
    PROVE  /\ Fenced(k) => Fenced(n)
           /\ PathsMatch(k) => PathsMatch(n)
           /\ ShardsMatch(k) => ShardsMatch(n)
<1>1. Fenced(k) => Fenced(n)
  BY DEF SameGroups, Fenced, Numbered, Failures, HasOut
<1>2. PathsMatch(k) => PathsMatch(n)
  BY DEF SameGroups, PathsMatch
<1>3. ShardsMatch(k) => ShardsMatch(n)
  BY DEF SameGroups, ShardsMatch
<1>4. QED
  BY <1>1, <1>2, <1>3

\* A step that changes transactions only, from k to n.
Renews(k, n) ==
    n \in Controllers /\ SameGroups(k, n) /\ (Transactions(k) => Transactions(n))

LEMMA RetryOnly ==
    ASSUME NEW k \in Controllers, NEW R \in [Controls -> RetryRecords]
    PROVE  LET n == [k EXCEPT !.retry = R]
           IN  /\ n \in Controllers /\ SameGroups(k, n)
               /\ n.retry = R /\ n.contextPath = k.contextPath
BY DEF Controllers, SameGroups

LEMMA NoRetryFacts ==
    /\ NoRetry \in RetryRecords /\ NoRetry.id = 0 /\ NoRetry.version = 0 /\ ~NoRetry.pending
    /\ NoRetry.sends = 0 /\ NoRetry.inflight = 0 /\ ~NoRetry.queued /\ ~NoRetry.dispatched
BY DEF NoRetry, RetryRecords

LEMMA NewRetryKeeps ==
    ASSUME NEW k \in Controllers, NEW x \in Controls
    PROVE  LET n == NewRetry(k, x)
           IN  Renews(k, n) /\ n.contextPath = k.contextPath
               /\ n.retry[x].pending /\ \A y \in Controls : y # x => n.retry[y] = k.retry[y]
<1> DEFINE n == NewRetry(k, x)
           id == FreshID(k)
           q == [NoRetry EXCEPT !.id = id, !.pending = TRUE]
           R == [k.retry EXCEPT ![x] = q]
<1>1. n = [k EXCEPT !.retry = R]
  BY DEF NewRetry
<1>2. id \in Nat \ {0} /\ \A y \in Controls : id # k.retry[y].id
      /\ \A s \in Slots : id # k.slots[s].transaction
  BY FreshIs
<1> HIDE DEF id
<1>3. q \in RetryRecords /\ q.id = id /\ q.pending = TRUE /\ q.sends = 0 /\ q.inflight = 0
      /\ ~q.dispatched
  BY <1>2, NoRetryFacts DEF RetryRecords
<1> HIDE DEF q
<1>4. k.retry \in [Controls -> RetryRecords]
  BY Fields
<1>5. R \in [Controls -> RetryRecords] /\ R[x] = q /\ \A y \in Controls : y # x => R[y] = k.retry[y]
  BY <1>3, <1>4
<1> HIDE DEF R
<1>6. n \in Controllers /\ SameGroups(k, n) /\ n.retry = R /\ n.contextPath = k.contextPath
  BY <1>1, <1>5, RetryOnly
<1> HIDE DEF n
<1>7. ASSUME Transactions(k) PROVE Transactions(n)
  <2>1. n.slots = k.slots
    BY <1>6 DEF SameGroups
  <2>2. Renewed(k, n.retry[x]) /\ \A y \in Controls : y # x => n.retry[y].id # n.retry[x].id
    BY <1>2, <1>3, <1>5, <1>6 DEF Renewed
  <2>3. \A y \in Controls : y # x => GoesOn(k.retry[y], n.retry[y])
    BY <1>5, <1>6 DEF GoesOn, SameCounts
  <2>4. QED
    BY <1>6, <1>7, <2>1, <2>2, <2>3, RetryChanges
<1>8. QED
  BY <1>3, <1>5, <1>6, <1>7 DEF n, Renews

LEMMA FrameSetKeeps ==
    ASSUME NEW k \in Controllers, NEW x \in Controls
    PROVE  LET n == FrameSet(k, x)
           IN  Renews(k, n) /\ n.contextPath = k.contextPath
<1> DEFINE n == FrameSet(k, x)
           id == FreshID(k)
           q == [k.retry[x] EXCEPT !.version = id, !.queued = TRUE, !.dispatched = FALSE]
           R == [k.retry EXCEPT ![x] = q]
<1>1. n = [k EXCEPT !.retry = R]
  BY DEF FrameSet
<1>2. id \in Nat /\ \A s \in Slots : id # k.slots[s].version
  BY FreshIs
<1> HIDE DEF id
<1>3. k.retry \in [Controls -> RetryRecords] /\ k.retry[x] \in RetryRecords
  BY Fields
<1>4. q \in RetryRecords /\ q.version = id /\ ~q.dispatched /\ q.id = k.retry[x].id
      /\ SameCounts(k.retry[x], q) /\ q.pending = k.retry[x].pending
  BY <1>2, <1>3 DEF RetryRecords, SameCounts
<1> HIDE DEF q
<1>5. R \in [Controls -> RetryRecords] /\ R[x] = q /\ \A y \in Controls : y # x => R[y] = k.retry[y]
  BY <1>3, <1>4
<1> HIDE DEF R
<1>6. n \in Controllers /\ SameGroups(k, n) /\ n.retry = R /\ n.contextPath = k.contextPath
  BY <1>1, <1>5, RetryOnly
<1> HIDE DEF n
<1>7. ASSUME Transactions(k) PROVE Transactions(n)
  <2>1. n.slots = k.slots
    BY <1>6 DEF SameGroups
  <2>2. NewVersion(k, k.retry[x], n.retry[x])
    BY <1>2, <1>4, <1>5, <1>6 DEF NewVersion
  <2>3. \A y \in Controls : y # x => GoesOn(k.retry[y], n.retry[y])
    BY <1>5, <1>6 DEF GoesOn, SameCounts
  <2>4. QED
    BY <1>6, <1>7, <2>1, <2>2, <2>3, RetryChanges
<1>8. QED
  BY <1>6, <1>7 DEF n, Renews

LEMMA RenewsChain ==
    ASSUME NEW k, NEW m, NEW n, Renews(k, m), Renews(m, n)
    PROVE  Renews(k, n)
BY DEF Renews, SameGroups

LEMMA StartBudgetKeeps ==
    ASSUME NEW k \in Controllers, NEW p \in Paths
    PROVE  Renews(k, StartBudget(k, p)) /\ StartBudget(k, p).contextPath = k.contextPath
<1> DEFINE m == NewRetry(k, p)
<1>1. p \in Controls
  BY PathFacts
<1>2. Renews(k, m) /\ m.contextPath = k.contextPath
  BY <1>1, NewRetryKeeps
<1> HIDE DEF m
<1>3. Renews(m, FrameSet(m, p)) /\ FrameSet(m, p).contextPath = m.contextPath
  BY <1>1, <1>2, FrameSetKeeps DEF Renews
<1>4. QED
  BY <1>2, <1>3, RenewsChain DEF StartBudget, m

LEMMA StartEncodingKeeps ==
    ASSUME NEW k \in Controllers, NEW p \in Paths
    PROVE  Renews(k, StartEncoding(k, p))
<1> DEFINE m == IF k.retry[Context].pending THEN k ELSE NewRetry(k, Context)
           f == FrameSet(m, Context)
           n == StartEncoding(k, p)
<1>1. Context \in Controls
  BY PathFacts
<1>2. Renews(k, m)
  <2>1. CASE k.retry[Context].pending
    BY <2>1 DEF Renews, SameGroups
  <2>2. CASE ~k.retry[Context].pending
    BY <1>1, <2>2, NewRetryKeeps
  <2>3. QED
    BY <2>1, <2>2
<1>3. n = [f EXCEPT !.contextPath = p]
  BY DEF StartEncoding
<1> HIDE DEF m
<1>4. Renews(m, f)
  BY <1>1, <1>2, FrameSetKeeps DEF Renews
<1> HIDE DEF f, n
<1>5. f \in Controllers
  BY <1>4 DEF Renews
<1>6. n \in Controllers /\ SameGroups(f, n) /\ n.retry = f.retry
  BY <1>3, <1>5 DEF Controllers, SameGroups
<1>7. ASSUME Transactions(f) PROVE Transactions(n)
  BY <1>6, <1>7 DEF Transactions, Distinct, RetriesMatch, Mine, SameGroups
<1>8. Renews(f, n)
  BY <1>6, <1>7 DEF Renews
<1>9. QED
  BY <1>2, <1>4, <1>8, RenewsChain DEF n

LEMMA RehomeKeeps ==
    ASSUME NEW k \in Controllers
    PROVE  Renews(k, RehomeContext(k))
<1>1. CASE k.contextPath = 0 /\ ~k.acknowledged /\ EligiblePaths(k) # {}
  <2>1. EligiblePaths(k) \subseteq Paths /\ EligiblePaths(k) \subseteq Nat
    BY PathFacts DEF EligiblePaths
  <2>2. Min(EligiblePaths(k)) \in Paths
    BY <1>1, <2>1, MinOf
  <2>3. QED
    BY <1>1, <2>2, StartEncodingKeeps DEF RehomeContext
<1>2. CASE ~(k.contextPath = 0 /\ ~k.acknowledged /\ EligiblePaths(k) # {})
  BY <1>2 DEF RehomeContext, Renews, SameGroups
<1>3. QED
  BY <1>1, <1>2

\* The next eligible path after the one that has the context.
LEMMA NextContextIsPath ==
    ASSUME NEW k \in Controllers, EligiblePaths(k) # {}
    PROVE  NextContextPath(k) \in Paths
<1> DEFINE after(p) == (p - k.contextPath - 1 + NumPaths) % NumPaths
           S == {after(p) : p \in EligiblePaths(k)}
<1>1. EligiblePaths(k) \subseteq Paths
  BY DEF EligiblePaths
<1>2. \A p \in EligiblePaths(k) : after(p) \in Nat
  BY <1>1, Fields, PathFacts
<1>3. NextContextPath(k)
        = CHOOSE p \in EligiblePaths(k) : \A q \in EligiblePaths(k) : after(p) <= after(q)
  BY DEF NextContextPath
<1> HIDE DEF after
<1>4. S \subseteq Nat /\ S # {}
  BY <1>2
<1>5. PICK m \in S : \A l \in S : m <= l
  <2> HIDE DEF S
  <2>1. QED
    BY <1>4, LeastOf
<1>6. PICK p \in EligiblePaths(k) : m = after(p)
  BY <1>5
<1>7. \A q \in EligiblePaths(k) : after(p) <= after(q)
  BY <1>5, <1>6
<1>8. QED
  BY <1>1, <1>3, <1>6, <1>7

LEMMA PrepareKeeps ==
    ASSUME NEW k \in Controllers, NEW t
    PROVE  Renews(k, PrepareControls(k, t))
<1> DEFINE m == Rotate(k, t)
           may(x) == Carried(m, x) /\ Unspent(m.retry[x]) /\ ~m.retry[x].dispatched
           q(x) == (m.retry[x].queued \/ (may(x) /\ x \in t.due)) /\ ~(may(x) /\ x \in t.stale)
           R == [x \in Controls |-> [m.retry[x] EXCEPT !.queued = q(x)]]
           n == [m EXCEPT !.retry = R]
<1>1. Renews(k, m)
  <2>1. CASE EligiblePaths(k) = {}
    BY <2>1 DEF Rotate, Renews, SameGroups
  <2>2. CASE EligiblePaths(k) # {}
    <3>1. Renews(k, StartEncoding(k, NextContextPath(k)))
      BY <2>2, NextContextIsPath, StartEncodingKeeps
    <3>2. Renews(k, k)
      BY DEF Renews, SameGroups
    <3>3. QED
      BY <3>1, <3>2 DEF Rotate
  <2>3. QED
    BY <2>1, <2>2
<1>2. PrepareControls(k, t) = n
  BY DEF PrepareControls
<1> HIDE DEF m
<1>3. m \in Controllers
  BY <1>1 DEF Renews
<1>4. \A x \in Controls : q(x) \in BOOLEAN /\ m.retry[x] \in RetryRecords
  BY <1>3, RetryFields
<1> HIDE DEF q
<1>5. \A x \in Controls : R[x] \in RetryRecords /\ GoesOn(m.retry[x], R[x])
  BY <1>4 DEF RetryRecords, GoesOn, SameCounts
<1>6. R \in [Controls -> RetryRecords]
  BY <1>5
<1> HIDE DEF R
<1>7. n \in Controllers /\ SameGroups(m, n) /\ n.retry = R
  BY <1>3, <1>6, RetryOnly
<1> HIDE DEF n
<1>8. ASSUME Transactions(m) PROVE Transactions(n)
  <2>1. n.slots = m.slots
    BY <1>7 DEF SameGroups
  <2>2. QED
    BY <1>3, <1>5, <1>7, <1>8, <2>1, RetryChanges
<1>9. Renews(m, n)
  BY <1>7, <1>8 DEF Renews
<1>10. QED
  BY <1>1, <1>2, <1>9, RenewsChain

----------------------------------------------------------------------------
(* drive                                                                   *)

LEMMA RenewsConsistent ==
    ASSUME NEW k, NEW n, Consistent(k), Renews(k, n)
    PROVE  Consistent(n)
<1>1. SameGroups(k, n) /\ n.slots = k.slots /\ n.state = k.state
  BY DEF Renews, SameGroups
<1>2. Fenced(n) /\ PathsMatch(n) /\ ShardsMatch(n)
  BY <1>1, SameGroupsKeep DEF Consistent
<1>3. QED
  BY <1>1, <1>2 DEF Consistent, Renews, Transactions

LEMMA GroupsKeep ==
    ASSUME NEW k, NEW n \in Controllers, Consistent(k), Fenced(n), SameSends(k, n),
           \A d \in Shards : n.out.shards[d] = "dispatched" <=> k.out.shards[d] = "dispatched"
    PROVE  Consistent(n)
<1>1. PathsMatch(n)
  BY DEF Consistent, PathsMatch, SameSends
<1>2. Distinct(n) /\ RetriesMatch(n)
  BY DEF Consistent, Distinct, RetriesMatch, Mine, SameSends
<1>3. ShardsMatch(n)
  BY DEF Consistent, ShardsMatch, SameSends
<1>4. QED
  BY <1>1, <1>2, <1>3 DEF Consistent, SameSends

LEMMA SealKeeps ==
    ASSUME NEW k, Consistent(k), ~HasOut(k), NEW t
    PROVE  Consistent(Seal(k, t))
<1> DEFINE n == Seal(k, t)
<1>1. k \in Controllers /\ Fenced(k)
  BY DEF Consistent
<1>2. /\ n \in Controllers /\ Fenced(n) /\ SameSends(k, n)
      /\ \A s \in Shards : n.out.shards[s] # "dispatched"
  BY <1>1, SealFenced
<1>3. \A s \in Shards : k.out.shards[s] = "terminal"
  BY <1>1 DEF Fenced, Failures
<1> HIDE DEF n
<1>4. Consistent(n)
  BY <1>2, <1>3, GroupsKeep
<1>5. QED
  BY <1>4 DEF n

LEMMA ExpireKeeps ==
    ASSUME NEW k, Consistent(k), NEW t
    PROVE  Consistent(ExpireData(k, t))
<1> DEFINE waiting == {s \in Shards : k.out.shards[s] = "waiting"}
           room == t.room - Cardinality(t.stale)
           S == {s \in waiting : Cardinality({w \in waiting : w <= s}) <= room}
           n == CompleteShards(k, S, TRUE)
<1>1. ExpireData(k, t) = IF ~t.groupLate THEN k ELSE n
  BY DEF ExpireData
<1>2. S \subseteq Shards /\ \A s \in S : k.out.shards[s] = "waiting"
  OBVIOUS
<1> HIDE DEF S
<1>3. k \in Controllers /\ Fenced(k)
  BY DEF Consistent
<1>4. /\ n \in Controllers /\ Fenced(n) /\ SameSends(k, n)
      /\ \A s \in Shards : n.out.shards[s] = IF s \in S THEN "terminal" ELSE k.out.shards[s]
  <2>1. PICK yes : yes \in BOOLEAN /\ yes
    OBVIOUS
  <2>2. yes = TRUE
    BY <2>1
  <2> DEFINE m == CompleteShards(k, S, yes)
  <2>3. /\ m \in Controllers /\ Fenced(m) /\ SameSends(k, m)
        /\ \A s \in Shards : m.out.shards[s] = IF s \in S THEN "terminal" ELSE k.out.shards[s]
    <3>1. HasOut(k) \/ S \subseteq Shards
      BY <1>2
    <3>2. yes \in BOOLEAN
      BY <2>1
    <3>3. k \in Controllers
      BY <1>3
    <3>4. Fenced(k)
      BY <1>3
    <3>5. QED
      BY <3>1, <3>2, <3>3, <3>4, CompleteFenced
  <2>4. m = n
    BY <2>2
  <2>5. QED
    BY <2>3, <2>4
<1> HIDE DEF n
<1>5. \A d \in Shards : n.out.shards[d] = "dispatched" <=> k.out.shards[d] = "dispatched"
  BY <1>2, <1>4
<1>6. Consistent(n)
  BY <1>4, <1>5, GroupsKeep
<1>7. QED
  BY <1>1, <1>6

\* BeginClose stops admissions and nothing else.
LEMMA ClosingKeeps ==
    ASSUME NEW k, k \in Controllers
    PROVE  LET n == BeginClosing(k)
           IN  /\ n \in Controllers /\ n.state = "closing"
               /\ Fenced(k) => Fenced(n)
               /\ PathsMatch(k) => PathsMatch(n)
               /\ Consistent(k) => Consistent(n)
<1> DEFINE n == BeginClosing(k)
<1>1. /\ n \in Controllers /\ n.slots = k.slots /\ n.path = k.path /\ n.out = k.out
      /\ n.queue = k.queue /\ n.nextID = k.nextID /\ n.forced = k.forced
      /\ n.completed = k.completed /\ n.failedFrom = k.failedFrom /\ n.lost = k.lost
      /\ n.retry = k.retry /\ n.state = "closing"
  BY DEF BeginClosing, Controllers
<1> HIDE DEF n
<1>2. Fenced(k) => Fenced(n)
  BY <1>1 DEF Fenced, Numbered, Failures, HasOut
<1>3. PathsMatch(k) => PathsMatch(n)
  BY <1>1 DEF PathsMatch
<1>4. ShardsMatch(k) => ShardsMatch(n)
  BY <1>1 DEF ShardsMatch
<1>5. Distinct(k) /\ RetriesMatch(k) => Distinct(n) /\ RetriesMatch(n)
  BY <1>1 DEF Distinct, RetriesMatch, Mine
<1>6. Consistent(k) => Consistent(n)
  BY <1>1, <1>2, <1>3, <1>4, <1>5 DEF Consistent
<1>7. QED
  BY <1>1, <1>2, <1>3, <1>6 DEF n

LEMMA DriveOwnedKeeps ==
    ASSUME NEW k, Consistent(k), NEW t
    PROVE  Consistent(DriveOwned(k, t))
<1> DEFINE prepared == PrepareControls(k, t)
           expired == ExpireData(prepared, t)
<1>1. Consistent(prepared)
  BY PrepareKeeps, RenewsConsistent DEF Consistent
<1> HIDE DEF prepared
<1>2. Consistent(expired)
  BY <1>1, ExpireKeeps
<1>3. DriveOwned(k, t) =
        IF Stranded(expired) THEN BeginClosing(expired)
        ELSE IF Ready(expired) /\ ~HasOut(expired) THEN Seal(expired, t) ELSE expired
  BY DEF DriveOwned, prepared
<1> HIDE DEF expired
<1>4. Consistent(BeginClosing(expired))
  BY <1>2, ClosingKeeps DEF Consistent
<1>5. ~HasOut(expired) => Consistent(Seal(expired, t))
  BY <1>2, SealKeeps
<1>6. QED
  BY <1>2, <1>3, <1>4, <1>5

LEMMA DriveKeeps ==
    ASSUME NEW k, Consistent(k), NEW t, ~owned => t.emits \in Seq(BOOLEAN)
    PROVE  Consistent(Drive(k, t))
<1>1. CASE owned
  BY <1>1, DriveOwnedKeeps DEF Drive
<1>2. CASE ~owned
  <2> DEFINE n == EmitSteps(k, t)[Len(t.emits)]
  <2>1. Drive(k, t) = IF Stranded(k) THEN BeginClosing(k) ELSE IF ~Ready(k) \/ t.gated THEN k ELSE n
    BY <1>2 DEF Drive, DriveSync
  <2>2. \A s \in Slots : k.slots[s] = Free
    BY <1>2 DEF Consistent
  <2>3. \A d \in Shards : k.out.shards[d] # "dispatched"
    BY <2>2 DEF Consistent, ShardsMatch, Free
  <2>4. Emitting(k, k)
    BY <2>3 DEF Emitting, Consistent, SameSends
  <2>5. Emitting(k, n)
    BY <1>2, <2>4, EmitStepsKeep
  <2> HIDE DEF n
  <2>6. Consistent(n)
    BY <2>3, <2>5, GroupsKeep DEF Emitting
  <2>7. Consistent(BeginClosing(k))
    BY ClosingKeeps DEF Consistent
  <2>8. QED
    BY <2>1, <2>6, <2>7
<1>3. QED
  BY <1>1, <1>2

----------------------------------------------------------------------------
(* TakeSend                                                                *)

LEMMA FailQueuedKeeps ==
    ASSUME NEW k \in Controllers, NEW X
    PROVE  Renews(k, FailQueued(k, X)) /\ FailQueued(k, X).contextPath = k.contextPath
           /\ \A x \in Controls : x \notin X => FailQueued(k, X).retry[x] = k.retry[x]
<1> DEFINE R == [x \in Controls |->
                   IF x \in X THEN [k.retry[x] EXCEPT !.queued = FALSE] ELSE k.retry[x]]
           n == FailQueued(k, X)
<1>1. n = [k EXCEPT !.retry = R]
  BY DEF FailQueued
<1>2. \A x \in Controls : R[x] \in RetryRecords /\ GoesOn(k.retry[x], R[x])
                          /\ (x \notin X => R[x] = k.retry[x])
  <2>1. \A x \in Controls : k.retry[x] \in RetryRecords
    BY RetryFields
  <2>2. QED
    BY <2>1 DEF RetryRecords, GoesOn, SameCounts
<1>3. R \in [Controls -> RetryRecords]
  BY <1>2
<1> HIDE DEF R, n
<1>4. n \in Controllers /\ SameGroups(k, n) /\ n.retry = R /\ n.contextPath = k.contextPath
  BY <1>1, <1>3, RetryOnly
<1>5. ASSUME Transactions(k) PROVE Transactions(n)
  <2>1. n.slots = k.slots
    BY <1>4 DEF SameGroups
  <2>2. QED
    BY <1>2, <1>4, <1>5, <2>1, RetryChanges
<1>6. QED
  BY <1>2, <1>4, <1>5 DEF Renews, n

\* installIntent on a free slot and an idle path.
LEMMA InstallKeeps ==
    ASSUME NEW k \in Controllers, PathsMatch(k), NEW slot \in Slots, k.slots[slot] = Free,
           NEW p \in Paths, k.path[p].slot = 0,
           NEW send \in SlotRecords, send.path = p, send.source # "none"
    PROVE  LET n == Install(k, slot, p, send)
           IN  /\ n \in Controllers /\ PathsMatch(n) /\ n.slots[slot] = send
               /\ \A s \in Slots : s # slot => n.slots[s] = k.slots[s]
               /\ n.out = k.out /\ n.retry = k.retry /\ n.state = k.state
               /\ Fenced(k) => Fenced(n)
<1> DEFINE n == Install(k, slot, p, send)
           r == k.path[p]
           c == r.queued + 1
           q == [r EXCEPT !.slot = slot, !.queued = c]
<1>1. n = [k EXCEPT !.slots[slot] = send, !.path[p] = q]
  BY Fields DEF Install, Controllers
<1>2. c = 1
  <2>1. k.path[p].queued = 0
    BY DEF PathsMatch
  <2>2. QED
    BY <2>1
<1> HIDE DEF c
<1>3. k.slots \in [Slots -> SlotRecords] /\ k.path \in [Paths -> PathRecords] /\ r \in PathRecords
  BY Fields
<1> HIDE DEF r
<1>4. q \in PathRecords /\ q.slot = slot /\ q.queued = 1
  <2>1. c \in Int
    BY <1>2
  <2>2. slot \in {0} \cup Slots
    OBVIOUS
  <2>3. r \in PathRecords
    BY <1>3
  <2>4. q \in PathRecords /\ q.slot = slot /\ q.queued = c
    BY <2>1, <2>2, <2>3 DEF PathRecords
  <2>5. QED
    BY <1>2, <2>4
<1> HIDE DEF q
<1>5. /\ n \in Controllers /\ n.slots[slot] = send /\ n.path[p] = q
      /\ \A s \in Slots : s # slot => n.slots[s] = k.slots[s]
      /\ \A o \in Paths : o # p => n.path[o] = k.path[o]
  <2> DEFINE S == [k.slots EXCEPT ![slot] = send]
             P == [k.path EXCEPT ![p] = q]
  <2>1. S \in [Slots -> SlotRecords] /\ S[slot] = send
        /\ \A s \in Slots : s # slot => S[s] = k.slots[s]
    BY <1>3
  <2>2. P \in [Paths -> PathRecords] /\ P[p] = q /\ \A o \in Paths : o # p => P[o] = k.path[o]
    BY <1>3, <1>4
  <2>3. n = [k EXCEPT !.slots = S, !.path = P]
    BY <1>1 DEF Controllers
  <2> HIDE DEF S, P, n
  <2>4. n \in Controllers /\ n.slots = S /\ n.path = P
    BY <2>1, <2>2, <2>3 DEF Controllers
  <2>5. QED
    BY <2>1, <2>2, <2>4
<1>6. /\ n.out = k.out /\ n.retry = k.retry /\ n.state = k.state /\ n.queue = k.queue
      /\ n.nextID = k.nextID /\ n.forced = k.forced /\ n.completed = k.completed
      /\ n.failedFrom = k.failedFrom /\ n.lost = k.lost
  BY <1>1 DEF Controllers
<1> HIDE DEF n
<1>7. Fenced(k) => Fenced(n)
  BY <1>6 DEF Fenced, Numbered, Failures, HasOut
<1>8. PathsMatch(n)
  <2>1. ASSUME NEW s \in Slots
        PROVE  \/ n.slots[s] = Free
               \/ /\ n.slots[s].source # "none" /\ n.slots[s].path # 0
                  /\ n.path[n.slots[s].path].slot = s
    <3>1. CASE s = slot
      BY <1>4, <1>5, <3>1, PathFacts
    <3>2. CASE s # slot
      <4>1. n.slots[s] = k.slots[s] /\ s # 0 /\ k.slots[s].path \in {0} \cup Paths
        BY <1>5, <3>2, SlotFields, PathFacts
      <4>2. CASE k.slots[s] = Free
        BY <4>1, <4>2
      <4>3. CASE k.slots[s] # Free
        <5>1. /\ k.slots[s].source # "none" /\ k.slots[s].path # 0
              /\ k.path[k.slots[s].path].slot = s
          BY <4>3 DEF PathsMatch
        <5>2. k.slots[s].path # p
          BY <4>1, <5>1
        <5>3. QED
          BY <1>5, <4>1, <5>1, <5>2
      <4>4. QED
        BY <4>2, <4>3
    <3>3. QED
      BY <3>1, <3>2
  <2>2. ASSUME NEW o \in Paths
        PROVE  \/ n.path[o].slot = 0 /\ n.path[o].queued = 0
               \/ /\ n.path[o].slot # 0 /\ n.path[o].queued = 1
                  /\ n.slots[n.path[o].slot].source # "none" /\ n.slots[n.path[o].slot].path = o
    <3>1. CASE o = p
      BY <1>4, <1>5, <3>1, PathFacts
    <3>2. CASE o # p
      <4>1. n.path[o] = k.path[o] /\ k.path[o].slot \in {0} \cup Slots
        BY <1>5, <3>2, PathFields
      <4>2. CASE k.path[o].slot = 0 /\ k.path[o].queued = 0
        BY <4>1, <4>2
      <4>3. CASE ~(k.path[o].slot = 0 /\ k.path[o].queued = 0)
        <5>1. /\ k.path[o].slot # 0 /\ k.path[o].queued = 1
              /\ k.slots[k.path[o].slot].source # "none" /\ k.slots[k.path[o].slot].path = o
          BY <4>3 DEF PathsMatch
        <5>2. k.path[o].slot # slot
          BY <5>1 DEF Free
        <5>3. QED
          BY <1>5, <4>1, <5>1, <5>2
      <4>4. QED
        BY <4>2, <4>3
    <3>3. QED
      BY <3>1, <3>2
  <2>3. QED
    BY <2>1, <2>2 DEF PathsMatch
<1>9. QED
  BY <1>5, <1>6, <1>7, <1>8 DEF n

LEMMA DispatchShardKeeps ==
    ASSUME NEW k, Consistent(k), owned, NEW slot \in Slots, k.slots[slot] = Free,
           NEW d \in Shards, k.out.shards[d] = "waiting", HasOut(k),
           NEW p \in Paths, k.path[p].slot = 0
    PROVE  Consistent(DispatchShard(k, slot, d, p))
<1> DEFINE m == [k EXCEPT !.out.shards[d] = "dispatched"]
           send == [path |-> p, source |-> "data", shard |-> d, transaction |-> 0, version |-> 0]
           n == Install(m, slot, p, send)
<1>1. DispatchShard(k, slot, d, p) = n
  BY DEF DispatchShard
<1>2. k \in Controllers /\ k.out \in OutRecords
      /\ k.out.shards \in [Shards -> {"waiting", "dispatched", "terminal"}]
  BY Fields, OutFields DEF Consistent
<1>3. /\ m \in Controllers /\ m.slots = k.slots /\ m.path = k.path /\ m.retry = k.retry
      /\ m.out.ids = k.out.ids /\ m.out.through = k.out.through
      /\ m.out.shards = [k.out.shards EXCEPT ![d] = "dispatched"]
      /\ m.queue = k.queue /\ m.nextID = k.nextID /\ m.forced = k.forced
      /\ m.completed = k.completed /\ m.failedFrom = k.failedFrom /\ m.lost = k.lost
      /\ m.state = k.state
  BY <1>2 DEF Controllers, OutRecords
<1> HIDE DEF m
<1>4. Fenced(m)
  BY <1>3 DEF Consistent, Fenced, Numbered, Failures, HasOut
<1>5. PathsMatch(m)
  BY <1>3 DEF Consistent, PathsMatch
<1>6. send \in SlotRecords /\ send.path = p /\ send.source = "data" /\ send.shard = d
      /\ send.transaction = 0
  BY PathFacts DEF SlotRecords
<1> HIDE DEF send
<1>7. /\ n \in Controllers /\ PathsMatch(n) /\ n.slots[slot] = send
      /\ \A s \in Slots : s # slot => n.slots[s] = m.slots[s]
      /\ n.out = m.out /\ n.retry = m.retry /\ n.state = k.state /\ Fenced(n)
  BY <1>3, <1>4, <1>5, <1>6, InstallKeeps
<1> HIDE DEF n
<1>8. k.slots[slot].source = "none" /\ k.slots[slot].transaction = 0
  BY DEF Free
<1>9. ShardsMatch(n)
  <2>1. \A s \in Slots : s # slot /\ k.slots[s].source = "data" => k.slots[s].shard # d
    BY DEF Consistent, ShardsMatch
  <2>2. \A c \in Shards : n.out.shards[c] = IF c = d THEN "dispatched" ELSE k.out.shards[c]
    BY <1>2, <1>3, <1>7
  <2>3. \A s \in Slots : s # slot => n.slots[s] = k.slots[s]
    BY <1>3, <1>7
  <2>4. ShardsMatch(k)
    BY DEF Consistent
  <2>5. \A s \in Slots : n.slots[s].source = "data" =>
           n.slots[s].shard \in Shards /\ n.out.shards[n.slots[s].shard] = "dispatched"
    BY <1>6, <1>7, <2>1, <2>2, <2>3, <2>4 DEF ShardsMatch
  <2>6. \A s, u \in Slots :
           n.slots[s].source = "data" /\ n.slots[u].source = "data"
             /\ n.slots[s].shard = n.slots[u].shard => s = u
    BY <1>6, <1>7, <2>1, <2>3, <2>4 DEF ShardsMatch
  <2>7. ASSUME NEW c \in Shards, n.out.shards[c] = "dispatched"
        PROVE  \E s \in Slots : n.slots[s].source = "data" /\ n.slots[s].shard = c
    <3>1. CASE c = d
      BY <1>6, <1>7, <3>1
    <3>2. CASE c # d
      <4>1. PICK s \in Slots : k.slots[s].source = "data" /\ k.slots[s].shard = c
        BY <2>2, <2>4, <2>7, <3>2 DEF ShardsMatch
      <4>2. QED
        BY <1>8, <2>3, <4>1
    <3>3. QED
      BY <3>1, <3>2
  <2>8. QED
    BY <2>5, <2>6, <2>7 DEF ShardsMatch
<1>10. \A s \in Slots : n.slots[s].transaction = k.slots[s].transaction
                        /\ (n.slots[s].transaction # 0 => n.slots[s] = k.slots[s])
  BY <1>3, <1>6, <1>7, <1>8
<1>11. Distinct(n)
  <2>1. Distinct(k)
    BY DEF Consistent
  <2>2. ASSUME NEW s \in Slots
        PROVE  IF n.slots[s].source \in {"context", "budget"}
               THEN /\ n.slots[s].transaction # 0
                    /\ \A y \in Controls :
                         n.retry[y].id = n.slots[s].transaction => y = ControlOf(n.slots[s])
               ELSE n.slots[s].transaction = 0
    <3>1. CASE s = slot
      BY <1>6, <1>7, <3>1
    <3>2. CASE s # slot
      BY <1>3, <1>7, <2>1, <3>2 DEF Distinct
    <3>3. QED
      BY <3>1, <3>2
  <2>3. \A s, u \in Slots :
          s # u /\ n.slots[s].transaction = n.slots[u].transaction /\ n.slots[s].transaction # 0
            => n.slots[s].version # n.slots[u].version
    BY <1>10, <2>1 DEF Distinct
  <2>4. QED
    BY <1>3, <1>7, <2>1, <2>2, <2>3 DEF Distinct
<1>12. RetriesMatch(n)
  <2>1. \A x \in Controls : Mine(n, x) = Mine(k, x)
    BY <1>3, <1>7, <1>10 DEF Mine
  <2>2. \A x \in Controls : \A s \in Mine(k, x) : n.slots[s] = k.slots[s]
    BY <1>10 DEF Mine
  <2>3. QED
    BY <1>3, <1>7, <2>1, <2>2 DEF Consistent, RetriesMatch
<1>13. QED
  BY <1>1, <1>7, <1>9, <1>11, <1>12 DEF Consistent

LEMMA MineFacts ==
    ASSUME NEW k \in Controllers, NEW x \in Controls
    PROVE  Mine(k, x) \subseteq Slots /\ IsFiniteSet(Mine(k, x)) /\ Cardinality(Mine(k, x)) \in Nat
<1>1. Mine(k, x) \subseteq Slots
  BY DEF Mine
<1>2. IsFiniteSet(Mine(k, x))
  BY <1>1, ControlsFinite, FS_Subset
<1>3. QED
  BY <1>1, <1>2, FS_CardinalityType

LEMMA DispatchControlKeeps ==
    ASSUME NEW k, Consistent(k), owned, NEW slot \in Slots, k.slots[slot] = Free,
           NEW x \in Controls, Dispatchable(k, x)
    PROVE  Consistent(DispatchControl(k, slot, x))
<1> DEFINE r == k.retry[x]
           c == r.inflight + 1
           q == [r EXCEPT !.inflight = c, !.dispatched = TRUE, !.queued = FALSE]
           R == [k.retry EXCEPT ![x] = q]
           m == [k EXCEPT !.retry = R]
           p == PathOf(k, x)
           send == [path |-> p, source |-> IF x = Context THEN "context" ELSE "budget",
                    shard |-> 0, transaction |-> r.id, version |-> r.version]
           n == Install(m, slot, p, send)
<1>1. k \in Controllers /\ Distinct(k) /\ RetriesMatch(k)
  BY DEF Consistent
<1>2. DispatchControl(k, slot, x) = n
  BY <1>1 DEF DispatchControl, Controllers
<1>3. r \in RetryRecords /\ r.id \in Nat /\ r.version \in Nat /\ r.sends \in Int /\ r.inflight \in Int
  BY <1>1, RetryFields
<1>4. r.pending /\ r.sends + r.inflight < ControlSends /\ ~r.dispatched
  BY DEF Dispatchable, Unspent
<1>5. r.id # 0
  BY <1>1, <1>4 DEF Distinct
<1>6. p \in Paths /\ k.path[p].slot = 0
  <2>1. p # 0 /\ k.path[p].slot = 0
    BY DEF Dispatchable, Carried
  <2>2. p \in {0} \cup Paths
    BY <1>1, Fields, PathFacts DEF PathOf
  <2>3. QED
    BY <2>1, <2>2
<1>7. x # Context => p = x
  BY DEF PathOf
<1>8. c \in Int
  BY <1>3
<1> HIDE DEF c, p
<1>9. q \in RetryRecords /\ q.id = r.id /\ q.version = r.version /\ q.sends = r.sends
      /\ q.inflight = c /\ q.dispatched /\ q.pending = r.pending
  BY <1>3, <1>8 DEF RetryRecords
<1> HIDE DEF q
<1>10. R \in [Controls -> RetryRecords] /\ R[x] = q /\ \A y \in Controls : y # x => R[y] = k.retry[y]
  BY <1>1, <1>9, Fields
<1> HIDE DEF R
<1>11. m \in Controllers /\ SameGroups(k, m) /\ m.retry = R
  BY <1>1, <1>10, RetryOnly
<1> HIDE DEF m
<1>12. Fenced(m) /\ PathsMatch(m) /\ m.slots = k.slots /\ m.path = k.path /\ m.out = k.out
       /\ m.state = k.state
  BY <1>11, SameGroupsKeep DEF Consistent, SameGroups
<1>13. /\ send \in SlotRecords /\ send.path = p /\ send.source \in {"context", "budget"}
       /\ send.source = "context" <=> x = Context
       /\ send.transaction = r.id /\ send.version = r.version
  BY <1>3, <1>6 DEF SlotRecords
<1> HIDE DEF send
<1>14. /\ n \in Controllers /\ PathsMatch(n) /\ n.slots[slot] = send
       /\ \A s \in Slots : s # slot => n.slots[s] = k.slots[s]
       /\ n.out = k.out /\ n.retry = R /\ n.state = k.state /\ Fenced(n)
  <2>1. send.source # "none"
    BY <1>13
  <2>2. QED
    BY <1>6, <1>11, <1>12, <1>13, <2>1, InstallKeeps
<1> HIDE DEF n
<1>15. k.slots[slot].source = "none" /\ k.slots[slot].transaction = 0
  BY DEF Free
<1>16. ShardsMatch(n)
  <2>1. ShardsMatch(k)
    BY DEF Consistent
  <2>2. \A s \in Slots : n.slots[s].source = "data" <=> k.slots[s].source = "data"
    BY <1>13, <1>14, <1>15
  <2>3. \A s \in Slots : n.slots[s].source = "data" => n.slots[s] = k.slots[s]
    BY <1>13, <1>14
  <2>4. \A d \in Shards : n.out.shards[d] = "dispatched" =>
          \E s \in Slots : n.slots[s].source = "data" /\ n.slots[s].shard = d
    BY <1>14, <2>1, <2>2, <2>3 DEF ShardsMatch
  <2>5. QED
    BY <1>14, <2>1, <2>2, <2>3, <2>4 DEF ShardsMatch
<1>17. \A y \in Controls : n.retry[y].id = k.retry[y].id /\ n.retry[y].pending = k.retry[y].pending
  BY <1>9, <1>10, <1>14
<1>18. \A s \in Mine(k, x) : k.slots[s].version # r.version
  BY <1>1, <1>4 DEF RetriesMatch
<1>19. Distinct(n)
  <2>1. ASSUME NEW s \in Slots
        PROVE  IF n.slots[s].source \in {"context", "budget"}
               THEN /\ n.slots[s].transaction # 0
                    /\ \A y \in Controls :
                         n.retry[y].id = n.slots[s].transaction => y = ControlOf(n.slots[s])
               ELSE n.slots[s].transaction = 0
    <3>1. CASE s = slot
      <4>1. ControlOf(send) = x
        BY <1>7, <1>13 DEF ControlOf
      <4>2. \A y \in Controls : k.retry[y].id = r.id => y = x
        BY <1>1, <1>5 DEF Distinct
      <4>3. QED
        BY <1>5, <1>13, <1>14, <1>17, <3>1, <4>1, <4>2
    <3>2. CASE s # slot
      BY <1>1, <1>14, <1>17, <3>2 DEF Distinct
    <3>3. QED
      BY <3>1, <3>2
  <2>2. ASSUME NEW s \in Slots, s # slot, n.slots[s].transaction = r.id
        PROVE  n.slots[s].version # r.version
    <3>1. s \in Mine(k, x) /\ n.slots[s] = k.slots[s]
      BY <1>5, <1>14, <2>2 DEF Mine
    <3>2. QED
      BY <1>18, <3>1
  <2>3. ASSUME NEW s \in Slots, NEW u \in Slots, s # u,
               n.slots[s].transaction = n.slots[u].transaction, n.slots[s].transaction # 0
        PROVE  n.slots[s].version # n.slots[u].version
    <3>1. CASE s = slot
      BY <1>13, <1>14, <2>2, <2>3, <3>1
    <3>2. CASE u = slot
      BY <1>13, <1>14, <2>2, <2>3, <3>2
    <3>3. CASE s # slot /\ u # slot
      BY <1>1, <1>14, <2>3, <3>3 DEF Distinct
    <3>4. QED
      BY <3>1, <3>2, <3>3
  <2>4. QED
    BY <1>1, <1>17, <2>1, <2>3 DEF Distinct
<1>20. ASSUME NEW y \in Controls
       PROVE  /\ n.retry[y].inflight = Cardinality(Mine(n, y))
              /\ n.retry[y].dispatched <=>
                   \E s \in Mine(n, y) : n.slots[s].version = n.retry[y].version
              /\ n.retry[y].sends + n.retry[y].inflight <= ControlSends
  <2>1. CASE y = x
    <3>1. Mine(n, x) = Mine(k, x) \cup {slot} /\ slot \notin Mine(k, x)
      BY <1>5, <1>13, <1>14, <1>15, <1>17 DEF Mine
    <3>2. IsFiniteSet(Mine(k, x)) /\ r.inflight = Cardinality(Mine(k, x))
      BY <1>1, MineFacts DEF RetriesMatch
    <3>3. Cardinality(Mine(n, x)) = c
      BY <3>1, <3>2, FS_AddElement DEF c
    <3>4. q.sends + c <= ControlSends
      BY <1>3, <1>4, <1>9, PathFacts DEF c
    <3>5. n.retry[x] = q
      BY <1>10, <1>14
    <3>6. slot \in Mine(n, x) /\ n.slots[slot].version = r.version
      BY <1>13, <1>14, <3>1
    <3>7. QED
      BY <1>9, <2>1, <3>3, <3>4, <3>5, <3>6
  <2>2. CASE y # x
    <3>1. k.retry[y].id # 0 => k.retry[y].id # r.id
      BY <1>1, <2>2 DEF Distinct
    <3>2. Mine(n, y) = Mine(k, y) /\ \A s \in Mine(k, y) : n.slots[s] = k.slots[s]
      BY <1>13, <1>14, <1>15, <1>17, <3>1 DEF Mine
    <3>3. n.retry[y] = k.retry[y]
      BY <1>10, <1>14, <2>2
    <3>4. QED
      BY <1>1, <3>2, <3>3 DEF RetriesMatch
  <2>3. QED
    BY <2>1, <2>2
<1>21. QED
  BY <1>2, <1>14, <1>16, <1>19, <1>20 DEF Consistent, RetriesMatch

----------------------------------------------------------------------------
(* CompleteSend                                                            *)

LEMMA FreedKeeps ==
    ASSUME NEW k \in Controllers, PathsMatch(k), Fenced(k), NEW s \in Slots, k.slots[s] # Free
    PROVE  LET n == Freed(k, s)
           IN  /\ n \in Controllers /\ PathsMatch(n) /\ Fenced(n)
               /\ n.slots[s] = Free /\ \A u \in Slots : u # s => n.slots[u] = k.slots[u]
               /\ n.out = k.out /\ n.retry = k.retry /\ n.state = k.state
<1> DEFINE n == Freed(k, s)
           p == k.slots[s].path
           r == k.path[p]
           c == r.queued - 1
           d == IF r.slot = s THEN 0 ELSE r.slot
           q == [r EXCEPT !.slot = d, !.queued = c]
           S == [k.slots EXCEPT ![s] = Free]
           P == [k.path EXCEPT ![p] = q]
<1>1. k.slots \in [Slots -> SlotRecords] /\ k.path \in [Paths -> PathRecords]
  BY Fields
<1>2. p \in Paths /\ r.slot = s
  <2>1. p # 0 /\ r.slot = s
    BY DEF PathsMatch
  <2>2. p \in {0} \cup Paths
    BY SlotFields
  <2>3. QED
    BY <2>1, <2>2
<1>3. n = [k EXCEPT !.slots = S, !.path = P]
  BY DEF Freed, Controllers
<1>4. c = 0 /\ d = 0
  <2>1. r.queued = 1
    BY <1>2, PathFacts DEF PathsMatch
  <2>2. QED
    BY <1>2, <2>1
<1>5. r \in PathRecords
  BY <1>1, <1>2
<1> HIDE DEF c, d, p, r
<1>6. q \in PathRecords /\ q.slot = 0 /\ q.queued = 0
  <2>1. c \in Int /\ d \in {0} \cup Slots
    BY <1>4
  <2>2. QED
    BY <1>4, <1>5, <2>1 DEF PathRecords
<1> HIDE DEF q
<1>7. P \in [Paths -> PathRecords] /\ P[p] = q /\ \A o \in Paths : o # p => P[o] = k.path[o]
  BY <1>1, <1>2, <1>6
<1>8. S \in [Slots -> SlotRecords] /\ S[s] = Free /\ \A u \in Slots : u # s => S[u] = k.slots[u]
  <2>1. Free \in SlotRecords
    BY DEF Free, SlotRecords
  <2>2. QED
    BY <1>1, <2>1
<1> HIDE DEF P, S, n
<1>9. /\ n \in Controllers /\ n.slots = S /\ n.path = P
      /\ n.out = k.out /\ n.retry = k.retry /\ n.state = k.state /\ n.queue = k.queue
      /\ n.nextID = k.nextID /\ n.forced = k.forced /\ n.completed = k.completed
      /\ n.failedFrom = k.failedFrom /\ n.lost = k.lost
  BY <1>3, <1>7, <1>8 DEF Controllers
<1>10. Fenced(n)
  BY <1>9 DEF Fenced, Numbered, Failures, HasOut
<1>11. PathsMatch(n)
  <2>1. ASSUME NEW u \in Slots
        PROVE  \/ n.slots[u] = Free
               \/ /\ n.slots[u].source # "none" /\ n.slots[u].path # 0
                  /\ n.path[n.slots[u].path].slot = u
    <3>1. SUFFICES ASSUME u # s, k.slots[u] # Free
                   PROVE  /\ n.slots[u].source # "none" /\ n.slots[u].path # 0
                          /\ n.path[n.slots[u].path].slot = u
      BY <1>8, <1>9
    <3>2. /\ k.slots[u].source # "none" /\ k.slots[u].path # 0
          /\ k.path[k.slots[u].path].slot = u /\ k.slots[u].path \in {0} \cup Paths
      BY <3>1, SlotFields DEF PathsMatch
    <3>3. k.slots[u].path # p
      BY <1>2, <3>1, <3>2 DEF r
    <3>4. QED
      BY <1>7, <1>8, <1>9, <3>1, <3>2, <3>3
  <2>2. ASSUME NEW o \in Paths
        PROVE  \/ n.path[o].slot = 0 /\ n.path[o].queued = 0
               \/ /\ n.path[o].slot # 0 /\ n.path[o].queued = 1
                  /\ n.slots[n.path[o].slot].source # "none" /\ n.slots[n.path[o].slot].path = o
    <3>1. CASE o = p
      BY <1>6, <1>7, <1>9, <3>1
    <3>2. CASE o # p
      <4>1. n.path[o] = k.path[o] /\ k.path[o].slot \in {0} \cup Slots
        BY <1>7, <1>9, <3>2, PathFields
      <4>2. CASE k.path[o].slot = 0 /\ k.path[o].queued = 0
        BY <4>1, <4>2
      <4>3. CASE ~(k.path[o].slot = 0 /\ k.path[o].queued = 0)
        <5>1. /\ k.path[o].slot # 0 /\ k.path[o].queued = 1
              /\ k.slots[k.path[o].slot].source # "none" /\ k.slots[k.path[o].slot].path = o
          BY <4>3 DEF PathsMatch
        <5>2. k.path[o].slot # s
          BY <3>2, <5>1 DEF p
        <5>3. QED
          BY <1>8, <1>9, <4>1, <5>1, <5>2
      <4>4. QED
        BY <4>2, <4>3
    <3>3. QED
      BY <3>1, <3>2
  <2>3. QED
    BY <2>1, <2>2 DEF PathsMatch
<1>12. QED
  BY <1>8, <1>9, <1>10, <1>11 DEF n

LEMMA ShardDone ==
    ASSUME NEW k, Consistent(k), NEW s \in Slots, k.slots[s].source = "data",
           NEW failed \in BOOLEAN
    PROVE  Consistent(CompleteShards(Freed(k, s), {k.slots[s].shard}, failed))
<1> DEFINE m == Freed(k, s)
           d == k.slots[s].shard
           S == {d}
           n == CompleteShards(m, S, failed)
<1>1. k \in Controllers /\ PathsMatch(k) /\ Fenced(k) /\ ShardsMatch(k) /\ Distinct(k)
      /\ RetriesMatch(k)
  BY DEF Consistent
<1>2. k.slots[s] # Free
  BY DEF Free
<1>3. d \in Shards /\ k.slots[s].transaction = 0
  BY <1>1 DEF ShardsMatch, Distinct
<1>4. /\ m \in Controllers /\ PathsMatch(m) /\ Fenced(m)
      /\ m.slots[s] = Free /\ \A u \in Slots : u # s => m.slots[u] = k.slots[u]
      /\ m.out = k.out /\ m.retry = k.retry /\ m.state = k.state
  BY <1>1, <1>2, FreedKeeps
<1> HIDE DEF m, d
<1>5. /\ n \in Controllers /\ Fenced(n) /\ SameSends(m, n)
      /\ \A c \in Shards : n.out.shards[c] = IF c \in S THEN "terminal" ELSE m.out.shards[c]
  <2>1. HasOut(m) \/ S \subseteq Shards
    BY <1>3
  <2> HIDE DEF S
  <2>2. m \in Controllers
    BY <1>4
  <2>3. Fenced(m)
    BY <1>4
  <2>4. QED
    BY <2>1, <2>2, <2>3, CompleteFenced
<1> HIDE DEF n
<1>6. n.slots = m.slots /\ n.path = m.path /\ n.retry = k.retry /\ n.state = k.state
  BY <1>4, <1>5 DEF SameSends
<1>7. PathsMatch(n)
  BY <1>4, <1>6 DEF PathsMatch
<1>8. Free.source = "none" /\ Free.transaction = 0
  BY DEF Free
<1>9. ShardsMatch(n)
  <2>1. \A u \in Slots : n.slots[u].source = "data" <=> u # s /\ k.slots[u].source = "data"
    BY <1>4, <1>6, <1>8
  <2>2. \A u \in Slots : u # s => n.slots[u] = k.slots[u]
    BY <1>4, <1>6
  <2>3. \A c \in Shards : n.out.shards[c] = IF c = d THEN "terminal" ELSE k.out.shards[c]
    BY <1>4, <1>5
  <2>4. \A u \in Slots : u # s /\ k.slots[u].source = "data" => k.slots[u].shard # d
    BY <1>1 DEF ShardsMatch, d
  <2>5. \A u \in Slots : n.slots[u].source = "data" =>
          n.slots[u].shard \in Shards /\ n.out.shards[n.slots[u].shard] = "dispatched"
    BY <1>1, <2>1, <2>2, <2>3, <2>4 DEF ShardsMatch
  <2>6. \A t, u \in Slots :
          n.slots[t].source = "data" /\ n.slots[u].source = "data"
            /\ n.slots[t].shard = n.slots[u].shard => t = u
    BY <1>1, <2>1, <2>2 DEF ShardsMatch
  <2>7. ASSUME NEW c \in Shards, n.out.shards[c] = "dispatched"
        PROVE  \E u \in Slots : n.slots[u].source = "data" /\ n.slots[u].shard = c
    <3>1. c # d /\ k.out.shards[c] = "dispatched"
      BY <2>3, <2>7
    <3>2. PICK u \in Slots : k.slots[u].source = "data" /\ k.slots[u].shard = c
      BY <1>1, <3>1 DEF ShardsMatch
    <3>3. u # s
      BY <3>1, <3>2 DEF d
    <3>4. QED
      BY <2>1, <2>2, <3>2, <3>3
  <2>8. QED
    BY <2>5, <2>6, <2>7 DEF ShardsMatch
<1>10. \A u \in Slots : n.slots[u].transaction = k.slots[u].transaction
                        /\ (n.slots[u].transaction # 0 => n.slots[u] = k.slots[u])
  BY <1>3, <1>4, <1>6, <1>8
<1>11. Distinct(n)
  <2>1. ASSUME NEW u \in Slots
        PROVE  IF n.slots[u].source \in {"context", "budget"}
               THEN /\ n.slots[u].transaction # 0
                    /\ \A y \in Controls :
                         n.retry[y].id = n.slots[u].transaction => y = ControlOf(n.slots[u])
               ELSE n.slots[u].transaction = 0
    <3>1. CASE u = s
      BY <1>4, <1>6, <1>8, <3>1
    <3>2. CASE u # s
      BY <1>1, <1>4, <1>6, <3>2 DEF Distinct
    <3>3. QED
      BY <3>1, <3>2
  <2>2. \A t, u \in Slots :
          t # u /\ n.slots[t].transaction = n.slots[u].transaction /\ n.slots[t].transaction # 0
            => n.slots[t].version # n.slots[u].version
    BY <1>1, <1>10 DEF Distinct
  <2>3. QED
    BY <1>1, <1>6, <2>1, <2>2 DEF Distinct
<1>12. RetriesMatch(n)
  <2>1. \A x \in Controls : Mine(n, x) = Mine(k, x) /\ \A u \in Mine(k, x) : n.slots[u] = k.slots[u]
    BY <1>6, <1>10 DEF Mine
  <2>2. QED
    BY <1>1, <1>6, <2>1 DEF RetriesMatch
<1>13. ~owned => \A u \in Slots : n.slots[u] = Free
  BY <1>4, <1>6 DEF Consistent
<1>14. QED
  BY <1>5, <1>6, <1>7, <1>9, <1>11, <1>12, <1>13 DEF Consistent, m, d, n

LEMMA ControlDone ==
    ASSUME NEW k, Consistent(k), NEW s \in Slots, k.slots[s] # Free, k.slots[s].source # "data",
           NEW attempted \in BOOLEAN
    PROVE  Consistent(CompleteControl(Freed(k, s), k.slots[s], attempted))
<1> DEFINE m == Freed(k, s)
           send == k.slots[s]
           x == ControlOf(send)
           r == m.retry[x]
           c == r.inflight - 1
           b == IF attempted THEN r.sends + 1 ELSE r.sends
           e == r.dispatched /\ r.version # send.version
           q == [r EXCEPT !.inflight = c, !.sends = b, !.dispatched = e]
           R == IF r.id = send.transaction THEN [m.retry EXCEPT ![x] = q] ELSE m.retry
           n == [m EXCEPT !.retry = R]
<1>1. k \in Controllers /\ PathsMatch(k) /\ Fenced(k) /\ ShardsMatch(k) /\ Distinct(k)
      /\ RetriesMatch(k)
  BY DEF Consistent
<1>2. /\ m \in Controllers /\ PathsMatch(m) /\ Fenced(m)
      /\ m.slots[s] = Free /\ \A u \in Slots : u # s => m.slots[u] = k.slots[u]
      /\ m.out = k.out /\ m.retry = k.retry /\ m.state = k.state
  BY <1>1, FreedKeeps
<1>3. send.source \in {"context", "budget"} /\ x \in Controls
  <2>1. send.source # "none" /\ send.path # 0
    BY <1>1 DEF PathsMatch
  <2>2. send.source \in {"none", "data", "context", "budget"} /\ send.path \in {0} \cup Paths
    BY <1>1, SlotFields
  <2>3. QED
    BY <2>1, <2>2, PathFacts DEF ControlOf
<1>4. send.transaction # 0 /\ \A y \in Controls : k.retry[y].id = send.transaction => y = x
  BY <1>1, <1>3 DEF Distinct
<1> HIDE DEF m
<1>5. m.retry \in [Controls -> RetryRecords]
  BY <1>2, Fields
<1>6. CompleteControl(m, send, attempted) = n
  <2>1. CompleteControl(m, send, attempted)
          = IF r.id # send.transaction THEN m ELSE [m EXCEPT !.retry[x] = q]
    BY DEF CompleteControl, ControlOf
  <2>2. CASE r.id # send.transaction
    <3>1. m = [m EXCEPT !.retry = m.retry]
      BY <1>2 DEF Controllers
    <3>2. R = m.retry
      BY <2>2
    <3> HIDE DEF R, r
    <3>3. QED
      BY <2>1, <2>2, <3>1, <3>2
  <2>3. CASE r.id = send.transaction
    BY <2>1, <2>3
  <2>4. QED
    BY <2>2, <2>3
<1>7. r \in RetryRecords /\ r.sends \in Int /\ r.inflight \in Int /\ r.dispatched \in BOOLEAN
  BY <1>2, <1>3, RetryFields
<1>8. c \in Int /\ b \in Int /\ e \in BOOLEAN
  BY <1>7
<1>9. c + 1 = r.inflight /\ c + b <= r.inflight + r.sends
  BY <1>7
<1>10. r = k.retry[x]
  BY <1>2
<1> HIDE DEF c, b, r
<1>11. e <=> r.dispatched /\ r.version # send.version
  OBVIOUS
<1> HIDE DEF e, x
<1>12. q \in RetryRecords /\ q.id = r.id /\ q.version = r.version /\ q.sends = b /\ q.inflight = c
       /\ q.dispatched = e /\ q.pending = r.pending
  BY <1>7, <1>8 DEF RetryRecords
<1> HIDE DEF q, send
<1>13. /\ R \in [Controls -> RetryRecords] /\ \A y \in Controls : y # x => R[y] = k.retry[y]
       /\ R[x] = IF r.id = send.transaction THEN q ELSE r
  BY <1>2, <1>3, <1>5, <1>10, <1>12
<1> HIDE DEF R
<1>14. /\ n \in Controllers /\ SameGroups(m, n) /\ n.retry = R
  BY <1>2, <1>13, RetryOnly
<1> HIDE DEF n
<1>15. n.slots = m.slots /\ n.out = k.out /\ n.state = k.state /\ Fenced(n) /\ PathsMatch(n)
  BY <1>2, <1>14, SameGroupsKeep DEF SameGroups
<1>16. Free.source = "none" /\ Free.transaction = 0
  BY DEF Free
<1>17. \A u \in Slots : u # s => n.slots[u] = k.slots[u]
  BY <1>2, <1>15
<1>18. n.slots[s] = Free
  BY <1>2, <1>15
<1>19. ShardsMatch(n)
  <2>1. \A u \in Slots : n.slots[u].source = "data" <=> k.slots[u].source = "data"
    BY <1>3, <1>16, <1>17, <1>18 DEF send
  <2>2. \A u \in Slots : n.slots[u].source = "data" => n.slots[u] = k.slots[u]
    BY <1>16, <1>17, <1>18
  <2>3. \A d \in Shards : n.out.shards[d] = "dispatched" =>
          \E u \in Slots : n.slots[u].source = "data" /\ n.slots[u].shard = d
    BY <1>1, <1>15, <2>1, <2>2 DEF ShardsMatch
  <2>4. QED
    BY <1>1, <1>15, <2>1, <2>2, <2>3 DEF ShardsMatch
<1>20. \A y \in Controls : n.retry[y].id = k.retry[y].id /\ n.retry[y].pending = k.retry[y].pending
  BY <1>10, <1>12, <1>13, <1>14
<1>21. Distinct(n)
  <2>1. ASSUME NEW u \in Slots
        PROVE  IF n.slots[u].source \in {"context", "budget"}
               THEN /\ n.slots[u].transaction # 0
                    /\ \A y \in Controls :
                         n.retry[y].id = n.slots[u].transaction => y = ControlOf(n.slots[u])
               ELSE n.slots[u].transaction = 0
    <3>1. CASE u = s
      BY <1>16, <1>18, <3>1
    <3>2. CASE u # s
      BY <1>1, <1>17, <1>20, <3>2 DEF Distinct
    <3>3. QED
      BY <3>1, <3>2
  <2>2. \A t, u \in Slots :
          t # u /\ n.slots[t].transaction = n.slots[u].transaction /\ n.slots[t].transaction # 0
            => n.slots[t].version # n.slots[u].version
    BY <1>1, <1>16, <1>17, <1>18 DEF Distinct
  <2>3. QED
    BY <1>1, <1>20, <2>1, <2>2 DEF Distinct
<1>22. ASSUME NEW y \in Controls
       PROVE  /\ n.retry[y].inflight = Cardinality(Mine(n, y))
              /\ n.retry[y].dispatched <=>
                   \E u \in Mine(n, y) : n.slots[u].version = n.retry[y].version
              /\ n.retry[y].sends + n.retry[y].inflight <= ControlSends
  <2>1. CASE y = x /\ r.id = send.transaction
    <3>1. n.retry[y] = q
      BY <1>13, <1>14, <2>1
    <3>2. s \in Mine(k, x) /\ Mine(n, x) = Mine(k, x) \ {s}
      BY <1>4, <1>10, <1>16, <1>17, <1>18, <1>20, <2>1 DEF Mine, send
    <3>3. IsFiniteSet(Mine(k, x)) /\ Cardinality(Mine(k, x)) = r.inflight
      BY <1>1, <1>3, <1>10, MineFacts DEF RetriesMatch
    <3>4. Cardinality(Mine(n, x)) = r.inflight - 1
      BY <3>2, <3>3, FS_RemoveElement
    <3>5. q.inflight = Cardinality(Mine(n, x))
      BY <1>7, <1>8, <1>9, <1>12, <3>4
    <3>6. r.sends + r.inflight <= ControlSends
      BY <1>1, <1>3, <1>10 DEF RetriesMatch
    <3>7. q.sends + q.inflight <= ControlSends
      BY <1>7, <1>8, <1>9, <1>12, <3>6, PathFacts
    <3>8. q.dispatched <=> \E u \in Mine(n, x) : n.slots[u].version = q.version
      <4>1. r.dispatched <=> \E u \in Mine(k, x) : k.slots[u].version = r.version
        BY <1>1, <1>3, <1>10 DEF RetriesMatch
      <4>2. Mine(n, x) \subseteq Slots /\ \A u \in Mine(n, x) : u # s /\ n.slots[u] = k.slots[u]
        BY <1>17, <3>2 DEF Mine
      <4>3. CASE r.version # send.version
        <5>1. q.dispatched <=> r.dispatched
          BY <1>7, <1>11, <1>12, <4>3
        <5>2. \A u \in Mine(k, x) : k.slots[u].version = r.version => u \in Mine(n, x)
          BY <3>2, <4>3 DEF send
        <5>3. QED
          BY <1>12, <3>2, <4>1, <4>2, <5>1, <5>2
      <4>4. CASE r.version = send.version
        <5>1. ~q.dispatched
          BY <1>11, <1>12, <4>4
        <5>2. ASSUME NEW u \in Mine(n, x) PROVE n.slots[u].version # q.version
          <6>1. u \in Slots /\ u # s /\ n.slots[u] = k.slots[u]
                /\ k.slots[u].transaction = send.transaction
            BY <1>10, <2>1, <3>2, <4>2 DEF Mine
          <6>2. k.slots[u].version # send.version
            BY <1>1, <1>4, <6>1 DEF Distinct, send
          <6>3. QED
            BY <1>12, <4>4, <6>1, <6>2
        <5>3. QED
          BY <5>1, <5>2
      <4>5. QED
        BY <4>3, <4>4
    <3>9. QED
      BY <2>1, <3>1, <3>5, <3>7, <3>8
  <2>2. CASE ~(y = x /\ r.id = send.transaction)
    <3>1. n.retry[y] = k.retry[y]
      BY <1>10, <1>13, <1>14, <2>2
    <3>2. k.retry[y].id # send.transaction
      BY <1>4, <1>10, <2>2
    <3>3. Mine(n, y) = Mine(k, y) /\ \A u \in Mine(k, y) : n.slots[u] = k.slots[u]
      BY <1>16, <1>17, <1>18, <1>20, <3>2 DEF Mine, send
    <3>4. QED
      BY <1>1, <3>1, <3>3 DEF RetriesMatch
  <2>3. QED
    BY <2>1, <2>2
<1>23. RetriesMatch(n)
  BY <1>22 DEF RetriesMatch
<1>24. ~owned => \A u \in Slots : n.slots[u] = Free
  BY <1>17, <1>18 DEF Consistent
<1>25. Consistent(n)
  BY <1>14, <1>15, <1>19, <1>21, <1>23, <1>24 DEF Consistent
<1>26. QED
  BY <1>6, <1>25 DEF m, send

----------------------------------------------------------------------------
(* The actions                                                             *)

\* What a call may leave.
Kept(k) ==
    /\ k \in Controllers /\ PathsMatch(k) /\ Fenced(k)
    /\ k.state = "open" => Consistent(k)
    /\ k.state = "final" => \A s \in Slots : k.slots[s] = Free

LEMMA KeptInv ==
    ASSUME SendInv, Kept(ctl'), scenario' = scenario, socket' \in [Paths -> Nat]
    PROVE  SendInv'
BY DEF SendInv, Kept, Consistent, owned

LEMMA CallKeeps ==
    ASSUME SendInv, NEW n, Consistent(n), Call(n)
    PROVE  SendInv'
<1>1. Kept(n)
  BY DEF Kept, Consistent
<1>2. ctl' = n /\ scenario' = scenario /\ socket' = socket
  BY DEF Call
<1>3. QED
  BY <1>1, <1>2, KeptInv DEF SendInv

LEMMA EmitsType ==
    ASSUME NEW t \in Passed, ~owned
    PROVE  t.emits \in Seq(BOOLEAN)
<1>1. t.emits \in Emissions
  BY DEF Passed
<1>2. PICK n \in 0..MaxSendsPerStep : t.emits \in [1..n -> BOOLEAN]
  BY <1>1 DEF Emissions
<1>3. n \in Nat
  BY <1>2, CountsAssumption
<1>4. QED
  BY <1>2, <1>3, SeqDef

LEMMA DrivesKeep ==
    ASSUME SendInv, NEW k, Consistent(k), NEW t \in Passed, Call(Drive(k, t))
    PROVE  SendInv'
<1> DEFINE n == Drive(k, t)
<1>1. Consistent(n)
  BY EmitsType, DriveKeeps
<1>2. Call(n)
  OBVIOUS
<1> HIDE DEF n
<1>3. QED
  BY <1>1, <1>2, CallKeeps

\* A change that leaves sends, groups and fences alone, and starts no transaction.
LEMMA Unaffected ==
    ASSUME NEW k, Consistent(k), NEW n \in Controllers, n.state # "final",
           n.slots = k.slots, n.out = k.out, n.queue = k.queue, n.nextID = k.nextID,
           n.forced = k.forced, n.completed = k.completed, n.failedFrom = k.failedFrom,
           n.lost = k.lost,
           \A p \in Paths : n.path[p].slot = k.path[p].slot /\ n.path[p].queued = k.path[p].queued,
           \A x \in Controls : GoesOn(k.retry[x], n.retry[x]) \/ Absent(n.retry[x])
    PROVE  Consistent(n)
<1>1. k \in Controllers /\ Transactions(k)
  BY DEF Consistent, Transactions
<1>2. Transactions(n)
  BY <1>1, RetryChanges
<1>3. Fenced(n)
  BY DEF Consistent, Fenced, Numbered, Failures, HasOut
<1>4. ShardsMatch(n)
  BY DEF Consistent, ShardsMatch
<1>5. PathsMatch(n)
  <2>1. \A s \in Slots : k.slots[s].path \in {0} \cup Paths
    BY <1>1, SlotFields
  <2>2. QED
    BY <2>1 DEF Consistent, PathsMatch
<1>6. QED
  BY <1>2, <1>3, <1>4, <1>5 DEF Consistent, Transactions

LEMMA OpenConsistent ==
    ASSUME SendInv, ctl.state = "open"
    PROVE  Consistent(ctl) /\ ctl \in Controllers
BY DEF SendInv

LEMMA SameRetry ==
    ASSUME NEW k \in Controllers
    PROVE  \A x \in Controls : GoesOn(k.retry[x], k.retry[x])
BY DEF GoesOn, SameCounts

LEMMA Shifted ==
    ASSUME NEW a \in Int, NEW l \in Int
    PROVE  a + 1 - 1 - (l + 1) = a - 1 - l
OBVIOUS

LEMMA WriteKeeps ==
    ASSUME SendInv, NEW size \in scenario.sizes, NEW t \in Passed, Write(size, t)
    PROVE  SendInv'
<1> DEFINE id == ctl.nextID
           next == id + 1
           forced == IF scenario.aggregation THEN ctl.forced ELSE id
           e == [id |-> id, size |-> size, offset |-> 0, fragments |-> 0]
           queue == Append(ctl.queue, e)
           n == [ctl EXCEPT !.queue = queue, !.nextID = next, !.forced = forced]
<1>1. ctl.state = "open" /\ FragmentCount(size) <= MaxFragments /\ Call(Drive(n, t))
  BY DEF Write, Call, Admissible, Admit
<1>2. Consistent(ctl) /\ ctl \in Controllers
  BY <1>1, OpenConsistent
<1>3. size \in Nat
  BY ScenariosAssumption DEF SendInv
<1>4. /\ id \in Nat \ {0} /\ ctl.forced \in Nat /\ ctl.queue \in Seq(Entries) /\ Len(ctl.queue) \in Nat
      /\ ctl.completed \in Int
  BY <1>2, Fields, LenProperties
<1>5. next \in Nat \ {0} /\ forced \in Nat
  BY <1>4
<1>6. Numbered(ctl)
  BY <1>2 DEF Consistent, Fenced
<1>7. forced <= next - 1
  BY <1>4, <1>6 DEF Numbered
<1>8. next - 1 - (Len(ctl.queue) + 1) = id - 1 - Len(ctl.queue)
  <2>1. id \in Int /\ Len(ctl.queue) \in Int
    BY <1>4
  <2> HIDE DEF id
  <2>2. QED
    BY <2>1, Shifted
<1>9. e \in Entries /\ e.id = id /\ e.size = size /\ e.offset = 0 /\ e.fragments = 0
  BY <1>3, <1>4 DEF Entries
<1> HIDE DEF e, next, forced
<1>10. /\ queue \in Seq(Entries) /\ Len(queue) = Len(ctl.queue) + 1
       /\ \A i \in 1..Len(ctl.queue) : queue[i] = ctl.queue[i]
       /\ queue[Len(ctl.queue) + 1] = e
  BY <1>4, <1>9, AppendProperties
<1> HIDE DEF queue
<1>11. /\ n \in Controllers /\ n.queue = queue /\ n.nextID = next /\ n.forced = forced
       /\ n.completed = ctl.completed /\ n.failedFrom = ctl.failedFrom /\ n.lost = ctl.lost
       /\ n.out = ctl.out /\ SameSends(ctl, n)
  BY <1>2, <1>5, <1>10 DEF Controllers, SameSends
<1> HIDE DEF n
<1>12. ASSUME NEW i \in 1..Len(queue)
       PROVE  /\ queue[i].offset <= queue[i].size
              /\ queue[i].fragments + FragmentCount(queue[i].size - queue[i].offset) <= MaxFragments
              /\ queue[i].id = next - 1 - Len(queue) + i
  <2>1. CASE i = Len(ctl.queue) + 1
    <3>1. queue[i] = e /\ size - 0 = size
      BY <1>3, <1>10, <2>1
    <3>2. FragmentCount(size) \in Nat
      BY <1>3, FragmentCountType
    <3>3. 0 + FragmentCount(size - 0) <= MaxFragments
      BY <1>1, <3>1, <3>2
    <3>4. id = next - 1 - Len(queue) + i
      BY <1>4, <1>10, <2>1 DEF next
    <3>5. QED
      BY <1>3, <1>9, <3>1, <3>3, <3>4
  <2>2. CASE i # Len(ctl.queue) + 1
    <3>1. i \in 1..Len(ctl.queue)
      BY <1>4, <1>10, <2>2
    <3>2. queue[i] = ctl.queue[i]
      BY <1>10, <3>1
    <3>3. ctl.queue[i].id = id - 1 - Len(ctl.queue) + i
      BY <1>6, <3>1 DEF Numbered
    <3>4. id - 1 - Len(ctl.queue) = next - 1 - Len(queue)
      BY <1>8, <1>10
    <3>5. QED
      BY <1>6, <3>1, <3>2, <3>3, <3>4 DEF Numbered, Fitting
  <2>3. QED
    BY <2>1, <2>2
<1>13. Numbered(n)
  <2>1. next - 1 - Len(queue) = id - 1 - Len(ctl.queue)
    BY <1>8, <1>10
  <2>2. Fitting(queue)
    BY <1>12 DEF Fitting
  <2>3. QED
    BY <1>6, <1>7, <1>11, <1>12, <2>1, <2>2 DEF Numbered, HasOut
<1>14. Failures(n)
  BY <1>2, <1>11 DEF Consistent, Fenced, Failures, HasOut
<1>15. Consistent(n)
  BY <1>2, <1>11, <1>13, <1>14, GroupsKeep DEF Fenced
<1>16. QED
  BY <1>1, <1>15, DrivesKeep

LEMMA FlushKeeps ==
    ASSUME SendInv, NEW t \in Passed, Flush(t)
    PROVE  SendInv'
<1> DEFINE forced == ctl.nextID - 1
           n == [ctl EXCEPT !.forced = forced]
<1>1. ctl.state = "open" /\ Call(Drive(n, t))
  BY DEF Flush, Call
<1>2. Consistent(ctl) /\ ctl \in Controllers
  BY <1>1, OpenConsistent
<1>3. forced \in Nat /\ forced <= ctl.nextID - 1
  BY <1>2, Fields
<1> HIDE DEF forced
<1>4. /\ n \in Controllers /\ n.queue = ctl.queue /\ n.nextID = ctl.nextID /\ n.forced = forced
      /\ n.completed = ctl.completed /\ n.failedFrom = ctl.failedFrom /\ n.lost = ctl.lost
      /\ n.out = ctl.out /\ SameSends(ctl, n)
  BY <1>2, <1>3 DEF Controllers, SameSends
<1> HIDE DEF n
<1>5. Fenced(n)
  BY <1>2, <1>3, <1>4 DEF Consistent, Fenced, Numbered, Failures, HasOut
<1>6. Consistent(n)
  BY <1>2, <1>4, <1>5, GroupsKeep
<1>7. QED
  BY <1>1, <1>6, DrivesKeep

LEMMA ClosingCallKeeps ==
    ASSUME SendInv, NEW k, Consistent(k), Call(BeginClosing(k))
    PROVE  SendInv'
<1> DEFINE n == BeginClosing(k)
<1>1. Consistent(n)
  BY ClosingKeeps DEF Consistent
<1>2. Call(n)
  OBVIOUS
<1> HIDE DEF n
<1>3. QED
  BY <1>1, <1>2, CallKeeps

LEMMA DataPathsIdle ==
    ASSUME NEW k, NEW shard, NEW paced, NEW p \in DataPaths(k, shard, paced)
    PROVE  p \in Paths /\ k.path[p].slot = 0
<1> DEFINE idle == IdlePaths(k, paced)
<1>1. idle \subseteq Paths /\ \A o \in idle : k.path[o].slot = 0
  BY DEF IdlePaths, EligiblePaths
<1>2. p \in idle
  <2>1. CASE PreferredPath(k, shard) \in EligiblePaths(k)
    BY <2>1 DEF DataPaths
  <2>2. CASE PreferredPath(k, shard) \notin EligiblePaths(k)
    <3>1. idle # {} /\ p = Min(idle)
      BY <2>2 DEF DataPaths
    <3>2. idle \subseteq Nat
      BY <1>1, PathFacts
    <3> HIDE DEF idle
    <3>3. QED
      BY <3>1, <3>2, MinOf
  <2>3. QED
    BY <2>1, <2>2
<1>3. QED
  BY <1>1, <1>2

LEMMA TakeSendKeeps ==
    ASSUME SendInv, NEW t \in Passed, NEW paced, TakeSend(t, paced)
    PROVE  SendInv'
<1> DEFINE k == DriveOwned(ctl, t)
           free == {s \in Slots : k.slots[s] = Free}
           controls == {x \in Controls : Dispatchable(k, x) /\ PathOf(k, x) \notin paced}
           usable == {x \in controls : Usable(k, x)}
           failed == FailQueued(k, controls \ usable)
           late == t.groupLate /\ k.out.group = ctl.out.group
           sends == {d \in Shards \X Paths :
                       /\ HasOut(failed) /\ ~late /\ failed.out.shards[d[1]] = "waiting"
                       /\ d[2] \in DataPaths(failed, d[1], paced)}
<1>1. owned
  BY DEF TakeSend
<1>2. IF k.state # "open" \/ free = {} THEN Call(k)
      ELSE IF usable # {} THEN
          \E x \in usable, X \in SUBSET (controls \ usable) :
              Call(DispatchControl(FailQueued(k, X), Min(free), x))
      ELSE IF sends # {} THEN
          \E d \in sends : Call(DispatchShard(failed, Min(free), d[1], d[2]))
      ELSE Call(failed)
  BY DEF TakeSend
<1>3. ctl.state = "open"
  <2> HIDE DEF k, free, controls, usable, failed, sends
  <2>1. QED
    BY <1>2 DEF Call
<1>4. Consistent(k) /\ k \in Controllers
  BY <1>3, OpenConsistent, DriveOwnedKeeps DEF Consistent
<1> HIDE DEF k
<1>5. CASE Call(k)
  BY <1>4, <1>5, CallKeeps
<1>6. free # {} => Min(free) \in Slots /\ k.slots[Min(free)] = Free
  <2>1. SUFFICES ASSUME free # {} PROVE Min(free) \in free
    OBVIOUS
  <2>2. free \subseteq Nat
    BY PathFacts
  <2> HIDE DEF free
  <2>3. QED
    BY <2>1, <2>2, MinOf
<1> DEFINE slot == Min(free)
<1>7. ASSUME NEW X
      PROVE  LET m == FailQueued(k, X)
             IN  /\ Consistent(m) /\ m.slots = k.slots /\ m.path = k.path
                 /\ m.contextPath = k.contextPath
                 /\ \A x \in Controls : x \notin X => m.retry[x] = k.retry[x]
  <2> DEFINE m == FailQueued(k, X)
  <2>1. /\ Renews(k, m) /\ m.contextPath = k.contextPath
        /\ \A x \in Controls : x \notin X => m.retry[x] = k.retry[x]
    BY <1>4, FailQueuedKeeps
  <2> HIDE DEF m
  <2>2. Consistent(m)
    BY <1>4, <2>1, RenewsConsistent
  <2>3. m.slots = k.slots /\ m.path = k.path
    BY <2>1 DEF Renews, SameGroups
  <2>4. QED
    BY <2>1, <2>2, <2>3 DEF m
<1>8. ASSUME free # {}, NEW x \in usable, NEW X \in SUBSET (controls \ usable),
             Call(DispatchControl(FailQueued(k, X), slot, x))
      PROVE  SendInv'
  <2> DEFINE m == FailQueued(k, X)
             n == DispatchControl(m, slot, x)
  <2>1. /\ Consistent(m) /\ m.slots = k.slots /\ m.path = k.path
        /\ m.contextPath = k.contextPath
        /\ \A y \in Controls : y \notin X => m.retry[y] = k.retry[y]
    BY <1>7
  <2> HIDE DEF m
  <2>2. x \in Controls /\ x \notin X /\ Dispatchable(k, x)
    BY <1>8
  <2>3. m.retry[x] = k.retry[x]
    BY <2>1, <2>2
  <2>4. Dispatchable(m, x)
    BY <2>1, <2>2, <2>3 DEF Dispatchable, Carried, PathOf
  <2>5. slot \in Slots /\ m.slots[slot] = Free
    BY <1>6, <1>8, <2>1
  <2> HIDE DEF slot
  <2>6. Consistent(n)
    BY <1>1, <2>1, <2>2, <2>4, <2>5, DispatchControlKeeps
  <2>7. Call(n)
    BY <1>8 DEF m
  <2> HIDE DEF n
  <2>8. QED
    BY <2>6, <2>7, CallKeeps
<1>9. /\ Consistent(failed) /\ failed.slots = k.slots
  BY <1>7
<1> HIDE DEF failed, controls, usable
<1>10. ASSUME free # {}, NEW d \in sends, Call(DispatchShard(failed, slot, d[1], d[2]))
       PROVE  SendInv'
  <2> DEFINE n == DispatchShard(failed, slot, d[1], d[2])
  <2>1. /\ d[1] \in Shards /\ HasOut(failed) /\ failed.out.shards[d[1]] = "waiting"
        /\ d[2] \in DataPaths(failed, d[1], paced)
    BY <1>10
  <2>2. d[2] \in Paths /\ failed.path[d[2]].slot = 0
    BY <2>1, DataPathsIdle
  <2>3. slot \in Slots /\ failed.slots[slot] = Free
    BY <1>6, <1>9, <1>10
  <2> HIDE DEF slot, sends
  <2>4. Consistent(n)
    BY <1>1, <1>9, <2>1, <2>2, <2>3, DispatchShardKeeps
  <2>5. Call(n)
    BY <1>10
  <2> HIDE DEF n
  <2>6. QED
    BY <2>4, <2>5, CallKeeps
<1>11. CASE Call(failed)
  BY <1>9, <1>11, CallKeeps
<1> HIDE DEF sends, free
<1>12. QED
  BY <1>2, <1>5, <1>8, <1>10, <1>11

LEMMA CompleteSendKeeps ==
    ASSUME SendInv, NEW s \in Slots, NEW outcome \in Outcomes, NEW t, CompleteSend(s, outcome, t)
    PROVE  SendInv'
<1> DEFINE send == ctl.slots[s]
           freed == Freed(ctl, s)
           failed == outcome # "sent"
           attempted == outcome # "unattempted"
           done == IF send.source = "data" THEN CompleteShards(freed, {send.shard}, failed)
                   ELSE CompleteControl(freed, send, attempted)
           u == [t EXCEPT !.room = @ - 1]
<1>1. /\ ctl.state # "final" /\ ctl.slots[s] # Free
      /\ ctl' = IF ctl.state = "closing" THEN freed ELSE DriveOwned(done, u)
      /\ scenario' = scenario /\ socket' = socket
  BY DEF CompleteSend
<1> HIDE DEF u
<1>2. ctl \in Controllers /\ PathsMatch(ctl) /\ Fenced(ctl)
  BY DEF SendInv
<1>3. CASE ctl.state = "closing"
  <2>1. freed \in Controllers /\ PathsMatch(freed) /\ Fenced(freed) /\ freed.state = "closing"
    BY <1>1, <1>2, <1>3, FreedKeeps
  <2> HIDE DEF freed
  <2>2. Kept(freed)
    BY <2>1 DEF Kept
  <2>3. ctl' = freed
    BY <1>1, <1>3
  <2>4. QED
    BY <1>1, <2>2, <2>3, KeptInv DEF SendInv
<1>4. CASE ctl.state # "closing"
  <2>1. Consistent(ctl)
    BY <1>1, <1>2, <1>4, Fields, OpenConsistent
  <2>2. failed \in BOOLEAN /\ attempted \in BOOLEAN
    OBVIOUS
  <2> HIDE DEF failed, attempted
  <2>3. CASE send.source = "data"
    <3>1. Consistent(CompleteShards(freed, {send.shard}, failed))
      BY <2>1, <2>2, <2>3, ShardDone
    <3>2. QED
      BY <1>1, <1>4, <2>3, <3>1, DriveOwnedKeeps, KeptInv DEF SendInv, Kept, Consistent
  <2>4. CASE send.source # "data"
    <3>1. Consistent(CompleteControl(freed, send, attempted))
      BY <1>1, <2>1, <2>2, <2>4, ControlDone
    <3>2. QED
      BY <1>1, <1>4, <2>4, <3>1, DriveOwnedKeeps, KeptInv DEF SendInv, Kept, Consistent
  <2>5. QED
    BY <2>3, <2>4
<1>5. QED
  BY <1>3, <1>4

LEMMA AdvanceKeeps ==
    ASSUME SendInv, NEW t \in Passed, NEW late, NEW lateJoins, Advance(t, late, lateJoins)
    PROVE  SendInv'
<1> DEFINE active(p) == ctl.path[p].active /\ ~(p \in late /\ ctl.retry[p].pending)
           joining(p) == ctl.path[p].joining /\ p \notin lateJoins
           waits(x) == ctl.retry[x].pending /\ (x = Context \/ x \notin late)
           P == [p \in Paths |-> [ctl.path[p] EXCEPT !.active = active(p), !.joining = joining(p)]]
           R == [x \in Controls |-> [ctl.retry[x] EXCEPT !.pending = waits(x)]]
           home == IF ~ctl.acknowledged /\ ctl.contextPath \in late
                      /\ ctl.retry[ctl.contextPath].pending THEN 0 ELSE ctl.contextPath
           n == [ctl EXCEPT !.path = P, !.retry = R, !.contextPath = home]
           homed == RehomeContext(n)
<1>1. Call(BeginClosing(n)) \/ Call(Drive(homed, t))
  BY DEF Advance
<1>2. ctl.state = "open"
  BY <1>1 DEF Call
<1>3. Consistent(ctl) /\ ctl \in Controllers
  BY <1>2, OpenConsistent
<1>4. home \in {0} \cup Paths
  BY <1>3, Fields
<1>5. \A p \in Paths : ctl.path[p] \in PathRecords /\ active(p) \in BOOLEAN /\ joining(p) \in BOOLEAN
  BY <1>3, PathFields
<1>6. \A x \in Controls : ctl.retry[x] \in RetryRecords /\ waits(x) \in BOOLEAN
                          /\ (waits(x) => ctl.retry[x].pending)
  BY <1>3, RetryFields
<1> HIDE DEF home, active, joining, waits
<1>7. \A p \in Paths : P[p] \in PathRecords /\ P[p].slot = ctl.path[p].slot
                       /\ P[p].queued = ctl.path[p].queued
  BY <1>5 DEF PathRecords
<1>8. \A x \in Controls : R[x] \in RetryRecords /\ GoesOn(ctl.retry[x], R[x])
  BY <1>6 DEF RetryRecords, GoesOn, SameCounts
<1>9. P \in [Paths -> PathRecords] /\ R \in [Controls -> RetryRecords]
  BY <1>7, <1>8
<1> HIDE DEF P, R
<1>10. /\ n \in Controllers /\ n.slots = ctl.slots /\ n.out = ctl.out /\ n.queue = ctl.queue
       /\ n.nextID = ctl.nextID /\ n.forced = ctl.forced /\ n.completed = ctl.completed
       /\ n.failedFrom = ctl.failedFrom /\ n.lost = ctl.lost /\ n.path = P /\ n.retry = R
       /\ n.state = ctl.state
  BY <1>3, <1>4, <1>9 DEF Controllers
<1> HIDE DEF n
<1>11. Consistent(n)
  BY <1>2, <1>3, <1>7, <1>8, <1>10, Unaffected
<1>12. Consistent(homed)
  BY <1>10, <1>11, RehomeKeeps, RenewsConsistent
<1> HIDE DEF homed
<1>13. QED
  BY <1>1, <1>11, <1>12, ClosingCallKeeps, DrivesKeep

LEMMA FailPathKeeps ==
    ASSUME SendInv, NEW p \in Paths, NEW same \in BOOLEAN, NEW t \in Passed, FailPath(p, same, t)
    PROVE  SendInv'
<1> DEFINE q == [ctl.path[p] EXCEPT !.active = FALSE, !.joining = @ /\ ~same]
           P == [ctl.path EXCEPT ![p] = q]
           R == [ctl.retry EXCEPT ![p] = NoRetry]
           home == IF ctl.contextPath = p /\ ~ctl.acknowledged THEN 0 ELSE ctl.contextPath
           n == [ctl EXCEPT !.path[p] = q, !.retry[p] = NoRetry, !.contextPath = home]
           homed == IF ctl.contextPath = p THEN RehomeContext(n) ELSE n
<1>1. Call(BeginClosing(homed)) \/ Call(Drive(homed, t))
  BY DEF FailPath
<1>2. ctl.state = "open"
  BY <1>1 DEF Call
<1>3. Consistent(ctl) /\ ctl \in Controllers
  BY <1>2, OpenConsistent
<1>4. home \in {0} \cup Paths
  BY <1>3, Fields
<1>5. n = [ctl EXCEPT !.path = P, !.retry = R, !.contextPath = home]
  <2> HIDE DEF q, home
  <2>1. QED
    BY <1>3 DEF Controllers
<1> HIDE DEF home
<1>6. q \in PathRecords /\ q.slot = ctl.path[p].slot /\ q.queued = ctl.path[p].queued
  <2>1. ctl.path[p] \in PathRecords
    BY <1>3, PathFields
  <2>2. QED
    BY <2>1 DEF PathRecords
<1> HIDE DEF q
<1>7. P \in [Paths -> PathRecords] /\ P[p] = q /\ \A o \in Paths : o # p => P[o] = ctl.path[o]
  BY <1>3, <1>6, Fields
<1>8. R \in [Controls -> RetryRecords] /\ R[p] = NoRetry
      /\ \A x \in Controls : x # p => R[x] = ctl.retry[x]
  BY <1>3, Fields, NoRetryFacts, PathFacts
<1> HIDE DEF P, R, n
<1>9. /\ n \in Controllers /\ n.slots = ctl.slots /\ n.out = ctl.out /\ n.queue = ctl.queue
      /\ n.nextID = ctl.nextID /\ n.forced = ctl.forced /\ n.completed = ctl.completed
      /\ n.failedFrom = ctl.failedFrom /\ n.lost = ctl.lost /\ n.path = P /\ n.retry = R
      /\ n.state = ctl.state
  BY <1>3, <1>4, <1>5, <1>7, <1>8 DEF Controllers
<1>10. \A o \in Paths : n.path[o].slot = ctl.path[o].slot /\ n.path[o].queued = ctl.path[o].queued
  BY <1>6, <1>7, <1>9
<1>11. \A x \in Controls : GoesOn(ctl.retry[x], n.retry[x]) \/ Absent(n.retry[x])
  <2>1. Absent(NoRetry)
    BY NoRetryFacts DEF Absent
  <2>2. QED
    BY <1>3, <1>8, <1>9, <2>1, SameRetry
<1>12. Consistent(n)
  BY <1>2, <1>3, <1>9, <1>10, <1>11, Unaffected
<1>13. Consistent(homed)
  BY <1>9, <1>12, RehomeKeeps, RenewsConsistent
<1> HIDE DEF homed
<1>14. QED
  BY <1>1, <1>13, ClosingCallKeeps, DrivesKeep

\* A path's authority changes, its sends do not.
LEMMA PathChange ==
    ASSUME NEW k, Consistent(k), NEW p \in Paths, NEW q \in PathRecords,
           q.slot = k.path[p].slot, q.queued = k.path[p].queued
    PROVE  LET n == [k EXCEPT !.path[p] = q]
           IN  n \in Controllers /\ Consistent(n) /\ n.state = k.state /\ n.retry = k.retry
<1> DEFINE n == [k EXCEPT !.path[p] = q]
           P == [k.path EXCEPT ![p] = q]
<1>1. k \in Controllers /\ k.state # "final"
  BY DEF Consistent
<1>2. P \in [Paths -> PathRecords] /\ P[p] = q /\ \A o \in Paths : o # p => P[o] = k.path[o]
  BY <1>1, Fields
<1>3. n = [k EXCEPT !.path = P]
  OBVIOUS
<1> HIDE DEF P, n
<1>4. /\ n \in Controllers /\ n.slots = k.slots /\ n.out = k.out /\ n.queue = k.queue
      /\ n.nextID = k.nextID /\ n.forced = k.forced /\ n.completed = k.completed
      /\ n.failedFrom = k.failedFrom /\ n.lost = k.lost /\ n.path = P /\ n.retry = k.retry
      /\ n.state = k.state
  BY <1>1, <1>2, <1>3 DEF Controllers
<1>5. \A o \in Paths : n.path[o].slot = k.path[o].slot /\ n.path[o].queued = k.path[o].queued
  BY <1>2, <1>4
<1>6. \A x \in Controls : GoesOn(k.retry[x], n.retry[x])
  BY <1>1, <1>4, SameRetry
<1>7. Consistent(n)
  BY <1>1, <1>4, <1>5, <1>6, Unaffected
<1>8. QED
  BY <1>4, <1>7 DEF n

\* A retry is over: what it still has in flight keeps its number.
LEMMA RetryOver ==
    ASSUME NEW k, Consistent(k), NEW x \in Controls, NEW a \in BOOLEAN
    PROVE  LET n == [k EXCEPT !.acknowledged = a, !.retry[x].pending = FALSE]
           IN  n \in Controllers /\ Consistent(n)
<1> DEFINE n == [k EXCEPT !.acknowledged = a, !.retry[x].pending = FALSE]
           q == [k.retry[x] EXCEPT !.pending = FALSE]
           R == [k.retry EXCEPT ![x] = q]
<1>1. k \in Controllers /\ k.state # "final"
  BY DEF Consistent
<1>2. q \in RetryRecords /\ GoesOn(k.retry[x], q)
  <2>1. k.retry[x] \in RetryRecords
    BY <1>1, RetryFields
  <2>2. QED
    BY <2>1 DEF RetryRecords, GoesOn, SameCounts
<1>3. n = [k EXCEPT !.acknowledged = a, !.retry = R]
  BY <1>1 DEF Controllers
<1> HIDE DEF q
<1>4. R \in [Controls -> RetryRecords] /\ R[x] = q /\ \A y \in Controls : y # x => R[y] = k.retry[y]
  BY <1>1, <1>2, Fields
<1> HIDE DEF R, n
<1>5. /\ n \in Controllers /\ n.slots = k.slots /\ n.out = k.out /\ n.queue = k.queue
      /\ n.nextID = k.nextID /\ n.forced = k.forced /\ n.completed = k.completed
      /\ n.failedFrom = k.failedFrom /\ n.lost = k.lost /\ n.path = k.path /\ n.retry = R
      /\ n.state = k.state
  BY <1>1, <1>3, <1>4 DEF Controllers
<1>6. \A y \in Controls : GoesOn(k.retry[y], n.retry[y])
  BY <1>1, <1>2, <1>4, <1>5, SameRetry
<1>7. Consistent(n)
  BY <1>1, <1>5, <1>6, Unaffected
<1>8. QED
  BY <1>5, <1>7 DEF n

LEMMA JoinKeeps ==
    ASSUME SendInv, NEW p \in Paths, Join(p)
    PROVE  SendInv'
<1> DEFINE q == [ctl.path[p] EXCEPT !.joining = TRUE, !.joined = socket[p]]
           n == [ctl EXCEPT !.path[p] = q]
<1>1. ctl.state = "open" /\ ctl' = n /\ scenario' = scenario /\ socket' = socket
  BY DEF Join
<1>2. Consistent(ctl) /\ ctl \in Controllers
  BY <1>1, OpenConsistent
<1>3. q \in PathRecords /\ q.slot = ctl.path[p].slot /\ q.queued = ctl.path[p].queued
  <2>1. ctl.path[p] \in PathRecords
    BY <1>2, PathFields
  <2>2. socket[p] \in Nat
    BY DEF SendInv
  <2>3. QED
    BY <2>1, <2>2 DEF PathRecords
<1> HIDE DEF q
<1>4. Consistent(n)
  BY <1>2, <1>3, PathChange, Zenon
<1> HIDE DEF n
<1>5. Kept(n)
  BY <1>4 DEF Kept, Consistent
<1>6. QED
  BY <1>1, <1>5, KeptInv DEF SendInv

LEMMA CommitPathKeeps ==
    ASSUME SendInv, NEW p \in Paths, NEW t \in Passed, CommitPath(p, t)
    PROVE  SendInv'
<1> DEFINE q == [ctl.path[p] EXCEPT !.active = TRUE, !.joining = FALSE,
                                    !.generation = ctl.path[p].joined, !.joined = 0, !.epoch = 1]
           m == [ctl EXCEPT !.path[p] = q]
           n == StartBudget(m, p)
<1>1. Call(Drive(n, t))
  BY DEF CommitPath
<1>2. ctl.state = "open"
  BY <1>1 DEF Call
<1>3. Consistent(ctl) /\ ctl \in Controllers
  BY <1>2, OpenConsistent
<1>4. q \in PathRecords /\ q.slot = ctl.path[p].slot /\ q.queued = ctl.path[p].queued
  <2>1. ctl.path[p] \in PathRecords
    BY <1>3, PathFields
  <2>2. QED
    BY <2>1 DEF PathRecords
<1> HIDE DEF q
<1>5. m \in Controllers /\ Consistent(m)
  BY <1>3, <1>4, PathChange, Zenon
<1> HIDE DEF m
<1>6. Consistent(n)
  BY <1>5, StartBudgetKeeps, RenewsConsistent
<1> HIDE DEF n
<1>7. QED
  BY <1>1, <1>6, DrivesKeep

LEMMA BudgetAckKeeps ==
    ASSUME SendInv, NEW p \in Paths, NEW t \in Passed, BudgetAck(p, t)
    PROVE  SendInv'
<1> DEFINE q == [ctl.path[p] EXCEPT !.epoch = 2]
           m == [ctl EXCEPT !.path[p] = q]
           a == m.acknowledged
           acked == [m EXCEPT !.acknowledged = a, !.retry[p].pending = FALSE]
           start == ~ctl.acknowledged /\ (~ctl.retry[Context].pending \/ ctl.contextPath \in {0, p})
           old == [ctl EXCEPT !.path[p].epoch = 2, !.retry[p].pending = FALSE]
<1>1. Call(Drive(IF start THEN StartEncoding(old, p) ELSE old, t))
  BY DEF BudgetAck
<1>2. ctl.state = "open"
  BY <1>1 DEF Call
<1>3. Consistent(ctl) /\ ctl \in Controllers
  BY <1>2, OpenConsistent
<1>4. old = acked
  BY <1>3 DEF Controllers
<1>5. q \in PathRecords /\ q.slot = ctl.path[p].slot /\ q.queued = ctl.path[p].queued
  <2>1. ctl.path[p] \in PathRecords
    BY <1>3, PathFields
  <2>2. QED
    BY <2>1 DEF PathRecords
<1> HIDE DEF q, old
<1>6. m \in Controllers /\ Consistent(m)
  BY <1>3, <1>5, PathChange, Zenon
<1> HIDE DEF m
<1>7. a \in BOOLEAN
  BY <1>6, Fields
<1> HIDE DEF a
<1>8. acked \in Controllers /\ Consistent(acked)
  <2>1. p \in Controls
    BY PathFacts
  <2>2. QED
    BY <1>6, <1>7, <2>1, RetryOver, Zenon
<1> HIDE DEF acked
<1>9. Consistent(StartEncoding(acked, p))
  BY <1>8, StartEncodingKeeps, RenewsConsistent
<1>10. QED
  BY <1>1, <1>4, <1>8, <1>9, DrivesKeep

LEMMA ContextAckKeeps ==
    ASSUME SendInv, NEW t \in Passed, ContextAck(t)
    PROVE  SendInv'
<1> DEFINE n == [ctl EXCEPT !.acknowledged = TRUE, !.retry[Context].pending = FALSE]
<1>1. Call(Drive(n, t))
  BY DEF ContextAck
<1>2. ctl.state = "open"
  BY <1>1 DEF Call
<1>3. Consistent(ctl)
  BY <1>2, OpenConsistent
<1>4. PICK yes : yes \in BOOLEAN /\ yes = TRUE
  OBVIOUS
<1> DEFINE m == [ctl EXCEPT !.acknowledged = yes, !.retry[Context].pending = FALSE]
<1>5. n = m
  BY <1>4
<1>6. Consistent(m)
  <2>1. yes \in BOOLEAN
    BY <1>4
  <2>2. Context \in Controls
    BY PathFacts
  <2>3. QED
    BY <1>3, <2>1, <2>2, RetryOver, Zenon
<1> HIDE DEF m, n
<1>7. QED
  BY <1>1, <1>5, <1>6, DrivesKeep

LEMMA StopAdmissionsKeeps ==
    ASSUME SendInv, StopAdmissions
    PROVE  SendInv'
<1> DEFINE n == [ctl EXCEPT !.accepting = FALSE]
<1>1. Call(n)
  BY DEF StopAdmissions
<1>2. Consistent(ctl) /\ ctl \in Controllers
  BY <1>1, OpenConsistent DEF Call
<1>3. /\ n \in Controllers /\ n.slots = ctl.slots /\ n.out = ctl.out /\ n.queue = ctl.queue
      /\ n.nextID = ctl.nextID /\ n.forced = ctl.forced /\ n.completed = ctl.completed
      /\ n.failedFrom = ctl.failedFrom /\ n.lost = ctl.lost /\ n.path = ctl.path
      /\ n.retry = ctl.retry /\ n.state = ctl.state
  BY <1>2 DEF Controllers
<1> HIDE DEF n
<1>4. ctl.state # "final"
  BY <1>2 DEF Consistent
<1>5. Consistent(n)
  BY <1>2, <1>3, <1>4, SameRetry, Unaffected
<1>6. QED
  BY <1>1, <1>5, CallKeeps

LEMMA InitialFacts ==
    /\ InitialPath \in PathRecords /\ InitialPath.slot = 0 /\ InitialPath.queued = 0
    /\ Free \in SlotRecords /\ Free.source = "none" /\ Free.transaction = 0
    /\ NoOut \in OutRecords /\ NoOut.ids = {} /\ \A s \in Shards : NoOut.shards[s] = "terminal"
<1>1. InitialPath \in PathRecords /\ InitialPath.slot = 0 /\ InitialPath.queued = 0
  BY DEF InitialPath, PathRecords
<1>2. Free \in SlotRecords /\ Free.source = "none" /\ Free.transaction = 0
  BY DEF Free, SlotRecords
<1>3. NoOut \in OutRecords /\ NoOut.ids = {} /\ \A s \in Shards : NoOut.shards[s] = "terminal"
  BY DEF NoOut, OutRecords
<1>4. QED
  BY <1>1, <1>2, <1>3

LEMMA FinalizeCloseKeeps ==
    ASSUME SendInv, FinalizeClose
    PROVE  SendInv'
<1> DEFINE P == [p \in Paths |-> InitialPath]
           R == [x \in Controls |-> NoRetry]
           n == [ctl EXCEPT !.queue = <<>>, !.out = NoOut, !.state = "final", !.path = P,
                            !.retry = R, !.contextPath = 0]
<1>1. /\ ctl.state = "closing" /\ \A s \in Slots : ctl.slots[s] = Free
      /\ ctl' = n /\ scenario' = scenario /\ socket' = socket
  BY DEF FinalizeClose, ReleaseOutput, CloseQueue
<1>2. ctl \in Controllers /\ Fenced(ctl)
  BY DEF SendInv
<1>3. P \in [Paths -> PathRecords] /\ R \in [Controls -> RetryRecords]
  BY InitialFacts, NoRetryFacts
<1>4. <<>> \in Seq(Entries) /\ Len(<<>>) = 0
  BY EmptySeq
<1>5. \A p \in Paths : P[p].slot = 0 /\ P[p].queued = 0
  BY InitialFacts
<1> HIDE DEF P, R
<1>6. /\ n \in Controllers /\ n.slots = ctl.slots /\ n.out = NoOut /\ n.queue = <<>>
      /\ n.nextID = ctl.nextID /\ n.forced = ctl.forced /\ n.completed = ctl.completed
      /\ n.failedFrom = ctl.failedFrom /\ n.lost = ctl.lost /\ n.path = P /\ n.state = "final"
  BY <1>2, <1>3, <1>4, InitialFacts DEF Controllers
<1> HIDE DEF n
<1>7. PathsMatch(n)
  BY <1>1, <1>5, <1>6 DEF PathsMatch
<1>8. ~HasOut(n)
  BY <1>6, InitialFacts DEF HasOut
<1>9. Numbered(n)
  <2>1. ctl.nextID \in Nat /\ ctl.completed \in Int /\ Len(ctl.queue) \in Nat
    BY <1>2, Fields, LenProperties
  <2>2. Numbered(ctl)
    BY <1>2 DEF Fenced
  <2>3. ctl.completed <= ctl.nextID - 1 - 0 /\ 0 <= ctl.completed /\ ctl.forced <= ctl.nextID - 1
    BY <2>1, <2>2 DEF Numbered
  <2>4. 1..Len(n.queue) = {}
    BY <1>4, <1>6
  <2>5. QED
    BY <1>4, <1>6, <1>8, <2>3, <2>4 DEF Numbered, Fitting
<1>10. Failures(n)
  BY <1>2, <1>6, <1>8, InitialFacts DEF Fenced, Failures
<1>11. Kept(n)
  BY <1>1, <1>6, <1>7, <1>9, <1>10 DEF Kept, Fenced
<1>12. QED
  BY <1>1, <1>11, KeptInv DEF SendInv

----------------------------------------------------------------------------
(* The invariant and what follows from it                                  *)

LEMMA SendInitKeeps ==
    ASSUME SendInit
    PROVE  SendInv
<1> DEFINE joined == scenario.established
           active(p) == p = 1 \/ joined
           epoch == IF joined THEN 2 ELSE 1
           P == [p \in Paths |-> [InitialPath EXCEPT !.active = active(p), !.epoch = epoch]]
           first == [NoRetry EXCEPT !.id = 1, !.version = 2, !.pending = TRUE, !.queued = TRUE]
           R == [x \in Controls |-> IF x = 1 /\ ~joined THEN first ELSE NoRetry]
           S == [s \in Slots |-> Free]
<1>1. /\ ctl.state = "open" /\ ctl.accepting = TRUE /\ ctl.queue = <<>> /\ ctl.nextID = 1
      /\ ctl.nextGroup = 1 /\ ctl.forced = 0 /\ ctl.completed = 0 /\ ctl.failedFrom = 0
      /\ ctl.lost = {} /\ ctl.out = NoOut /\ ctl.slots = S /\ ctl.path = P /\ ctl.retry = R
      /\ ctl.contextPath = 1 /\ ctl.acknowledged = joined
  BY DEF SendInit
<1>2. ctl = [state |-> "open", accepting |-> TRUE, queue |-> <<>>, nextID |-> 1, nextGroup |-> 1,
             forced |-> 0, completed |-> 0, failedFrom |-> 0, lost |-> {}, out |-> NoOut,
             slots |-> S, path |-> P, retry |-> R, contextPath |-> 1, acknowledged |-> joined]
  BY DEF SendInit
<1>3. scenario \in Scenarios /\ socket = [p \in Paths |-> 0] /\ joined \in BOOLEAN
  BY ScenariosAssumption DEF SendInit
<1>4. \A p \in Paths : P[p] \in PathRecords /\ P[p].slot = 0 /\ P[p].queued = 0
  <2>1. epoch \in {1, 2} /\ \A p \in Paths : active(p) \in BOOLEAN
    BY <1>3
  <2> HIDE DEF epoch, active
  <2>2. QED
    BY <2>1, InitialFacts DEF PathRecords
<1> HIDE DEF joined
<1>5. first \in RetryRecords /\ first.id = 1 /\ first.sends = 0 /\ first.inflight = 0
      /\ ~first.dispatched
  BY NoRetryFacts DEF RetryRecords
<1> HIDE DEF first
<1>6. \A x \in Controls :
        /\ R[x] \in RetryRecords /\ R[x].sends = 0 /\ R[x].inflight = 0 /\ ~R[x].dispatched
        /\ R[x].pending => R[x].id # 0
        /\ R[x].id # 0 => x = 1
  BY <1>5, NoRetryFacts
<1>7. S \in [Slots -> SlotRecords] /\ \A s \in Slots : S[s] = Free
  BY InitialFacts
<1>8. P \in [Paths -> PathRecords] /\ R \in [Controls -> RetryRecords]
  BY <1>4, <1>6
<1> HIDE DEF P, R, S
<1>9. <<>> \in Seq(Entries) /\ Len(<<>>) = 0
  BY EmptySeq
<1>10. ctl \in Controllers
  <2>1. 1 \in Paths
    BY PathFacts
  <2>2. QED
    BY <1>2, <1>3, <1>7, <1>8, <1>9, <2>1, InitialFacts DEF Controllers
<1>11. PathsMatch(ctl)
  BY <1>1, <1>4, <1>7 DEF PathsMatch
<1>12. ~HasOut(ctl)
  BY <1>1, InitialFacts DEF HasOut
<1>13. Numbered(ctl)
  <2>1. 1..Len(ctl.queue) = {} /\ Len(ctl.queue) = 0
    BY <1>1, <1>9
  <2>2. Fitting(ctl.queue)
    BY <2>1 DEF Fitting
  <2>3. QED
    BY <1>1, <1>12, <2>1, <2>2 DEF Numbered
<1>14. Failures(ctl)
  BY <1>1, <1>12, InitialFacts DEF Failures
<1>15. ShardsMatch(ctl)
  BY <1>1, <1>7, InitialFacts DEF ShardsMatch
<1>16. Distinct(ctl)
  BY <1>1, <1>6, <1>7, InitialFacts DEF Distinct
<1>17. RetriesMatch(ctl)
  <2>1. \A x \in Controls : Mine(ctl, x) = {}
    BY <1>1, <1>7, InitialFacts DEF Mine
  <2>2. Cardinality({}) = 0 /\ 0 + 0 <= ControlSends
    BY FS_EmptySet, PathFacts
  <2>3. QED
    BY <1>1, <1>6, <2>1, <2>2 DEF RetriesMatch
<1>18. Consistent(ctl)
  BY <1>1, <1>7, <1>10, <1>11, <1>13, <1>14, <1>15, <1>16, <1>17 DEF Consistent, Fenced
<1>19. socket \in [Paths -> Nat]
  BY <1>3
<1>20. QED
  BY <1>1, <1>3, <1>18, <1>19 DEF SendInv, Consistent

LEMMA SendStepKeeps ==
    ASSUME SendInv, [SendNext]_sendVars
    PROVE  SendInv'
<1>1. CASE Calls
  <2>1. PICK t \in Passed :
          \/ \E size \in scenario.sizes : Write(size, t)
          \/ Flush(t) \/ ContextAck(t)
          \/ \E paced \in SUBSET Paths : TakeSend(t, paced)
          \/ \E s \in Slots, outcome \in Outcomes : CompleteSend(s, outcome, t)
          \/ \E p \in Paths : CommitPath(p, t) \/ BudgetAck(p, t)
          \/ \E p \in Paths, same \in BOOLEAN : FailPath(p, same, t)
          \/ \E late \in SUBSET {x \in Controls : ctl.retry[x].pending},
                joined \in SUBSET {p \in Paths : ctl.path[p].joining} : Advance(t, late, joined)
    BY <1>1 DEF Calls
  <2>2. CASE \E size \in scenario.sizes : Write(size, t)
    BY <2>2, WriteKeeps
  <2>3. CASE Flush(t)
    BY <2>3, FlushKeeps
  <2>4. CASE ContextAck(t)
    BY <2>4, ContextAckKeeps
  <2>5. CASE \E paced \in SUBSET Paths : TakeSend(t, paced)
    BY <2>5, TakeSendKeeps
  <2>6. CASE \E s \in Slots, outcome \in Outcomes : CompleteSend(s, outcome, t)
    BY <2>6, CompleteSendKeeps
  <2>7. CASE \/ \E p \in Paths : CommitPath(p, t) \/ BudgetAck(p, t)
             \/ \E p \in Paths, same \in BOOLEAN : FailPath(p, same, t)
    BY <2>7, FailPathKeeps, CommitPathKeeps, BudgetAckKeeps
  <2>8. CASE \E late \in SUBSET {x \in Controls : ctl.retry[x].pending},
                joined \in SUBSET {p \in Paths : ctl.path[p].joining} : Advance(t, late, joined)
    BY <2>8, AdvanceKeeps
  <2>9. QED
    BY <2>1, <2>2, <2>3, <2>4, <2>5, <2>6, <2>7, <2>8
<1>2. CASE WriteRefused \/ BeginClose
  <2>1. Call(BeginClosing(ctl))
    BY <1>2 DEF WriteRefused, BeginClose
  <2>2. Consistent(ctl)
    BY <2>1, OpenConsistent DEF Call
  <2>3. QED
    BY <2>1, <2>2, ClosingCallKeeps
<1>3. CASE StopAdmissions
  BY <1>3, StopAdmissionsKeeps
<1>4. CASE FinalizeClose
  BY <1>4, FinalizeCloseKeeps
<1>5. CASE \E p \in Paths : Join(p)
  BY <1>5, JoinKeeps
<1>6. ASSUME ctl' = ctl, scenario' = scenario, socket' \in [Paths -> Nat] PROVE SendInv'
  BY <1>6 DEF SendInv, Consistent, owned
<1>7. CASE \E p \in Paths : SocketDown(p)
  BY <1>6, <1>7 DEF SocketDown, SendInv
<1>8. CASE \E p \in Paths : Rebuild(p)
  <2>1. PICK p \in Paths : socket' = [socket EXCEPT ![p] = @ + 1] /\ ctl' = ctl /\ scenario' = scenario
    BY <1>8 DEF Rebuild
  <2> DEFINE g == socket[p] + 1
  <2>2. socket \in [Paths -> Nat] /\ g \in Nat
    BY DEF SendInv
  <2>3. socket' = [socket EXCEPT ![p] = g]
    BY <2>1
  <2> HIDE DEF g
  <2>4. socket' \in [Paths -> Nat]
    BY <2>2, <2>3
  <2>5. QED
    BY <1>6, <2>1, <2>4
<1>9. CASE UNCHANGED sendVars
  BY <1>6, <1>9 DEF sendVars, SendInv
<1>10. QED
  BY <1>1, <1>2, <1>3, <1>4, <1>5, <1>7, <1>8, <1>9 DEF SendNext

\* Whatever is written, taken, completed, lost and joined again, in any order:
\* slots, paths, shards and control transactions agree about what is in flight,
\* the queue is numbered without gaps and every Datagram in it still fits.
THEOREM SendInvariant == SendSpec => []SendInv
<1>1. SendInit => SendInv
  BY SendInitKeeps
<1>2. SendInv /\ [SendNext]_sendVars => SendInv'
  BY SendStepKeeps
<1>3. QED
  BY <1>1, <1>2, PTL DEF SendSpec

LEMMA SendInvTypes ==
    ASSUME SendInv
    PROVE  SendTypeOK
<1>1. ctl \in Controllers /\ Numbered(ctl)
  BY DEF SendInv, Fenced
<1>2. /\ ctl.state \in {"open", "closing", "final"} /\ ctl.contextPath \in {0} \cup Paths
      /\ ctl.nextID \in Nat \ {0} /\ ctl.completed \in Int /\ ctl.forced \in Nat
      /\ Len(ctl.queue) \in Nat
  BY <1>1, Fields, LenProperties
<1>3. 0 <= ctl.completed /\ ctl.completed <= ctl.nextID - 1 - Len(ctl.queue)
      /\ ctl.forced <= ctl.nextID - 1
  BY <1>1 DEF Numbered
<1>4. ctl.completed \in 0..(ctl.nextID - 1) /\ ctl.forced \in 0..(ctl.nextID - 1)
  BY <1>2, <1>3
<1>5. QED
  BY <1>2, <1>4 DEF SendTypeOK

LEMMA SendInvExact ==
    ASSUME SendInv
    PROVE  SendsExact
<1>1. ctl \in Controllers /\ PathsMatch(ctl)
  BY DEF SendInv
<1>2. ASSUME NEW p \in Paths
      PROVE  LET mine == {s \in UsedSlots(ctl) : ctl.slots[s].path = p}
             IN  ctl.path[p].queued = Cardinality(mine)
                 /\ mine = (IF ctl.path[p].slot = 0 THEN {} ELSE {ctl.path[p].slot})
  <2> DEFINE mine == {s \in UsedSlots(ctl) : ctl.slots[s].path = p}
             slot == ctl.path[p].slot
  <2>1. \A s \in mine : s \in Slots /\ s = slot /\ s # 0
    BY <1>1, PathFacts DEF UsedSlots, PathsMatch
  <2>2. CASE slot = 0
    <3>1. mine = {} /\ ctl.path[p].queued = 0
      BY <1>1, <2>1, <2>2 DEF PathsMatch
    <3> HIDE DEF mine
    <3>2. QED
      BY <2>2, <3>1, FS_EmptySet DEF mine
  <2>3. CASE slot # 0
    <3>1. slot \in Slots /\ ctl.path[p].queued = 1 /\ ctl.slots[slot].source # "none"
          /\ ctl.slots[slot].path = p
      BY <1>1, <2>3, PathFields DEF PathsMatch
    <3>2. ctl.slots[slot] # Free
      BY <3>1, InitialFacts
    <3>3. slot \in mine
      BY <3>1, <3>2 DEF UsedSlots
    <3> HIDE DEF mine
    <3>4. mine = {slot}
      BY <2>1, <3>3
    <3>5. Cardinality(mine) = 1
      BY <3>4, FS_Singleton
    <3>6. QED
      BY <2>3, <3>1, <3>4, <3>5 DEF mine
  <2>4. QED
    BY <2>2, <2>3
<1>3. ASSUME ctl.state = "open"
      PROVE  {d \in Shards : ctl.out.shards[d] = "dispatched"}
               = {ctl.slots[s].shard : s \in {u \in UsedSlots(ctl) : ctl.slots[u].source = "data"}}
  <2>1. ShardsMatch(ctl)
    BY <1>3 DEF SendInv, Consistent
  <2>2. {u \in UsedSlots(ctl) : ctl.slots[u].source = "data"}
          = {u \in Slots : ctl.slots[u].source = "data"}
    BY InitialFacts DEF UsedSlots
  <2>3. QED
    BY <2>1, <2>2 DEF ShardsMatch
<1>4. ASSUME ctl.state = "open", NEW x \in Controls
      PROVE  LET r == ctl.retry[x]
                 mine == {s \in UsedSlots(ctl) : r.id # 0 /\ ctl.slots[s].transaction = r.id}
             IN  /\ r.inflight = Cardinality(mine)
                 /\ r.dispatched <=> \E s \in mine : ctl.slots[s].version = r.version
                 /\ r.sends + r.inflight <= ControlSends
  <2> DEFINE r == ctl.retry[x]
             mine == {s \in UsedSlots(ctl) : r.id # 0 /\ ctl.slots[s].transaction = r.id}
  <2>1. RetriesMatch(ctl)
    BY <1>4 DEF SendInv, Consistent
  <2>2. mine = Mine(ctl, x)
    BY InitialFacts DEF UsedSlots, Mine
  <2> HIDE DEF mine
  <2>3. QED
    BY <2>1, <2>2 DEF RetriesMatch, mine
<1>5. ctl.state = "final" => UsedSlots(ctl) = {}
  BY DEF SendInv, UsedSlots
<1>6. QED
  BY <1>2, <1>3, <1>4, <1>5, SendInvTypes DEF SendsExact

\* A worker may complete a send long after its path failed and joined again, its
\* transaction was replaced or its group expired: TakeSend and CompleteSend still
\* count every send in flight exactly once, in its path, its shard and the
\* transaction that runs, and FinalizeClose never gives back a slot in use.
THEOREM SendsCountedExactly == SendSpec => []SendsExact
<1>1. SendInv => SendsExact
  BY SendInvExact
<1>2. QED
  BY <1>1, SendInvariant, PTL

LEMMA SendInvHonest ==
    ASSUME SendInv
    PROVE  FencesHonest
<1>1. ctl \in Controllers /\ Numbered(ctl) /\ Failures(ctl)
  BY DEF SendInv, Fenced
<1>2. /\ ctl.queue \in Seq(Entries) /\ Len(ctl.queue) \in Nat /\ ctl.nextID \in Nat
      /\ ctl.completed \in Int
  BY <1>1, Fields, LenProperties
<1>3. ASSUME NEW i \in 1..Len(ctl.queue) PROVE ctl.queue[i].id > ctl.completed
  <2>1. ctl.queue[i].id = ctl.nextID - 1 - Len(ctl.queue) + i
        /\ ctl.completed <= ctl.nextID - 1 - Len(ctl.queue)
    BY <1>1 DEF Numbered
  <2>2. QED
    BY <1>2, <2>1
<1>4. ASSUME NEW i \in 1..Len(ctl.queue)
      PROVE  ctl.queue[i].fragments + FragmentCount(ctl.queue[i].size - ctl.queue[i].offset)
               <= MaxFragments
  BY <1>1 DEF Numbered, Fitting
<1>5. ctl.queue # <<>> => Plan(ctl.queue).count > 0
  <2>1. SUFFICES ASSUME ctl.queue # <<>> PROVE Plan(ctl.queue).count > 0
    OBVIOUS
  <2>2. Len(ctl.queue) # 0
    BY <1>2, <2>1, EmptySeq
  <2>3. QED
    BY <1>1, <1>2, <2>2, PlanIsSound DEF Numbered
<1>6. /\ \A d \in ctl.lost : ctl.failedFrom # 0 /\ ctl.failedFrom <= d
      /\ ctl.failedFrom # 0 => ctl.lost # {}
  BY <1>1 DEF Failures
<1>7. QED
  BY <1>3, <1>4, <1>5, <1>6 DEF FencesHonest

\* Whatever is sealed in parts, lost or expired: completed never passes a
\* Datagram that waits or one that lost a shard without failedFrom saying so,
\* a Datagram cut over several groups never runs out of fragments, and the queue
\* never holds a Datagram that seal could not make progress with.
THEOREM FencesReportLosses == SendSpec => []FencesHonest
<1>1. SendInv => FencesHonest
  BY SendInvHonest
<1>2. QED
  BY <1>1, SendInvariant, PTL

============================================================================
