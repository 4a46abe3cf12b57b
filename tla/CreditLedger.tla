---------------------------- MODULE CreditLedger ----------------------------
(***************************************************************************)
(* The v2 credit ledger (internal/creditv2/ledger.go): what a Peer and its *)
(* Sessions ("scopes") may retain.  A lease charges its claim to its owner *)
(* and to the Peer until it is released; a closed scope keeps its slot     *)
(* until its last lease is gone.                                           *)
(*                                                                         *)
(* Every operation runs under the Peer's one lock, so each is one action;  *)
(* the goroutines that call them interleave freely.  An operation that     *)
(* returns an error changes nothing and is no step.  Scopes and Leases     *)
(* name the handles; copies of a handle share its state.                   *)
(***************************************************************************)
EXTENDS Integers, FiniteSets, FiniteSetsExt

CONSTANTS
    Scopes, Leases,
    NoScope,                \* the owner of a lease that has none
    Claims,                 \* the claims callers may make
    MaxPeerBytes, MaxSessionBytes,
    MaxSessions, MaxPendingHandshakes, MaxPendingAccepts,
    MaxStreamsPerSession, MaxPeerStreams, MaxReservations

ASSUME NoScopeAssumption == NoScope \notin Scopes
ASSUME ClaimsAssumption ==
    Claims \subseteq [bytes : Nat, stream : BOOLEAN, accept : BOOLEAN]
ASSUME ByteLimitsAssumption ==
    /\ MaxPeerBytes \in Nat \ {0} /\ MaxSessionBytes \in Nat \ {0}
    /\ MaxSessionBytes <= MaxPeerBytes
ASSUME CountLimitsAssumption ==
    /\ MaxSessions \in Nat \ {0} /\ MaxPendingHandshakes \in Nat \ {0}
    /\ MaxPendingAccepts \in Nat \ {0} /\ MaxStreamsPerSession \in Nat \ {0}
    /\ MaxPeerStreams \in Nat \ {0} /\ MaxReservations \in Nat \ {0}

VARIABLES
    \* peerState
    peerUsage,          \* bytes, reservations, streams, accepts
    slots, pendingHandshakes, established,
    peerClosed,
    sessions,           \* the scopes in the Peer's map
    \* sessionState
    begun,              \* scopes that exist
    usage, pending, closed, retired,
    \* leaseState
    live, released,     \* leases that are held, and that were
    owner, claim, acceptReserved, bound

peerVars == <<peerUsage, slots, pendingHandshakes, established, peerClosed, sessions>>
scopeVars == <<begun, usage, pending, closed, retired>>
leaseVars == <<live, released, owner, claim, acceptReserved, bound>>
vars == <<peerVars, scopeVars, leaseVars>>

NoUsage == [bytes |-> 0, reservations |-> 0, streams |-> 0, accepts |-> 0]
Empty == [bytes |-> 0, stream |-> FALSE, accept |-> FALSE]

Init ==
    /\ peerUsage = NoUsage
    /\ slots = 0 /\ pendingHandshakes = 0 /\ established = 0
    /\ peerClosed = FALSE
    /\ sessions = {} /\ begun = {} /\ closed = {} /\ retired = {} /\ pending = {}
    /\ usage = [s \in Scopes |-> NoUsage]
    /\ live = {} /\ released = {} /\ acceptReserved = {} /\ bound = {}
    /\ owner = [l \in Leases |-> NoScope]
    /\ claim = [l \in Leases |-> Empty]

----------------------------------------------------------------------------
One(b) == IF b THEN 1 ELSE 0

AddClaim(u, c) ==
    [bytes |-> u.bytes + c.bytes, reservations |-> u.reservations + 1,
     streams |-> u.streams + One(c.stream), accepts |-> u.accepts + One(c.accept)]

SubtractClaim(u, c) ==
    [bytes |-> u.bytes - c.bytes, reservations |-> u.reservations - 1,
     streams |-> u.streams - One(c.stream), accepts |-> u.accepts - One(c.accept)]

\* checkSessionClaimLocked
FitsSession(u, c) ==
    /\ c.bytes <= MaxSessionBytes - u.bytes
    /\ c.stream => u.streams # MaxStreamsPerSession

\* checkClaimLocked
Fits(u, c) ==
    /\ FitsSession(u, c)
    /\ c.bytes <= MaxPeerBytes - peerUsage.bytes
    /\ peerUsage.reservations # MaxReservations
    /\ c.stream => peerUsage.streams # MaxPeerStreams
    /\ c.accept => peerUsage.accepts # MaxPendingAccepts

\* A new lease of s: newLease and chargeLocked.
Grant(s, l, c) ==
    /\ l \in Leases \ (live \cup released)
    /\ live' = live \cup {l}
    /\ owner' = [owner EXCEPT ![l] = s]
    /\ claim' = [claim EXCEPT ![l] = c]
    /\ acceptReserved' = IF c.accept THEN acceptReserved \cup {l} ELSE acceptReserved
    /\ peerUsage' = AddClaim(peerUsage, c)
    /\ usage' = [usage EXCEPT ![s] = AddClaim(usage[s], c)]
    /\ UNCHANGED <<released, bound>>

\* Mutant: a retired scope always counts as established.
MutantRetiresAsEstablished(ss) ==
    /\ retired' = retired \cup ss
    /\ sessions' = sessions \ ss
    /\ slots' = slots - Cardinality(ss)
    /\ established' = established - Cardinality(ss)
    /\ UNCHANGED pendingHandshakes

\* retireLocked, for the scopes that are closed, not retired and hold nothing.
Retire(ss) ==
    /\ retired' = retired \cup ss
    /\ sessions' = sessions \ ss
    /\ slots' = slots - Cardinality(ss)
    /\ pendingHandshakes' = pendingHandshakes - Cardinality(ss \cap pending)
    /\ established' = established - Cardinality(ss \ pending)

\* The scope a lease has just left, if it is to be retired.
LeftBehind(s) ==
    {x \in {s} : x \in closed /\ x \notin retired /\ usage[x].reservations = 1}

----------------------------------------------------------------------------
(* Operations                                                              *)

\* begin, for BeginHandshake (p) and BeginSession: an empty claim gets no lease.
Begin(s, l, c, p) ==
    /\ s \in Scopes \ begun
    /\ ~peerClosed
    /\ slots # MaxSessions
    /\ p => pendingHandshakes # MaxPendingHandshakes
    /\ IF c = Empty THEN UNCHANGED <<leaseVars, peerUsage, usage>>
       ELSE Fits(usage[s], c) /\ Grant(s, l, c)
    /\ begun' = begun \cup {s}
    /\ sessions' = sessions \cup {s}
    /\ slots' = slots + 1
    /\ pendingHandshakes' = pendingHandshakes + One(p)
    /\ established' = established + One(~p)
    /\ pending' = IF p THEN pending \cup {s} ELSE pending
    /\ UNCHANGED <<closed, retired, peerClosed>>

Promote(s) ==
    /\ s \in begun \cap pending
    /\ s \notin closed /\ ~peerClosed
    /\ pending' = pending \ {s}
    /\ pendingHandshakes' = pendingHandshakes - 1
    /\ established' = established + 1
    /\ UNCHANGED <<peerUsage, slots, peerClosed, sessions, begun, usage, closed,
                   retired, leaseVars>>

Reserve(s, l, c) ==
    /\ c # Empty
    /\ s \in begun \ closed /\ ~peerClosed
    /\ Fits(usage[s], c)
    /\ Grant(s, l, c)
    /\ UNCHANGED <<slots, pendingHandshakes, established, peerClosed, sessions,
                   begun, pending, closed, retired>>

\* BindBytes(lease, required) of scope s
BindBytes(s, l, required) ==
    /\ required > 0
    /\ s \in begun \ closed /\ ~peerClosed
    /\ s \notin pending
    /\ l \in live /\ owner[l] = s /\ l \notin bound
    /\ ~claim[l].stream /\ ~claim[l].accept /\ claim[l].bytes >= required
    /\ bound' = bound \cup {l}
    /\ UNCHANGED <<peerVars, scopeVars, live, released, owner, claim, acceptReserved>>

\* Mutant: the source is not charged back.
MutantKeepsSourceCharge(l, t) ==
    [usage EXCEPT ![t] = AddClaim(usage[t], claim[l])]

\* Subtracted from the source, added to the target.
MovedUsage(l, t) ==
    [usage EXCEPT ![owner[l]] = SubtractClaim(usage[owner[l]], claim[l]),
                  ![t] = AddClaim(usage[t], claim[l])]

\* Transfer to another scope (to its own owner it does nothing).
Transfer(l, t) ==
    /\ l \in live
    /\ t \in begun \ closed /\ ~peerClosed
    /\ owner[l] # t
    /\ l \notin bound
    /\ FitsSession(usage[t], claim[l])
    /\ usage' = MovedUsage(l, t)
    /\ owner' = [owner EXCEPT ![l] = t]
    /\ Retire(LeftBehind(owner[l]))
    /\ UNCHANGED <<peerUsage, peerClosed, begun, pending, closed,
                   live, released, claim, acceptReserved, bound>>

Accepted(c) == [bytes |-> c.bytes, stream |-> c.stream, accept |-> FALSE]

MarkAccepted(l) ==
    /\ l \in live
    /\ owner[l] \notin closed /\ ~peerClosed
    /\ owner[l] \notin pending
    /\ l \in acceptReserved
    /\ claim[l].accept
    /\ claim' = [claim EXCEPT ![l] = Accepted(claim[l])]
    /\ usage' = [usage EXCEPT ![owner[l]].accepts = @ - 1]
    /\ peerUsage' = [peerUsage EXCEPT !.accepts = @ - 1]
    /\ UNCHANGED <<slots, pendingHandshakes, established, peerClosed, sessions,
                   begun, pending, closed, retired,
                   live, released, owner, acceptReserved, bound>>

\* ShrinkBytes, also after Close
ShrinkBytes(l, bytes) ==
    /\ l \in live
    /\ bytes <= claim[l].bytes
    /\ LET given == claim[l].bytes - bytes IN
       /\ usage' = [usage EXCEPT ![owner[l]].bytes = @ - given]
       /\ peerUsage' = [peerUsage EXCEPT !.bytes = @ - given]
    /\ claim' = [claim EXCEPT ![l].bytes = bytes]
    /\ UNCHANGED <<slots, pendingHandshakes, established, peerClosed, sessions,
                   begun, pending, closed, retired,
                   live, released, owner, acceptReserved, bound>>

\* Mutant: the Peer gets back the claim as it was reserved, accept slot included.
MutantReleasesReservedClaim(l) ==
    SubtractClaim(peerUsage, [claim[l] EXCEPT !.accept = l \in acceptReserved])

PeerUsageWithout(l) == SubtractClaim(peerUsage, claim[l])

\* Release, also after Close; a second one does nothing.
Release(l) ==
    /\ l \in live
    /\ live' = live \ {l}
    /\ released' = released \cup {l}
    /\ owner' = [owner EXCEPT ![l] = NoScope]
    /\ claim' = [claim EXCEPT ![l] = Empty]
    /\ usage' = [usage EXCEPT ![owner[l]] = SubtractClaim(usage[owner[l]], claim[l])]
    /\ peerUsage' = PeerUsageWithout(l)
    /\ Retire(LeftBehind(owner[l]))
    /\ UNCHANGED <<peerClosed, begun, pending, closed, acceptReserved, bound>>

\* Close of a scope; a second one finds nothing to do.
Close(s) ==
    /\ s \in begun
    /\ closed' = closed \cup {s}
    /\ Retire({x \in {s} : x \notin retired /\ usage[x].reservations = 0})
    /\ UNCHANGED <<peerUsage, peerClosed, begun, usage, pending, leaseVars>>

\* Close of the Peer: every scope in the map is closed, empty ones are retired.
PeerClose ==
    /\ ~peerClosed
    /\ peerClosed' = TRUE
    /\ closed' = closed \cup sessions
    /\ Retire({s \in sessions : s \notin retired /\ usage[s].reservations = 0})
    /\ UNCHANGED <<peerUsage, begun, usage, pending, leaseVars>>

----------------------------------------------------------------------------
Next ==
    \/ \E s \in Scopes, l \in Leases, c \in Claims, p \in BOOLEAN : Begin(s, l, c, p)
    \/ \E s \in Scopes, l \in Leases, c \in Claims : Reserve(s, l, c)
    \/ \E s \in Scopes : Promote(s) \/ Close(s)
    \/ \E s \in Scopes, l \in Leases : Transfer(l, s)
    \/ \E s \in Scopes, l \in Leases, c \in Claims : BindBytes(s, l, c.bytes)
    \/ \E l \in Leases : MarkAccepted(l) \/ Release(l)
    \/ \E l \in Leases, c \in Claims : ShrinkBytes(l, c.bytes)
    \/ PeerClose

Spec == Init /\ [][Next]_vars

----------------------------------------------------------------------------
(* Properties                                                              *)

\* Types, and every ceiling of Limits: of the Peer and of each of its Sessions.
TypeOK ==
    /\ peerUsage \in [bytes : Int, reservations : Int, streams : Int, accepts : Int]
    /\ usage \in [Scopes -> [bytes : Int, reservations : Int, streams : Int, accepts : Int]]
    /\ slots \in Int /\ pendingHandshakes \in Int /\ established \in Int
    /\ peerClosed \in BOOLEAN
    /\ begun \subseteq Scopes /\ sessions \subseteq begun /\ pending \subseteq begun
    /\ closed \subseteq begun /\ retired \subseteq closed
    /\ live \subseteq Leases /\ released \subseteq Leases
    /\ owner \in [Leases -> Scopes \cup {NoScope}]
    /\ \A l \in live : owner[l] \in begun
    /\ claim \in [Leases -> [bytes : Nat, stream : BOOLEAN, accept : BOOLEAN]]
    /\ acceptReserved \subseteq Leases /\ bound \subseteq Leases
    /\ peerUsage.bytes <= MaxPeerBytes /\ peerUsage.reservations <= MaxReservations
    /\ peerUsage.streams <= MaxPeerStreams /\ peerUsage.accepts <= MaxPendingAccepts
    /\ slots <= MaxSessions /\ pendingHandshakes <= MaxPendingHandshakes
    /\ \A s \in Scopes : /\ usage[s].bytes <= MaxSessionBytes
                         /\ usage[s].streams <= MaxStreamsPerSession

Owned(s) == {l \in live : owner[l] = s}
Streams(ls) == {l \in ls : claim[l].stream}
Accepts(ls) == {l \in ls : claim[l].accept}

\* The counts of the Peer and of every scope are those of the leases they hold,
\* after any sequence of transfers, accepts, releases and closes: no slot leaks
\* and none is given back twice.
CountsExact ==
    /\ peerUsage.reservations = Cardinality(live)
    /\ peerUsage.streams = Cardinality(Streams(live))
    /\ peerUsage.accepts = Cardinality(Accepts(live))
    /\ \A s \in Scopes :
          /\ usage[s].reservations = Cardinality(Owned(s))
          /\ usage[s].streams = Cardinality(Streams(Owned(s)))
          /\ usage[s].accepts = Cardinality(Accepts(Owned(s)))

\* Likewise the bytes, and no ceiling of the Peer or of a Session is passed.
BytesExact ==
    /\ TypeOK
    /\ peerUsage.bytes = MapThenSumSet(LAMBDA l : claim[l].bytes, live)
    /\ \A s \in Scopes : usage[s].bytes = MapThenSumSet(LAMBDA l : claim[l].bytes, Owned(s))

\* A scope is retired exactly when it is closed and its last lease is gone, by
\* whichever of Release, Transfer, Close and the Peer's Close came last; until
\* then it holds its slot, as a handshake or as an established Session, and no
\* lease belongs to a scope the Peer has forgotten.
SlotsExact ==
    /\ sessions = begun \ retired
    /\ retired = {s \in closed : Owned(s) = {}}
    /\ slots = Cardinality(sessions)
    /\ pendingHandshakes = Cardinality(sessions \cap pending)
    /\ established = Cardinality(sessions \ pending)
    /\ peerClosed => closed = begun

============================================================================
