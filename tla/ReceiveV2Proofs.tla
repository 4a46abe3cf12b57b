------------------------- MODULE ReceiveV2Proofs -------------------------
(***************************************************************************)
(* Theorems about ReceiveV2 for any groups, windows, limits and timeouts.  *)
(*                                                                         *)
(* None of the invariants to be proved is inductive.  Inv says of the      *)
(* state between two calls, and of the engine state k inside one, that     *)
(*   - each list of pending entries is a chain from its head to its tail,  *)
(*     so a loop over its length meets every entry (Chained);              *)
(*   - each ring holds for every ID inside it what happened to that ID and *)
(*     to none before it at its position, since Cleared is all positions   *)
(*     the window passes (WindowOK, History);                              *)
(*   - a Datagram being reassembled has disjoint ranges and counts their   *)
(*     bytes, so the count reaches the total only when all are there;      *)
(*   - every fragment of a completed group is settled (Kept).              *)
(* Credited adds that all credit is owned, with a rest, inside AddGroup,   *)
(* that was reserved and is not yet a Datagram's (Books, Account).         *)
(* Each loop of the code is a recursive function of its rounds, and each   *)
(* is handled by Induction over them: a set of round numbers that holds 0  *)
(* and is closed under the next round is all of them.                      *)
(***************************************************************************)
EXTENDS ReceiveV2, FiniteSetTheorems, SequenceTheorems, TLAPS

----------------------------------------------------------------------------
(* Least numbers and induction                                             *)

LEMMA LeastOf ==
    ASSUME NEW S, S \subseteq Nat, S # {}
    PROVE  \E n \in S : \A m \in S : n <= m
<1> DEFINE R == {pair \in Nat \X Nat : pair[1] < pair[2]}
<1>1. IsWellFoundedOn(R, Nat)
  BY NatLessThanWellFounded, Zenon DEF OpToRel
<1>2. PICK n \in S : \A m \in S : ~(<<m, n>> \in R)
  <2> HIDE DEF R
  <2>1. QED
    BY <1>1, WFMin
<1>3. ASSUME NEW m \in S PROVE n <= m
  <2>1. m \in Nat /\ n \in Nat /\ ~(<<m, n>> \in R)
    BY <1>2
  <2>2. QED
    BY <2>1
<1>4. QED
  BY <1>2, <1>3

LEMMA Induction ==
    ASSUME NEW N \in Nat, NEW S, 0 \in S, \A n \in 1..N : n - 1 \in S => n \in S
    PROVE  \A n \in 0..N : n \in S
<1> DEFINE T == {n \in 0..N : n \notin S}
<1>1. SUFFICES ASSUME T # {} PROVE FALSE
  OBVIOUS
<1>2. PICK n \in T : \A m \in T : n <= m
  <2>1. T \subseteq Nat
    OBVIOUS
  <2> HIDE DEF T
  <2>2. QED
    BY <1>1, <2>1, LeastOf
<1>3. n # 0 /\ n \in 1..N /\ n - 1 \in 0..N /\ n - 1 < n
  BY <1>2
<1>4. n - 1 \in S
  BY <1>2, <1>3
<1>5. QED
  BY <1>2, <1>3, <1>4

----------------------------------------------------------------------------
(* Remainders                                                              *)
LEMMA ModOf ==
    ASSUME NEW n \in Int, NEW m \in Nat \ {0}
    PROVE  n = m * (n \div m) + (n % m) /\ n % m \in 0..(m - 1) /\ n \div m \in Int
OBVIOUS

LEMMA Multiples ==
    ASSUME NEW m \in Nat \ {0}, NEW a \in Int, NEW b \in Int, a < b
    PROVE  m * b >= m * a + m
<1>1. b - a - 1 \in Nat
  OBVIOUS
<1>2. m * (b - a - 1) >= 0
  BY <1>1
<1>3. QED
  BY <1>2

LEMMA ModIs ==
    ASSUME NEW n \in Int, NEW m \in Nat \ {0}, NEW q \in Int, NEW r \in 0..(m - 1), n = m * q + r
    PROVE  n % m = r
<1> DEFINE d == n \div m
           s == n % m
<1>1. n = m * d + s /\ s \in 0..(m - 1) /\ d \in Int
  BY ModOf
<1> HIDE DEF d, s
<1>2. ~(d < q)
  <2>1. SUFFICES ASSUME d < q PROVE FALSE
    OBVIOUS
  <2>2. m * q >= m * d + m
    BY <1>1, <2>1, Multiples
  <2>3. m * q \in Int /\ m * d \in Int
    BY <1>1
  <2>4. QED
    BY <1>1, <2>2, <2>3
<1>3. ~(q < d)
  <2>1. SUFFICES ASSUME q < d PROVE FALSE
    OBVIOUS
  <2>2. m * d >= m * q + m
    BY <1>1, <2>1, Multiples
  <2>3. m * q \in Int /\ m * d \in Int
    BY <1>1
  <2>4. QED
    BY <1>1, <2>2, <2>3
<1>4. d = q
  BY <1>1, <1>2, <1>3
<1>5. QED
  BY <1>1, <1>4 DEF s

\* A remainder may be taken before or after an addition.
LEMMA ModPlus ==
    ASSUME NEW a \in Int, NEW i \in Int, NEW m \in Nat \ {0}
    PROVE  ((a % m) + i) % m = (a + i) % m
<1> DEFINE q == a \div m
           s == a % m
           n == s + i
           q2 == n \div m
           r == n % m
<1>1. a = m * q + s /\ s \in 0..(m - 1) /\ q \in Int
  BY ModOf
<1>2. n \in Int /\ n = s + i
  BY <1>1
<1> HIDE DEF n
<1>3. n = m * q2 + r /\ r \in 0..(m - 1) /\ q2 \in Int
  BY <1>2, ModOf
<1> HIDE DEF q, s, q2, r
<1>4. m * (q + q2) = m * q + m * q2 /\ m * q \in Int /\ m * q2 \in Int
  BY <1>1, <1>3
<1>5. a + i = m * (q + q2) + r /\ q + q2 \in Int /\ a + i \in Int
  BY <1>1, <1>2, <1>3, <1>4
<1>6. (a + i) % m = r
  BY <1>3, <1>5, ModIs
<1>7. QED
  BY <1>6 DEF r, s, n

\* Numbers less than m apart have different remainders.
LEMMA ModApart ==
    ASSUME NEW m \in Nat \ {0}, NEW a \in Int, NEW b \in Int, a < b, b - a < m
    PROVE  a % m # b % m
<1> DEFINE p == a \div m
           q == b \div m
<1>1. a = m * p + (a % m) /\ b = m * q + (b % m) /\ p \in Int /\ q \in Int
      /\ a % m \in Int /\ b % m \in Int
  BY ModOf
<1> HIDE DEF p, q
<1>2. SUFFICES ASSUME a % m = b % m PROVE FALSE
  OBVIOUS
<1>3. m * p \in Int /\ m * q \in Int
  BY <1>1
<1>4. m * p < m * q /\ m * q < m * p + m
  BY <1>1, <1>2, <1>3
<1>5. ~(p < q)
  BY <1>1, <1>3, <1>4, Multiples
<1>6. ~(q < p)
  BY <1>1, <1>3, <1>4, Multiples
<1>7. p = q
  BY <1>1, <1>5, <1>6
<1>8. QED
  BY <1>3, <1>4, <1>7

----------------------------------------------------------------------------
(* The rings of terminal history                                           *)

Windows == [span : Nat, highest : Nat, completed : SUBSET Nat, expired : SUBSET Nat,
            completedCount : Int, expiredCount : Int]

\* A ring: its bits are positions, none is set twice, and its counts are exact.
WindowOK(w) ==
    /\ w \in Windows /\ w.span # 0
    /\ w.completed \subseteq 0..(w.span - 1) /\ w.expired \subseteq 0..(w.span - 1)
    /\ w.completed \cap w.expired = {}
    /\ w.completedCount = Cardinality(w.completed) /\ w.expiredCount = Cardinality(w.expired)

\* The positions of the r IDs from a on.
Residues(span, a, r) == {(a + i) % span : i \in 0..(r - 1)}

LEMMA WindowTypes ==
    ASSUME NEW w, WindowOK(w)
    PROVE  /\ w.span \in Nat \ {0} /\ w.highest \in Nat
           /\ w.completedCount \in Int /\ w.expiredCount \in Int
           /\ IsFiniteSet(w.completed) /\ IsFiniteSet(w.expired) /\ IsFiniteSet(0..(w.span - 1))
<1>1. w.span \in Nat \ {0} /\ w.highest \in Nat /\ w.completedCount \in Int /\ w.expiredCount \in Int
  BY DEF WindowOK, Windows
<1>2. 0 \in Int /\ w.span - 1 \in Int
  BY <1>1
<1>3. IsFiniteSet(0..(w.span - 1))
  BY <1>2, FS_Interval
<1>4. IsFiniteSet(w.completed) /\ IsFiniteSet(w.expired)
  BY <1>3, FS_Subset DEF WindowOK
<1>5. QED
  BY <1>1, <1>3, <1>4

\* A round clears at least one position and does not pass the end of the ring.
LEMMA WidthOf ==
    ASSUME NEW w, w.span \in Nat \ {0}, NEW r \in 1..(w.span - 1), NEW p \in 0..(w.span - 1)
    PROVE  /\ Width(w, p, r) \in 1..r
           /\ p + Width(w, p, r) <= w.span
<1> DEFINE t == p % WordBits
           S == {r, WordBits - t, w.span - p}
           n == Width(w, p, r)
<1>1. WordBits \in Nat \ {0} /\ p \in Int
  BY LimitsAssumption
<1>2. t \in 0..(WordBits - 1)
  BY <1>1, ModOf
<1>3. n = CHOOSE x \in S : \A y \in S : x <= y
  BY DEF Width, Min
<1> HIDE DEF t, n
<1>4. \E x \in S : \A y \in S : x <= y
  BY <1>1, <1>2
<1>5. n \in S /\ n <= r /\ n <= WordBits - t /\ n <= w.span - p
  BY <1>3, <1>4
<1>6. n \in 1..r /\ p + n <= w.span
  BY <1>1, <1>2, <1>5
<1>7. QED
  BY <1>6 DEF n

\* One round and the rest of the loop.
LEMMA ResiduesSplit ==
    ASSUME NEW span \in Nat \ {0}, NEW r \in 1..(span - 1), NEW p \in 0..(span - 1),
           NEW n \in 1..r, p + n <= span
    PROVE  Residues(span, p, r) = p..(p + n - 1) \cup Residues(span, (p + n) % span, r - n)
<1>1. p \in Nat /\ r \in Nat /\ n \in Nat
  OBVIOUS
<1>2. ASSUME NEW i \in 0..(n - 1) PROVE (p + i) % span = p + i
  <2>1. PICK x \in 0..(span - 1) : x = p + i
    BY <1>1
  <2>2. x \in Int /\ 0 \in Int /\ x = span * 0 + x
    BY <1>1, <2>1
  <2>3. x % span = x
    BY <1>1, <2>1, <2>2, ModIs
  <2>4. QED
    BY <2>1, <2>3
<1>3. ASSUME NEW i \in Int PROVE (((p + n) % span) + i) % span = (p + (n + i)) % span
  <2>1. (((p + n) % span) + i) % span = ((p + n) + i) % span
    <3> DEFINE a == p + n
    <3>1. a \in Int
      BY <1>1
    <3> HIDE DEF a
    <3>2. ((a % span) + i) % span = (a + i) % span
      BY <1>1, <3>1, ModPlus
    <3>3. QED
      BY <3>2 DEF a
  <2>2. (p + n) + i = p + (n + i)
    BY <1>1
  <2>3. QED
    BY <2>1, <2>2
<1>4. ASSUME NEW x \in Residues(span, p, r)
      PROVE  x \in p..(p + n - 1) \cup Residues(span, (p + n) % span, r - n)
  <2>1. PICK i \in 0..(r - 1) : x = (p + i) % span
    BY DEF Residues
  <2>2. CASE i < n
    BY <1>1, <1>2, <2>1, <2>2
  <2>3. CASE i >= n
    <3>1. PICK j \in 0..((r - n) - 1) : n + j = i
      BY <1>1, <2>1, <2>3
    <3>2. x = (((p + n) % span) + j) % span
      BY <1>3, <2>1, <3>1
    <3>3. QED
      BY <3>1, <3>2 DEF Residues
  <2>4. QED
    BY <1>1, <2>1, <2>2, <2>3
<1>5. ASSUME NEW x \in p..(p + n - 1) PROVE x \in Residues(span, p, r)
  <2>1. x - p \in 0..(n - 1) /\ x - p \in 0..(r - 1) /\ p + (x - p) = x
    BY <1>1
  <2>2. (p + (x - p)) % span = p + (x - p)
    BY <1>2, <2>1
  <2>3. QED
    BY <2>1, <2>2 DEF Residues
<1>6. ASSUME NEW x \in Residues(span, (p + n) % span, r - n) PROVE x \in Residues(span, p, r)
  <2>1. PICK i \in 0..((r - n) - 1) : x = (((p + n) % span) + i) % span
    BY DEF Residues
  <2>2. n + i \in 0..(r - 1) /\ i \in Int
    BY <1>1, <2>1
  <2>3. x = (p + (n + i)) % span
    BY <1>3, <2>1, <2>2
  <2>4. QED
    BY <2>2, <2>3 DEF Residues
<1>7. QED
  BY <1>4, <1>5, <1>6

\* What one round clears, given what the following ones do.
Round(w, f, r) ==
    [p \in 0..(w.span - 1) |->
        IF r = 0 THEN {}
        ELSE p..(p + Width(w, p, r) - 1) \cup f[r - Width(w, p, r)][(p + Width(w, p, r)) % w.span]]
Rounds(w, f) == f = [r \in 0..(w.span - 1) |-> Round(w, f, r)]

\* The loop clears the positions of the IDs it was started for.
LEMMA RoundsClear ==
    ASSUME NEW w, w.span \in Nat \ {0}, NEW r \in 0..(w.span - 1), NEW p \in 0..(w.span - 1)
    PROVE  (CHOOSE f : Rounds(w, f))[r][p] = Residues(w.span, p, r)
<1> DEFINE Positions == 0..(w.span - 1)
<1>2. ASSUME NEW n \in 1..(w.span - 1), NEW x \in Positions
      PROVE  /\ n - Width(w, x, n) \in 0..(n - 1)
             /\ n - Width(w, x, n) \in 0..(w.span - 1)
             /\ (x + Width(w, x, n)) % w.span \in Positions
             /\ Residues(w.span, x, n) = x..(x + Width(w, x, n) - 1)
                      \cup Residues(w.span, (x + Width(w, x, n)) % w.span, n - Width(w, x, n))
  <2> DEFINE d == Width(w, x, n)
  <2>1. d \in 1..n /\ x + d <= w.span
    BY WidthOf
  <2>2. x \in Int
    OBVIOUS
  <2> HIDE DEF d
  <2>3. n - d \in 0..(n - 1) /\ n - d \in 0..(w.span - 1) /\ x + d \in Int
    BY <2>1, <2>2
  <2>4. (x + d) % w.span \in Positions
    BY <2>3, ModOf
  <2>5. Residues(w.span, x, n) = x..(x + d - 1) \cup Residues(w.span, (x + d) % w.span, n - d)
    <3>1. PICK s \in Nat \ {0} : s = w.span
      OBVIOUS
    <3>2. \A a \in 1..(s - 1), b \in 0..(s - 1) : \A c \in 1..a : b + c <= s =>
             Residues(s, b, a) = b..(b + c - 1) \cup Residues(s, (b + c) % s, a - c)
      BY ResiduesSplit
    <3>3. n \in 1..(s - 1) /\ x \in 0..(s - 1) /\ d \in 1..n /\ x + d <= s
      BY <2>1, <3>1
    <3>4. Residues(s, x, n) = x..(x + d - 1) \cup Residues(s, (x + d) % s, n - d)
      BY <3>2, <3>3, Zenon
    <3>5. QED
      BY <3>1, <3>4
  <2>6. QED
    BY <2>3, <2>4, <2>5 DEF d
<1>3. ASSUME NEW x PROVE Residues(w.span, x, 0) = {}
  BY DEF Residues
<1>4. \E f : Rounds(w, f)
  <2> DEFINE g == [n \in 0..(w.span - 1) |-> [x \in Positions |-> Residues(w.span, x, n)]]
  <2>1. ASSUME NEW n \in 0..(w.span - 1) PROVE g[n] = Round(w, g, n)
    <3>1. ASSUME NEW x \in Positions PROVE g[n][x] = Round(w, g, n)[x]
      <4>1. CASE n = 0
        BY <1>3, <4>1 DEF Round
      <4>2. CASE n # 0
        <5>1. n \in 1..(w.span - 1)
          BY <4>2
        <5>2. QED
          BY <1>2, <4>2, <5>1 DEF Round
      <4>3. QED
        BY <4>1, <4>2
    <3>2. g[n] = [x \in Positions |-> g[n][x]]
      OBVIOUS
    <3>3. Round(w, g, n) = [x \in Positions |-> Round(w, g, n)[x]]
      BY DEF Round
    <3> HIDE DEF g
    <3>4. QED
      BY <3>1, <3>2, <3>3
  <2>2. g = [n \in 0..(w.span - 1) |-> g[n]]
    OBVIOUS
  <2> HIDE DEF g
  <2>3. g = [n \in 0..(w.span - 1) |-> Round(w, g, n)]
    BY <2>1, <2>2
  <2>4. QED
    BY <2>3 DEF Rounds
<1> DEFINE f == CHOOSE g : Rounds(w, g)
<1>5. Rounds(w, f)
  BY <1>4
<1> HIDE DEF f
<1>7. \A n \in 0..(w.span - 1) : f[n] = Round(w, f, n)
  BY <1>5 DEF Rounds
<1> DEFINE wrong == {n \in 0..(w.span - 1) : \E x \in Positions : f[n][x] # Residues(w.span, x, n)}
<1>8. SUFFICES ASSUME wrong # {} PROVE FALSE
  BY DEF f
<1>9. PICK n \in wrong : \A m \in wrong : n <= m
  <2>1. wrong \subseteq Nat
    OBVIOUS
  <2> HIDE DEF wrong
  <2>2. QED
    BY <1>8, <2>1, LeastOf
<1>10. PICK x \in Positions : f[n][x] # Residues(w.span, x, n)
  BY <1>9
<1>11. CASE n = 0
  BY <1>3, <1>7, <1>9, <1>10, <1>11 DEF Round
<1>12. CASE n # 0
  <2> DEFINE d == Width(w, x, n)
             y == (x + d) % w.span
             m == n - d
  <2>1. n \in 1..(w.span - 1)
    BY <1>9, <1>12
  <2>2. /\ m \in 0..(n - 1) /\ m \in 0..(w.span - 1) /\ y \in Positions
        /\ Residues(w.span, x, n) = x..(x + d - 1) \cup Residues(w.span, y, m)
    BY <1>2, <2>1
  <2>3. f[n][x] = x..(x + d - 1) \cup f[m][y]
    <3>1. f[n] = Round(w, f, n)
      BY <1>7, <1>9
    <3>2. Round(w, f, n)[x] = x..(x + d - 1) \cup f[m][y]
      BY <1>12 DEF Round
    <3>3. QED
      BY <3>1, <3>2
  <2> HIDE DEF d, y, m
  <2>4. ~(n <= m)
    BY <2>1, <2>2
  <2>5. f[m][y] = Residues(w.span, y, m)
    BY <1>9, <2>2, <2>4
  <2>6. QED
    BY <1>10, <2>2, <2>3, <2>5
<1>13. QED
  BY <1>11, <1>12

\* A move clears the positions of the IDs it moves over and that of no ID which
\* stays inside the window.
LEMMA MoveClears ==
    ASSUME NEW w, WindowOK(w), NEW id \in Nat, id > w.highest
    PROVE  /\ Cleared(w, id) \subseteq 0..(w.span - 1)
           /\ \A x \in Nat : x > w.highest /\ x <= id /\ x > id - w.span => x % w.span \in Cleared(w, id)
           /\ \A x \in Nat : x <= w.highest /\ x > id - w.span => x % w.span \notin Cleared(w, id)
<1> DEFINE d == id - w.highest
           a == w.highest + 1
<1>1. w.span \in Nat \ {0} /\ w.highest \in Nat
  BY WindowTypes
<1>2. d \in Nat /\ d >= 1 /\ a \in Nat
  BY <1>1
<1>6. \A x \in Int : x % w.span \in 0..(w.span - 1)
  BY <1>1, ModOf
<1>7. \A x \in Int, i \in Int : ((x % w.span) + i) % w.span = (x + i) % w.span
  BY <1>1, ModPlus
<1>3. CASE d >= w.span
  <2>1. Cleared(w, id) = 0..(w.span - 1)
    BY <1>3 DEF Cleared
  <2>2. \A x \in Nat : x % w.span \in 0..(w.span - 1)
    BY <1>6
  <2>3. \A x \in Nat : ~(x <= w.highest /\ x > id - w.span)
    BY <1>1, <1>3
  <2>4. QED
    BY <2>1, <2>2, <2>3
<1>4. CASE ~(d >= w.span)
  <2>1. d \in 0..(w.span - 1) /\ a % w.span \in 0..(w.span - 1)
    <3>1. a % w.span \in 0..(w.span - 1)
      <4> HIDE DEF a
      <4>1. QED
        BY <1>2, <1>6
    <3>2. QED
      BY <1>1, <1>2, <1>4, <3>1
  <2>2. Cleared(w, id) = (CHOOSE f : Rounds(w, f))[d][a % w.span]
    BY <1>4 DEF Cleared, Rounds, Round
  <2>3. Cleared(w, id) = Residues(w.span, a % w.span, d)
    BY <1>1, <2>1, <2>2, RoundsClear
  <2>4. Residues(w.span, a % w.span, d) = {(a + i) % w.span : i \in 0..(d - 1)}
    <3>1. \A i \in 0..(d - 1) : ((a % w.span) + i) % w.span = (a + i) % w.span
      <4> HIDE DEF a, d
      <4>1. QED
        BY <1>2, <1>7
    <3>2. QED
      BY <3>1 DEF Residues
  <2>5. Cleared(w, id) \subseteq 0..(w.span - 1)
    <3>1. \A i \in 0..(d - 1) : a + i \in Int
      BY <1>2
    <3>2. \A i \in 0..(d - 1) : (a + i) % w.span \in 0..(w.span - 1)
      BY <1>6, <3>1
    <3>3. QED
      BY <2>3, <2>4, <3>2
  <2>6. ASSUME NEW x \in Nat, x > w.highest, x <= id PROVE x % w.span \in Cleared(w, id)
    <3>1. x - a \in 0..(d - 1) /\ a + (x - a) = x
      BY <1>1, <2>6
    <3>2. QED
      BY <2>3, <2>4, <3>1
  <2>7. ASSUME NEW x \in Nat, x <= w.highest, x > id - w.span PROVE x % w.span \notin Cleared(w, id)
    <3>1. SUFFICES ASSUME NEW i \in 0..(d - 1), x % w.span = (a + i) % w.span PROVE FALSE
      BY <2>3, <2>4
    <3>2. PICK y \in Int : y = a + i
      BY <1>2
    <3>3. x < y /\ y - x < w.span
      BY <1>1, <1>2, <2>7, <3>2
    <3>4. QED
      BY <1>1, <3>1, <3>2, <3>3, ModApart
  <2>8. QED
    BY <2>5, <2>6, <2>7
<1>5. QED
  BY <1>3, <1>4

States == {"unseen", "completed", "expired", "retired"}

LEMMA StateCases ==
    ASSUME NEW w, WindowOK(w), NEW id \in Nat
    PROVE  /\ State(w, id) \in States
           /\ State(w, id) = "retired" <=> id < Floor(w)
           /\ Floor(w) \in Nat \ {0}
           /\ w.highest < w.span => Floor(w) = 1
           /\ w.highest >= w.span => Floor(w) = w.highest - w.span + 1
           /\ id > w.highest => State(w, id) = "unseen"
           /\ id >= Floor(w) /\ id <= w.highest =>
                /\ State(w, id) = "completed" <=> id % w.span \in w.completed
                /\ State(w, id) = "expired" <=> id % w.span \in w.expired
<1>1. w.span \in Nat \ {0} /\ w.highest \in Nat /\ w.completed \cap w.expired = {}
  BY WindowTypes DEF WindowOK
<1>2. /\ Floor(w) \in Nat \ {0}
      /\ w.highest < w.span => Floor(w) = 1
      /\ w.highest >= w.span => Floor(w) = w.highest - w.span + 1
  BY <1>1 DEF Floor
<1> DEFINE i == id % w.span
<1>3. State(w, id) = CASE id < Floor(w) -> "retired"
                       [] Floor(w) <= id /\ id <= w.highest /\ i \in w.completed -> "completed"
                       [] Floor(w) <= id /\ id <= w.highest /\ i \in w.expired \ w.completed -> "expired"
                       [] OTHER -> "unseen"
  BY DEF State, Index
<1> HIDE DEF i
<1>4. CASE id < Floor(w)
  <2>1. State(w, id) = "retired"
    BY <1>2, <1>3, <1>4
  <2>2. ~(id > w.highest) /\ ~(id >= Floor(w))
    BY <1>1, <1>2, <1>4
  <2>3. QED
    BY <1>2, <1>4, <2>1, <2>2 DEF States
<1>5. CASE id >= Floor(w) /\ id <= w.highest
  <2>1. i \in w.completed => State(w, id) = "completed" /\ i \notin w.expired
    BY <1>1, <1>2, <1>3, <1>5
  <2>2. i \notin w.completed /\ i \in w.expired => State(w, id) = "expired"
    BY <1>2, <1>3, <1>5
  <2>3. i \notin w.completed /\ i \notin w.expired => State(w, id) = "unseen"
    BY <1>2, <1>3, <1>5
  <2>4. ~(id < Floor(w)) /\ ~(id > w.highest)
    BY <1>1, <1>2, <1>5
  <2>5. QED
    BY <1>2, <2>1, <2>2, <2>3, <2>4 DEF States, i
<1>6. CASE id > w.highest
  <2>1. ~(id < Floor(w)) /\ ~(id <= w.highest)
    BY <1>1, <1>2, <1>6
  <2>2. State(w, id) = "unseen"
    BY <1>3, <2>1
  <2>3. QED
    BY <1>2, <2>1, <2>2 DEF States
<1>7. QED
  BY <1>1, <1>2, <1>4, <1>5, <1>6

\* What Admit does to a ring whose owner found id unseen.
LEMMA AdmitState ==
    ASSUME NEW w, WindowOK(w), NEW id \in Nat, State(w, id) = "unseen"
    PROVE  LET n == Admit(w, id)
           IN  /\ WindowOK(n) /\ n.span = w.span
               /\ n.highest >= w.highest /\ n.highest >= id
               /\ State(n, id) = "unseen"
               /\ \A x \in Nat : State(n, x) \in {State(w, x), "retired"}
               /\ \A x \in Nat : State(w, x) = "retired" => State(n, x) = "retired"
               /\ \A x \in Nat : x > id => State(n, x) = State(w, x)
<1> DEFINE n == Admit(w, id)
           gone == Cleared(w, id)
<1>1. w.span \in Nat \ {0} /\ w.highest \in Nat /\ IsFiniteSet(w.completed) /\ IsFiniteSet(w.expired)
  BY WindowTypes
<1>2. CASE id <= w.highest
  <2>1. n = w
    BY <1>2 DEF Admit
  <2> HIDE DEF n
  <2>2. QED
    BY <1>1, <1>2, <2>1 DEF n
<1>3. CASE id > w.highest
  <2>1. n = [w EXCEPT !.highest = id,
                      !.completed = w.completed \ gone, !.expired = w.expired \ gone,
                      !.completedCount = w.completedCount - Cardinality(w.completed \cap gone),
                      !.expiredCount = w.expiredCount - Cardinality(w.expired \cap gone)]
    <3>1. ~(State(w, id) # "unseen" \/ id <= w.highest)
      BY <1>1, <1>3
    <3>2. QED
      BY <3>1 DEF Admit
  <2> HIDE DEF n, gone
  <2>2. /\ n.span = w.span /\ n.highest = id
        /\ n.completed = w.completed \ gone /\ n.expired = w.expired \ gone
        /\ n.completedCount = w.completedCount - Cardinality(w.completed \cap gone)
        /\ n.expiredCount = w.expiredCount - Cardinality(w.expired \cap gone)
    BY <2>1 DEF WindowOK, Windows
  <2>3. WindowOK(n)
    <3>1. ASSUME NEW S, IsFiniteSet(S)
          PROVE  Cardinality(S \ gone) = Cardinality(S) - Cardinality(S \cap gone)
                 /\ Cardinality(S \cap gone) \in Nat /\ Cardinality(S) \in Nat
      <4>1. IsFiniteSet(S \cap gone) /\ S \ gone = S \ (S \cap gone)
        BY <3>1, FS_Subset
      <4>2. Cardinality(S \ gone) = Cardinality(S) - Cardinality(S \cap (S \cap gone))
        BY <3>1, <4>1, FS_Difference
      <4>3. S \cap (S \cap gone) = S \cap gone
        OBVIOUS
      <4>4. QED
        BY <3>1, <4>1, <4>2, <4>3, FS_CardinalityType
    <3>2. n.completedCount = Cardinality(n.completed) /\ n.expiredCount = Cardinality(n.expired)
          /\ n.completedCount \in Int /\ n.expiredCount \in Int
      <4>1. /\ Cardinality(w.completed \ gone)
                 = Cardinality(w.completed) - Cardinality(w.completed \cap gone)
            /\ Cardinality(w.expired \ gone) = Cardinality(w.expired) - Cardinality(w.expired \cap gone)
            /\ Cardinality(w.completed \cap gone) \in Nat /\ Cardinality(w.completed) \in Nat
            /\ Cardinality(w.expired \cap gone) \in Nat /\ Cardinality(w.expired) \in Nat
        BY <1>1, <3>1
      <4>2. w.completedCount = Cardinality(w.completed) /\ w.expiredCount = Cardinality(w.expired)
        BY DEF WindowOK
      <4>3. QED
        BY <2>2, <4>1, <4>2
    <3>3. n \in Windows
      <4>1. w \in Windows /\ n.completed \in SUBSET Nat /\ n.expired \in SUBSET Nat
        BY <2>2 DEF WindowOK, Windows
      <4>2. w.completed \ gone \in SUBSET Nat /\ w.expired \ gone \in SUBSET Nat
            /\ w.completedCount - Cardinality(w.completed \cap gone) \in Int
            /\ w.expiredCount - Cardinality(w.expired \cap gone) \in Int
        BY <2>2, <3>2, <4>1
      <4>3. QED
        BY <2>1, <4>1, <4>2 DEF Windows
    <3>4. QED
      BY <2>2, <3>2, <3>3 DEF WindowOK
  <2>4. /\ gone \subseteq 0..(w.span - 1)
        /\ \A x \in Nat : x > w.highest /\ x <= id /\ x > id - w.span => x % w.span \in gone
        /\ \A x \in Nat : x <= w.highest /\ x > id - w.span => x % w.span \notin gone
    BY <1>3, MoveClears DEF gone
  <2>5. Floor(n) \in Nat /\ Floor(w) \in Nat /\ Floor(n) >= Floor(w)
        /\ (id < w.span => Floor(n) = 1) /\ (id >= w.span => Floor(n) = id - w.span + 1)
    <3>1. /\ Floor(w) \in Nat \ {0} /\ (w.highest < w.span => Floor(w) = 1)
          /\ (w.highest >= w.span => Floor(w) = w.highest - w.span + 1)
      BY StateCases
    <3>2. /\ Floor(n) \in Nat \ {0} /\ (n.highest < n.span => Floor(n) = 1)
          /\ (n.highest >= n.span => Floor(n) = n.highest - n.span + 1)
      BY <2>3, StateCases
    <3>3. QED
      BY <1>1, <1>3, <2>2, <3>1, <3>2
  <2>6. ASSUME NEW x \in Nat
        PROVE  /\ State(n, x) \in {State(w, x), "retired"}
               /\ State(w, x) = "retired" => State(n, x) = "retired"
               /\ x >= id => State(n, x) = "unseen"
    <3>1. State(n, x) = "retired" <=> x < Floor(n)
      BY <2>3, StateCases
    <3>2. State(w, x) = "retired" <=> x < Floor(w)
      BY StateCases
    <3>3. CASE x < Floor(n)
      <4>1. ~(x >= id)
        BY <1>1, <1>3, <2>5, <3>3
      <4>2. QED
        BY <2>5, <3>1, <3>2, <3>3, <4>1
    <3>4. CASE x >= Floor(n) /\ x <= w.highest
      <4>1. x >= Floor(w) /\ x <= id /\ x > id - w.span /\ ~(x >= id) /\ ~(x < Floor(w))
        BY <1>1, <1>3, <2>5, <3>4
      <4>2. x % w.span \notin gone
        BY <2>4, <3>4, <4>1
      <4>3. /\ State(n, x) \in States
            /\ State(n, x) = "completed" <=> x % w.span \in w.completed
            /\ State(n, x) = "expired" <=> x % w.span \in w.expired
        <5>1. /\ State(n, x) \in States
              /\ State(n, x) = "completed" <=> x % n.span \in n.completed
              /\ State(n, x) = "expired" <=> x % n.span \in n.expired
          BY <2>2, <2>3, <3>4, <4>1, StateCases
        <5>2. QED
          BY <2>2, <4>2, <5>1
      <4>4. /\ State(w, x) \in States
            /\ State(w, x) = "completed" <=> x % w.span \in w.completed
            /\ State(w, x) = "expired" <=> x % w.span \in w.expired
        BY <3>4, <4>1, StateCases
      <4>5. State(n, x) # "retired" /\ State(w, x) # "retired"
        BY <2>5, <3>1, <3>2, <3>4, <4>1
      <4>6. State(n, x) = State(w, x)
        BY <4>3, <4>4, <4>5 DEF States
      <4>7. QED
        BY <4>1, <4>5, <4>6
    <3>5. CASE x >= Floor(n) /\ x > w.highest /\ x <= id
      <4>1. x > id - w.span /\ ~(x < Floor(n)) /\ x <= n.highest
        BY <1>1, <1>3, <2>2, <2>5, <3>5
      <4>2. x % w.span \in gone
        BY <2>4, <3>5, <4>1
      <4>3. /\ State(n, x) \in States
            /\ State(n, x) = "completed" <=> x % n.span \in n.completed
            /\ State(n, x) = "expired" <=> x % n.span \in n.expired
        BY <2>3, <3>5, <4>1, StateCases
      <4>4. State(n, x) = "unseen"
        BY <2>2, <3>1, <4>1, <4>2, <4>3 DEF States
      <4>5. State(w, x) = "unseen"
        BY <3>5, StateCases
      <4>6. QED
        BY <4>4, <4>5
    <3>6. CASE x > id
      <4>1. x > n.highest /\ x > w.highest
        BY <1>1, <1>3, <2>2, <3>6
      <4>2. State(n, x) = "unseen" /\ State(w, x) = "unseen"
        BY <2>3, <4>1, StateCases
      <4>3. QED
        BY <4>2
    <3>7. QED
      BY <1>1, <1>3, <2>5, <3>3, <3>4, <3>5, <3>6
  <2>7. ASSUME NEW x \in Nat, x > id PROVE State(n, x) = State(w, x)
    <3>1. State(n, x) = "unseen"
      BY <2>6, <2>7
    <3>2. x > w.highest
      BY <1>1, <1>3, <2>7
    <3>3. QED
      BY <3>1, <3>2, StateCases
  <2>8. State(n, id) = "unseen" /\ n.highest >= w.highest /\ n.highest >= id
    BY <1>1, <1>3, <2>2, <2>6
  <2>9. QED
    BY <2>2, <2>3, <2>6, <2>7, <2>8 DEF n
<1>4. QED
  BY <1>1, <1>2, <1>3

\* What Finish does to an ID that was admitted and is not over.
LEMMA FinishState ==
    ASSUME NEW w, WindowOK(w), NEW id \in Nat, id <= w.highest, State(w, id) \in {"unseen", "retired"},
           NEW t \in {"completed", "expired"}
    PROVE  LET n == Finish(w, id, t)
           IN  /\ WindowOK(n) /\ n.span = w.span /\ n.highest = w.highest
               /\ State(n, id) \in {t, "retired"}
               /\ \A x \in Nat : x # id => State(n, x) = State(w, x)
<1> DEFINE n == Finish(w, id, t)
           i == id % w.span
<1>1. w.span \in Nat \ {0} /\ w.highest \in Nat /\ IsFiniteSet(w.completed) /\ IsFiniteSet(w.expired)
  BY WindowTypes
<1>2. CASE State(w, id) = "retired"
  <2>1. n = w
    BY <1>2 DEF Finish
  <2> HIDE DEF n
  <2>2. QED
    BY <1>2, <2>1 DEF n
<1>3. CASE State(w, id) = "unseen"
  <2>1. id >= Floor(w) /\ Floor(w) \in Nat \ {0}
    <3>1. State(w, id) # "retired"
      BY <1>3
    <3>2. QED
      BY <3>1, StateCases
  <2>2. i \notin w.completed /\ i \notin w.expired
    <3>1. State(w, id) # "completed" /\ State(w, id) # "expired"
      BY <1>3
    <3>2. QED
      BY <2>1, <3>1, StateCases
  <2>3. i \in 0..(w.span - 1)
    <3>1. \A x \in Int : x % w.span \in 0..(w.span - 1)
      BY <1>1, ModOf
    <3>2. QED
      BY <3>1
  <2>4. n = IF t = "completed"
            THEN [w EXCEPT !.completed = w.completed \cup {i}, !.completedCount = w.completedCount + 1]
            ELSE [w EXCEPT !.expired = w.expired \cup {i}, !.expiredCount = w.expiredCount + 1]
    <3>1. ~(id > w.highest \/ State(w, id) # "unseen")
      BY <1>1, <1>3
    <3>2. QED
      BY <3>1 DEF Finish, Index
  <2> HIDE DEF n, i
  <2>5. /\ n.span = w.span /\ n.highest = w.highest
        /\ n.completed = (IF t = "completed" THEN w.completed \cup {i} ELSE w.completed)
        /\ n.expired = (IF t = "completed" THEN w.expired ELSE w.expired \cup {i})
        /\ n.completedCount = (IF t = "completed" THEN w.completedCount + 1 ELSE w.completedCount)
        /\ n.expiredCount = (IF t = "completed" THEN w.expiredCount ELSE w.expiredCount + 1)
        /\ n \in Windows
    <3>1. w \in Windows /\ i \in Nat
      BY <1>1, <2>3 DEF WindowOK
    <3>2. w.completed \cup {i} \in SUBSET Nat /\ w.expired \cup {i} \in SUBSET Nat
          /\ w.completedCount + 1 \in Int /\ w.expiredCount + 1 \in Int
      BY <3>1 DEF Windows
    <3>3. CASE t = "completed"
      BY <2>4, <3>1, <3>2, <3>3 DEF Windows
    <3>4. CASE t # "completed"
      BY <2>4, <3>1, <3>2, <3>4 DEF Windows
    <3>5. QED
      BY <3>3, <3>4
  <2>6. WindowOK(n)
    <3>1. Cardinality(w.completed \cup {i}) = Cardinality(w.completed) + 1
          /\ Cardinality(w.expired \cup {i}) = Cardinality(w.expired) + 1
      BY <1>1, <2>2, FS_AddElement
    <3>2. n.completedCount = Cardinality(n.completed) /\ n.expiredCount = Cardinality(n.expired)
      BY <2>5, <3>1 DEF WindowOK
    <3>3. QED
      BY <2>2, <2>3, <2>5, <3>2 DEF WindowOK
  <2>7. Floor(n) = Floor(w)
    BY <2>5 DEF Floor
  <2>8. State(n, id) = t
    <3>1. id >= Floor(n) /\ id <= n.highest
      BY <2>1, <2>5, <2>7
    <3>2. /\ State(n, id) = "completed" <=> i \in n.completed
          /\ State(n, id) = "expired" <=> i \in n.expired
      BY <2>5, <2>6, <3>1, StateCases DEF i
    <3>3. QED
      BY <2>5, <3>2
  <2>9. ASSUME NEW x \in Nat, x # id PROVE State(n, x) = State(w, x)
    <3>1. CASE x < Floor(w)
      BY <2>6, <2>7, <3>1, StateCases
    <3>2. CASE x > w.highest
      BY <2>5, <2>6, <3>2, StateCases
    <3>3. CASE x >= Floor(w) /\ x <= w.highest
      <4>1. x % w.span # i
        <5>1. /\ w.highest < w.span => Floor(w) = 1
              /\ w.highest >= w.span => Floor(w) = w.highest - w.span + 1
          BY StateCases
        <5>2. CASE x < id
          <6>1. id - x < w.span /\ x \in Int /\ id \in Int
            BY <1>1, <2>1, <3>3, <5>1
          <6>2. QED
            BY <1>1, <5>2, <6>1, ModApart DEF i
        <5>3. CASE id < x
          <6>1. x - id < w.span /\ x \in Int /\ id \in Int
            BY <1>1, <2>1, <3>3, <5>1
          <6>2. QED
            BY <1>1, <5>3, <6>1, ModApart DEF i
        <5>4. QED
          BY <2>9, <5>2, <5>3
      <4>2. /\ State(n, x) \in States
            /\ State(n, x) = "retired" <=> x < Floor(n)
            /\ State(n, x) = "completed" <=> x % n.span \in n.completed
            /\ State(n, x) = "expired" <=> x % n.span \in n.expired
        BY <2>5, <2>6, <2>7, <3>3, StateCases
      <4>3. /\ State(w, x) \in States
            /\ State(w, x) = "retired" <=> x < Floor(w)
            /\ State(w, x) = "completed" <=> x % w.span \in w.completed
            /\ State(w, x) = "expired" <=> x % w.span \in w.expired
        BY <3>3, StateCases
      <4>4. (x % n.span \in n.completed <=> x % w.span \in w.completed)
            /\ (x % n.span \in n.expired <=> x % w.span \in w.expired)
        BY <2>5, <4>1
      <4>5. QED
        BY <2>7, <4>2, <4>3, <4>4 DEF States
    <3>4. QED
      BY <1>1, <2>1, <3>1, <3>2, <3>3
  <2>10. QED
    BY <2>5, <2>6, <2>8, <2>9 DEF n
<1>4. QED
  BY <1>2, <1>3

LEMMA NewWindowFacts ==
    ASSUME NEW span \in Nat \ {0}
    PROVE  LET w == NewWindow(span)
           IN  /\ WindowOK(w) /\ w.span = span /\ w.highest = 0
               /\ \A x \in Nat \ {0} : State(w, x) = "unseen"
<1> DEFINE w == NewWindow(span)
<1>1. /\ w \in Windows /\ w.span = span /\ w.highest = 0 /\ w.completed = {} /\ w.expired = {}
      /\ w.completedCount = 0 /\ w.expiredCount = 0
  BY DEF NewWindow, Windows
<1> HIDE DEF w
<1>2. WindowOK(w)
  BY <1>1, FS_EmptySet DEF WindowOK
<1>3. \A x \in Nat \ {0} : x > w.highest
  BY <1>1
<1>4. QED
  BY <1>1, <1>2, <1>3, StateCases DEF w

----------------------------------------------------------------------------
(* Lists of pending entries                                                *)

IDs == Nat \ {0}
Maps(E) == UNION {[S -> E] : S \in SUBSET IDs}
Lists(E) == [map : Maps(E), previous : Maps(Nat), next : Maps(Nat), head : Nat, tail : Nat]
Aged(E) == \A e \in E : e.age \in Nat

\* q lists the n entries in the order of their admission, oldest first.
Ordered(list, q, n) ==
    /\ q \in [1..n -> Pending(list)]
    /\ \A x \in Pending(list) : \E i \in 1..n : q[i] = x
    /\ \A i, j \in 1..n : q[i] = q[j] => i = j
    /\ \A i \in 1..n : list.next[q[i]] = IF i = n THEN 0 ELSE q[i + 1]
    /\ \A i \in 1..n : list.previous[q[i]] = IF i = 1 THEN 0 ELSE q[i - 1]
    /\ \A i, j \in 1..n : i <= j => list.map[q[i]].age >= list.map[q[j]].age
    /\ list.head = IF n = 0 THEN 0 ELSE q[1]
    /\ list.tail = IF n = 0 THEN 0 ELSE q[n]
Chained(list) == \E n \in Nat : \E q : Ordered(list, q, n)

LEMMA ListFacts ==
    ASSUME NEW E, NEW list \in Lists(E)
    PROVE  /\ Pending(list) \subseteq IDs /\ list.map \in [Pending(list) -> E]
           /\ \A x \in Pending(list) : list.map[x] \in E
           /\ list.head \in Nat /\ list.tail \in Nat
<1>1. list.map \in Maps(E) /\ list.head \in Nat /\ list.tail \in Nat
  BY DEF Lists
<1>2. PICK S \in SUBSET IDs : list.map \in [S -> E]
  BY <1>1 DEF Maps
<1>3. Pending(list) = S
  BY <1>2 DEF Pending
<1>4. QED
  BY <1>1, <1>2, <1>3

LEMMA ListMade ==
    ASSUME NEW E, NEW S \in SUBSET IDs, NEW m \in [S -> E], NEW p \in [S -> Nat], NEW q \in [S -> Nat],
           NEW h \in Nat, NEW t \in Nat
    PROVE  LET list == [map |-> m, previous |-> p, next |-> q, head |-> h, tail |-> t]
           IN  /\ list \in Lists(E) /\ Pending(list) = S
               /\ list.map = m /\ list.previous = p /\ list.next = q /\ list.head = h /\ list.tail = t
<1>1. m \in Maps(E) /\ p \in Maps(Nat) /\ q \in Maps(Nat)
  BY DEF Maps
<1>2. DOMAIN m = S
  OBVIOUS
<1>3. QED
  BY <1>1, <1>2 DEF Lists, Pending

LEMMA OrderCount ==
    ASSUME NEW E, NEW list \in Lists(E), NEW n \in Nat, NEW q, Ordered(list, q, n)
    PROVE  IsFiniteSet(Pending(list)) /\ Cardinality(Pending(list)) = n
<1>1. 1 \in Int /\ n \in Int
  OBVIOUS
<1>2. IsFiniteSet(1..n) /\ Cardinality(1..n) = IF 1 > n THEN 0 ELSE n - 1 + 1
  BY <1>1, FS_Interval
<1>3. q \in Bijection(1..n, Pending(list))
  <2>1. q \in [1..n -> Pending(list)]
    BY DEF Ordered
  <2>2. \A i, j \in 1..n : q[i] = q[j] => i = j
    BY DEF Ordered
  <2>3. \A x \in Pending(list) : \E i \in 1..n : q[i] = x
    BY DEF Ordered
  <2>4. QED
    BY <2>1, <2>2, <2>3 DEF Bijection, Injection, Surjection, IsInjective
<1>4. ExistsBijection(1..n, Pending(list))
  BY <1>3 DEF ExistsBijection
<1>5. IsFiniteSet(Pending(list)) /\ Cardinality(Pending(list)) = Cardinality(1..n)
  BY <1>2, <1>4, FS_Bijection
<1>6. QED
  BY <1>2, <1>5

\* The head of a list that is not empty is an entry.
LEMMA HeadFacts ==
    ASSUME NEW E, NEW list \in Lists(E), Chained(list)
    PROVE  /\ IsFiniteSet(Pending(list))
           /\ list.head # 0 => list.head \in Pending(list)
           /\ list.head = 0 => Pending(list) = {}
<1>1a. PICK n \in Nat : \E q : Ordered(list, q, n)
  BY DEF Chained
<1>1. PICK q : n \in Nat /\ Ordered(list, q, n)
  BY <1>1a
<1>2. CASE n = 0
  <2>1. list.head = 0 /\ \A x \in Pending(list) : \E i \in 1..n : q[i] = x
    BY <1>1, <1>2 DEF Ordered
  <2>2. QED
    BY <1>1, <1>2, <2>1, OrderCount
<1>3. CASE n # 0
  <2>1. list.head = q[1] /\ q[1] \in Pending(list)
    BY <1>1, <1>3 DEF Ordered
  <2>2. list.head # 0
    BY <2>1, ListFacts DEF IDs
  <2>3. QED
    BY <1>1, <2>1, <2>2, OrderCount
<1>4. QED
  BY <1>2, <1>3

LEMMA EmptyFacts ==
    ASSUME NEW E
    PROVE  Empty \in Lists(E) /\ Pending(Empty) = {} /\ Chained(Empty)
<1>0. \A T : <<>> \in [{} -> T]
  OBVIOUS
<1>1. <<>> \in [{} -> E] /\ <<>> \in [{} -> Nat]
  BY <1>0, Zenon
<1>2. {} \in SUBSET IDs
  OBVIOUS
<1>3. Empty \in Lists(E) /\ Pending(Empty) = {} /\ Empty.head = 0 /\ Empty.tail = 0
  <2> DEFINE m == <<>>
  <2>1. Empty = [map |-> m, previous |-> m, next |-> m, head |-> 0, tail |-> 0]
    BY DEF Empty
  <2>2. m \in [{} -> E] /\ m \in [{} -> Nat]
    BY <1>1
  <2> HIDE DEF m
  <2> DEFINE e == [map |-> m, previous |-> m, next |-> m, head |-> 0, tail |-> 0]
  <2>3. m \in Maps(E) /\ m \in Maps(Nat) /\ DOMAIN m = {}
    BY <1>2, <2>2 DEF Maps
  <2>4. e \in Lists(E) /\ Pending(e) = {} /\ e.head = 0 /\ e.tail = 0
    BY <2>3 DEF Lists, Pending
  <2> HIDE DEF e
  <2>5. Empty = e
    BY <2>1 DEF e
  <2>6. QED
    BY <2>4, <2>5
<1>4. Ordered(Empty, [i \in 1..0 |-> 0], 0)
  BY <1>3 DEF Ordered
<1>5. QED
  BY <1>3, <1>4 DEF Chained

LEMMA OrderedNat ==
    ASSUME NEW E, NEW list \in Lists(E), NEW n \in Nat, NEW q, Ordered(list, q, n)
    PROVE  \A x \in Pending(list) : list.previous[x] \in Nat /\ list.next[x] \in Nat
<1>1. ASSUME NEW x \in Pending(list) PROVE list.previous[x] \in Nat /\ list.next[x] \in Nat
  <2>1. PICK i \in 1..n : q[i] = x
    BY DEF Ordered
  <2>2. /\ list.next[x] = IF i = n THEN 0 ELSE q[i + 1]
        /\ list.previous[x] = IF i = 1 THEN 0 ELSE q[i - 1]
    BY <2>1 DEF Ordered
  <2>3. \A j \in 1..n : q[j] \in Nat
    BY ListFacts DEF IDs, Ordered
  <2>4. (i # n => i + 1 \in 1..n) /\ (i # 1 => i - 1 \in 1..n)
    BY <2>1
  <2>5. QED
    BY <2>2, <2>3, <2>4
<1>2. QED
  BY <1>1

\* insertGroup and addPending.
LEMMA LinkFacts ==
    ASSUME NEW E, Aged(E), NEW list \in Lists(E), Chained(list),
           NEW id \in IDs, id \notin Pending(list), NEW entry \in E, entry.age = 0
    PROVE  LET new == Link(list, id, entry)
           IN  /\ new \in Lists(E) /\ Chained(new) /\ Pending(new) = Pending(list) \cup {id}
               /\ new.map[id] = entry
               /\ \A x \in Pending(list) : new.map[x] = list.map[x]
<1> DEFINE new == Link(list, id, entry)
           S == Pending(list) \cup {id}
           m == [x \in S |-> IF x = id THEN entry ELSE list.map[x]]
           b == [x \in S |-> IF x = id THEN list.tail ELSE list.previous[x]]
           a == [x \in S |-> IF x = id THEN 0 ELSE IF x = list.tail THEN id ELSE list.next[x]]
           h == IF list.tail = 0 THEN id ELSE list.head
<1>1. /\ Pending(list) \subseteq IDs /\ \A x \in Pending(list) : list.map[x] \in E
      /\ list.head \in Nat /\ list.tail \in Nat /\ id \in Nat /\ id # 0
  BY ListFacts DEF IDs
<1>2. new = [map |-> m, previous |-> b, next |-> a, head |-> h, tail |-> id]
  BY DEF Link
<1>3a. PICK n \in Nat : \E q : Ordered(list, q, n)
  BY DEF Chained
<1>3. PICK q : n \in Nat /\ Ordered(list, q, n)
  BY <1>3a
<1>4. \A x \in Pending(list) : list.previous[x] \in Nat /\ list.next[x] \in Nat
  BY <1>3, OrderedNat
<1>5. m \in [S -> E] /\ b \in [S -> Nat] /\ a \in [S -> Nat] /\ S \in SUBSET IDs /\ h \in Nat
  BY <1>1, <1>4
<1>6. \A x \in Pending(list) : x # id /\ m[x] = list.map[x] /\ b[x] = list.previous[x]
                               /\ a[x] = IF x = list.tail THEN id ELSE list.next[x]
  OBVIOUS
<1>7. m[id] = entry /\ b[id] = list.tail /\ a[id] = 0
  OBVIOUS
<1> HIDE DEF m, h, new, a, b
<1>8. /\ new \in Lists(E) /\ Pending(new) = S /\ new.map = m /\ new.previous = b /\ new.next = a
      /\ new.head = h /\ new.tail = id
  BY <1>1, <1>2, <1>5, ListMade
<1> DEFINE p == [i \in 1..(n + 1) |-> IF i = n + 1 THEN id ELSE q[i]]
<1>9. /\ q \in [1..n -> Pending(list)]
      /\ \A x \in Pending(list) : \E i \in 1..n : q[i] = x
      /\ \A i, j \in 1..n : q[i] = q[j] => i = j
      /\ list.head = IF n = 0 THEN 0 ELSE q[1]
      /\ list.tail = IF n = 0 THEN 0 ELSE q[n]
  BY <1>3 DEF Ordered
<1>10. /\ \A i \in 1..n : list.next[q[i]] = IF i = n THEN 0 ELSE q[i + 1]
       /\ \A i \in 1..n : list.previous[q[i]] = IF i = 1 THEN 0 ELSE q[i - 1]
       /\ \A i, j \in 1..n : i <= j => list.map[q[i]].age >= list.map[q[j]].age
  BY <1>3 DEF Ordered
<1>11. \A i \in 1..n : p[i] = q[i] /\ q[i] \in Pending(list) /\ i # n + 1
  BY <1>9
<1>12. p[n + 1] = id /\ n + 1 \in 1..(n + 1)
  OBVIOUS
<1>13. \A i \in 1..(n + 1) : i = n + 1 \/ i \in 1..n
  OBVIOUS
<1>14. p \in [1..(n + 1) -> S]
  <2>1. \A i \in 1..(n + 1) : p[i] \in S
    BY <1>11, <1>12, <1>13
  <2>2. p = [i \in 1..(n + 1) |-> p[i]]
    OBVIOUS
  <2> HIDE DEF p, S
  <2>3. QED
    BY <2>1, <2>2
<1> HIDE DEF p
<1>15. \A x \in S : \E i \in 1..(n + 1) : p[i] = x
  <2>1. ASSUME NEW x \in Pending(list) PROVE \E i \in 1..(n + 1) : p[i] = x
    <3>1. PICK i \in 1..n : q[i] = x
      BY <1>9
    <3>2. i \in 1..(n + 1)
      BY <3>1
    <3>3. QED
      BY <1>11, <3>1, <3>2
  <2>2. QED
    BY <1>12, <2>1
<1>16. \A i, j \in 1..(n + 1) : p[i] = p[j] => i = j
  BY <1>9, <1>11, <1>12, <1>13
<1>17. ASSUME NEW i \in 1..(n + 1) PROVE a[p[i]] = IF i = n + 1 THEN 0 ELSE p[i + 1]
  <2>1. CASE i = n + 1
    BY <1>7, <1>12, <2>1
  <2>2. CASE i \in 1..n /\ i = n
    <3>1. list.tail = q[n] /\ p[i] = q[n] /\ p[i] \in Pending(list) /\ i # n + 1 /\ p[i + 1] = id
      BY <1>9, <1>11, <1>12, <2>2
    <3>2. QED
      BY <1>6, <3>1
  <2>3. CASE i \in 1..n /\ i # n
    <3>1. list.tail = q[n] /\ n \in 1..n /\ q[i] # q[n] /\ i + 1 \in 1..n /\ i # n + 1
      BY <1>9, <2>3
    <3>2. a[p[i]] = list.next[q[i]]
      BY <1>6, <1>11, <2>3, <3>1
    <3>3. list.next[q[i]] = q[i + 1] /\ p[i + 1] = q[i + 1]
      BY <1>10, <1>11, <2>3, <3>1
    <3>4. QED
      BY <3>1, <3>2, <3>3
  <2>4. QED
    BY <1>13, <2>1, <2>2, <2>3
<1>18. ASSUME NEW i \in 1..(n + 1) PROVE b[p[i]] = IF i = 1 THEN 0 ELSE p[i - 1]
  <2>1. CASE i = n + 1 /\ n = 0
    BY <1>7, <1>9, <1>12, <2>1
  <2>2. CASE i = n + 1 /\ n # 0
    <3>1. n \in 1..n /\ i # 1 /\ i - 1 = n
      BY <2>2
    <3>2. b[p[i]] = q[n] /\ p[n] = q[n]
      BY <1>7, <1>9, <1>11, <1>12, <2>2, <3>1
    <3>3. QED
      BY <3>1, <3>2
  <2>3. CASE i \in 1..n
    <3>1. b[p[i]] = IF i = 1 THEN 0 ELSE q[i - 1]
      BY <1>6, <1>10, <1>11, <2>3
    <3>2. i # 1 => i - 1 \in 1..n
      BY <2>3
    <3>3. QED
      BY <1>11, <3>1, <3>2
  <2>4. QED
    BY <1>13, <2>1, <2>2, <2>3
<1>19. ASSUME NEW i \in 1..(n + 1), NEW j \in 1..(n + 1), i <= j PROVE m[p[i]].age >= m[p[j]].age
  <2>1. \A x \in 1..n : m[p[x]].age = list.map[q[x]].age /\ list.map[q[x]].age \in Nat
    BY <1>1, <1>6, <1>11 DEF Aged
  <2>2. CASE j = n + 1
    <3>1. m[p[j]].age = 0
      BY <1>7, <1>12, <2>2
    <3>2. m[p[i]].age \in Nat
      BY <1>7, <1>12, <1>13, <2>1
    <3>3. QED
      BY <3>1, <3>2
  <2>3. CASE j \in 1..n
    <3>1. i \in 1..n
      BY <1>19, <2>3
    <3>2. QED
      BY <1>10, <1>19, <2>1, <2>3, <3>1
  <2>4. QED
    BY <1>13, <2>2, <2>3
<1>20. h = p[1]
  <2>1. CASE n = 0
    BY <1>9, <1>12, <2>1 DEF h
  <2>2. CASE n # 0
    <3>1. 1 \in 1..n /\ n \in 1..n
      BY <2>2
    <3>2. q[n] \in IDs
      BY <1>1, <1>11, <3>1
    <3>3. list.tail # 0 /\ list.head = q[1]
      BY <1>9, <2>2, <3>2 DEF IDs
    <3>4. QED
      BY <1>11, <3>1, <3>3 DEF h
  <2>3. QED
    BY <2>1, <2>2
<1>21. Ordered(new, p, n + 1)
  <2>1. n + 1 # 0
    OBVIOUS
  <2>2. QED
    BY <1>8, <1>12, <1>14, <1>15, <1>16, <1>17, <1>18, <1>19, <1>20, <2>1 DEF Ordered
<1>22. Chained(new)
  <2>1. n + 1 \in Nat
    OBVIOUS
  <2>2. QED
    BY <1>21, <2>1 DEF Chained
<1>23. QED
  BY <1>6, <1>7, <1>8, <1>22 DEF new

\* releaseGroup and removePending.
LEMMA UnlinkFacts ==
    ASSUME NEW E, Aged(E), NEW list \in Lists(E), Chained(list), NEW id \in Pending(list)
    PROVE  LET new == Unlink(list, id)
           IN  /\ new \in Lists(E) /\ Chained(new) /\ Pending(new) = Pending(list) \ {id}
               /\ \A x \in Pending(list) \ {id} : new.map[x] = list.map[x]
<1> DEFINE new == Unlink(list, id)
           S == Pending(list) \ {id}
           before == list.previous[id]
           behind == list.next[id]
           m == [x \in S |-> list.map[x]]
           b == [x \in S |-> IF x = behind THEN before ELSE list.previous[x]]
           a == [x \in S |-> IF x = before THEN behind ELSE list.next[x]]
           h == IF before = 0 THEN behind ELSE list.head
           t == IF behind = 0 THEN before ELSE list.tail
<1>1. /\ Pending(list) \subseteq IDs /\ \A x \in Pending(list) : list.map[x] \in E
      /\ list.head \in Nat /\ list.tail \in Nat
  BY ListFacts
<1>2. new = [map |-> m, previous |-> b, next |-> a, head |-> h, tail |-> t]
  BY DEF Unlink
<1>3a. PICK n \in Nat : \E q : Ordered(list, q, n)
  BY DEF Chained
<1>3. PICK q : n \in Nat /\ Ordered(list, q, n)
  BY <1>3a
<1>4. \A x \in Pending(list) : list.previous[x] \in Nat /\ list.next[x] \in Nat
  BY <1>3, OrderedNat
<1>5. /\ m \in [S -> E] /\ b \in [S -> Nat] /\ a \in [S -> Nat] /\ S \in SUBSET IDs
      /\ h \in Nat /\ t \in Nat
  BY <1>1, <1>4
<1>6. \A x \in S : /\ m[x] = list.map[x] /\ x \in Pending(list)
                   /\ b[x] = IF x = behind THEN before ELSE list.previous[x]
                   /\ a[x] = IF x = before THEN behind ELSE list.next[x]
  OBVIOUS
<1> HIDE DEF m, new, a, b
<1>7. /\ new \in Lists(E) /\ Pending(new) = S /\ new.map = m /\ new.previous = b /\ new.next = a
      /\ new.head = h /\ new.tail = t
  <2> HIDE DEF h, t, S
  <2>1. m \in Maps(E) /\ b \in Maps(Nat) /\ a \in Maps(Nat) /\ DOMAIN m = S
    BY <1>5 DEF Maps
  <2>2. QED
    BY <1>2, <1>5, <2>1 DEF Lists, Pending
<1>8. /\ q \in [1..n -> Pending(list)]
      /\ \A x \in Pending(list) : \E i \in 1..n : q[i] = x
      /\ \A i, j \in 1..n : q[i] = q[j] => i = j
      /\ list.head = IF n = 0 THEN 0 ELSE q[1]
      /\ list.tail = IF n = 0 THEN 0 ELSE q[n]
  BY <1>3 DEF Ordered
<1>9. /\ \A i \in 1..n : list.next[q[i]] = IF i = n THEN 0 ELSE q[i + 1]
      /\ \A i \in 1..n : list.previous[q[i]] = IF i = 1 THEN 0 ELSE q[i - 1]
      /\ \A i, j \in 1..n : i <= j => list.map[q[i]].age >= list.map[q[j]].age
  BY <1>3 DEF Ordered
<1>10. PICK c \in 1..n : q[c] = id
  BY <1>8
<1>11. /\ before = IF c = 1 THEN 0 ELSE q[c - 1]
       /\ behind = IF c = n THEN 0 ELSE q[c + 1]
  BY <1>9, <1>10
<1>12. \A i \in 1..n : q[i] \in Pending(list) /\ q[i] # 0 /\ (i # c => q[i] \in S)
  BY <1>1, <1>8, <1>10 DEF IDs
<1> HIDE DEF before, behind, S
<1> DEFINE N == n - 1
           e == [i \in 1..N |-> IF i < c THEN i ELSE i + 1]
           p == [i \in 1..N |-> q[e[i]]]
<1>13. N \in Nat /\ \A i \in 1..N : e[i] \in 1..n /\ e[i] # c /\ e[i] = IF i < c THEN i ELSE i + 1
  BY <1>10
<1>14. \A i \in 1..N : p[i] = q[e[i]] /\ p[i] \in S
  BY <1>12, <1>13
<1>15. p \in [1..N -> S]
  BY <1>14
<1> HIDE DEF p, e
<1>16. \A x \in S : \E i \in 1..N : p[i] = x
  <2>1. ASSUME NEW x \in S PROVE \E i \in 1..N : p[i] = x
    <3>1. PICK j \in 1..n : q[j] = x
      BY <1>8 DEF S
    <3>2. j # c
      BY <1>10, <3>1 DEF S
    <3>3. CASE j < c
      <4>1. j \in 1..N /\ e[j] = j
        BY <1>10, <1>13, <3>1, <3>3
      <4>2. QED
        BY <1>14, <3>1, <4>1
    <3>4. CASE j > c
      <4>1. j - 1 \in 1..N /\ ~(j - 1 < c) /\ (j - 1) + 1 = j
        BY <1>10, <3>1, <3>4
      <4>2. e[j - 1] = j
        BY <1>13, <4>1
      <4>3. QED
        BY <1>14, <3>1, <4>1, <4>2
    <3>5. QED
      BY <1>10, <3>1, <3>2, <3>3, <3>4
  <2>2. QED
    BY <2>1
<1>17. \A i, j \in 1..N : p[i] = p[j] => i = j
  <2>1. SUFFICES ASSUME NEW i \in 1..N, NEW j \in 1..N, p[i] = p[j] PROVE i = j
    OBVIOUS
  <2>2. e[i] = e[j]
    BY <1>8, <1>13, <1>14, <2>1
  <2>3. QED
    BY <1>10, <1>13, <2>2
<1>18. ASSUME NEW i \in 1..N PROVE a[p[i]] = IF i = N THEN 0 ELSE p[i + 1]
  <2>0. i # N => i + 1 \in 1..N /\ p[i + 1] = q[e[i + 1]]
    BY <1>13, <1>14
  <2>1. CASE i < c /\ i = c - 1
    <3>1. p[i] = before /\ e[i] = i /\ a[p[i]] = behind
      BY <1>6, <1>11, <1>13, <1>14, <2>1
    <3>2. CASE c = n
      BY <1>11, <2>1, <3>1, <3>2
    <3>3. CASE c # n
      <4>1. i # N /\ e[i + 1] = c + 1
        BY <1>10, <1>13, <2>0, <2>1, <3>3
      <4>2. QED
        BY <1>11, <2>0, <3>1, <3>3, <4>1
    <3>4. QED
      BY <3>2, <3>3
  <2>2. CASE i < c /\ i # c - 1
    <3>1. e[i] = i /\ p[i] = q[i] /\ i \in 1..n /\ c - 1 \in 1..n /\ c # 1 /\ i # n /\ i # N
      BY <1>10, <1>13, <1>14, <2>2
    <3>2. p[i] # before
      BY <1>8, <1>11, <2>2, <3>1
    <3>3. a[p[i]] = q[i + 1]
      BY <1>6, <1>9, <1>14, <3>1, <3>2
    <3>4. e[i + 1] = i + 1
      BY <1>10, <1>13, <2>0, <2>2, <3>1
    <3>5. QED
      BY <2>0, <3>1, <3>3, <3>4
  <2>3. CASE ~(i < c)
    <3>1. e[i] = i + 1 /\ p[i] = q[i + 1] /\ i + 1 \in 1..n
      BY <1>10, <1>13, <1>14, <2>3
    <3>2. p[i] # before
      <4>1. c # 1 => c - 1 \in 1..n /\ c - 1 # i + 1
        BY <1>10, <2>3
      <4>2. QED
        BY <1>8, <1>11, <1>12, <3>1, <4>1
    <3>3. a[p[i]] = list.next[q[i + 1]]
      BY <1>6, <1>14, <3>1, <3>2
    <3>4. a[p[i]] = IF i + 1 = n THEN 0 ELSE q[(i + 1) + 1]
      BY <1>9, <3>1, <3>3
    <3>5. CASE i = N
      <4>1. i + 1 = n
        BY <3>5
      <4>2. QED
        BY <3>4, <3>5, <4>1
    <3>6. CASE i # N
      <4>1. i + 1 # n /\ e[i + 1] = (i + 1) + 1
        BY <1>10, <1>13, <2>0, <2>3, <3>6
      <4>2. QED
        BY <2>0, <3>4, <3>6, <4>1
    <3>7. QED
      BY <3>5, <3>6
  <2>4. QED
    BY <2>1, <2>2, <2>3
<1>19. ASSUME NEW i \in 1..N PROVE b[p[i]] = IF i = 1 THEN 0 ELSE p[i - 1]
  <2>0. i # 1 => i - 1 \in 1..N /\ p[i - 1] = q[e[i - 1]]
    BY <1>13, <1>14
  <2>1. CASE i = c
    <3>1. e[i] = c + 1 /\ c # n /\ p[i] = behind /\ b[p[i]] = before
      BY <1>6, <1>10, <1>11, <1>13, <1>14, <2>1
    <3>2. CASE c = 1
      BY <1>11, <2>1, <3>1, <3>2
    <3>3. CASE c # 1
      <4>1. e[i - 1] = c - 1
        BY <1>10, <1>13, <2>0, <2>1, <3>3
      <4>2. QED
        BY <1>11, <2>0, <2>1, <3>1, <3>3, <4>1
    <3>4. QED
      BY <3>2, <3>3
  <2>2. CASE i < c
    <3>1. e[i] = i /\ p[i] = q[i] /\ i \in 1..n
      BY <1>10, <1>13, <1>14, <2>2
    <3>2. p[i] # behind
      <4>1. c # n => c + 1 \in 1..n /\ c + 1 # i
        BY <1>10, <2>2
      <4>2. QED
        BY <1>8, <1>11, <1>12, <3>1, <4>1
    <3>3. b[p[i]] = IF i = 1 THEN 0 ELSE q[i - 1]
      BY <1>6, <1>9, <1>14, <3>1, <3>2
    <3>4. i # 1 => e[i - 1] = i - 1
      BY <1>10, <1>13, <2>0, <2>2
    <3>5. QED
      BY <2>0, <3>3, <3>4
  <2>3. CASE i > c
    <3>1. e[i] = i + 1 /\ p[i] = q[i + 1] /\ i + 1 \in 1..n /\ c # n /\ c + 1 \in 1..n /\ c + 1 # i + 1
      BY <1>10, <1>13, <1>14, <2>3
    <3>2. p[i] # behind
      BY <1>8, <1>11, <3>1
    <3>3. b[p[i]] = list.previous[q[i + 1]]
      BY <1>6, <1>14, <3>1, <3>2
    <3>4. i + 1 # 1 /\ (i + 1) - 1 = i /\ i # 1 /\ e[i - 1] = i
      BY <1>10, <1>13, <2>0, <2>3
    <3>5. b[p[i]] = q[i]
      BY <1>9, <3>1, <3>3, <3>4
    <3>6. QED
      BY <2>0, <3>4, <3>5
  <2>4. QED
    BY <1>10, <2>1, <2>2, <2>3
<1>20. ASSUME NEW i \in 1..N, NEW j \in 1..N, i <= j PROVE m[p[i]].age >= m[p[j]].age
  <2>1. e[i] <= e[j] /\ e[i] \in 1..n /\ e[j] \in 1..n
    BY <1>10, <1>13, <1>20
  <2>2. m[p[i]] = list.map[q[e[i]]] /\ m[p[j]] = list.map[q[e[j]]]
    BY <1>6, <1>14
  <2>3. QED
    BY <1>9, <2>1, <2>2
<1>21. h = IF N = 0 THEN 0 ELSE p[1]
  <2>1. CASE c = 1
    <3>1. h = behind /\ (n = 1 <=> N = 0) /\ c + 1 = 2
      BY <1>11, <2>1
    <3>2. N # 0 => p[1] = q[2]
      <4>1. N # 0 => 1 \in 1..N /\ e[1] = 2
        BY <1>13, <2>1
      <4>2. QED
        BY <1>14, <4>1
    <3>3. QED
      BY <1>11, <2>1, <3>1, <3>2
  <2>2. CASE c # 1
    <3>1. N # 0 /\ 1 \in 1..N /\ c - 1 \in 1..n /\ n # 0
      BY <1>10, <2>2
    <3>2. e[1] = 1 /\ p[1] = q[1]
      BY <1>10, <1>13, <1>14, <2>2, <3>1
    <3>3. before # 0
      BY <1>11, <1>12, <2>2, <3>1
    <3>4. QED
      BY <1>8, <3>1, <3>2, <3>3
  <2>3. QED
    BY <2>1, <2>2
<1>22. t = IF N = 0 THEN 0 ELSE p[N]
  <2>1. CASE c = n
    <3>1. t = before
      BY <1>11, <2>1
    <3>2. N # 0 => p[N] = q[c - 1] /\ c # 1
      <4>1. N # 0 => N \in 1..N /\ e[N] = c - 1 /\ c # 1
        BY <1>10, <1>13, <2>1
      <4>2. QED
        BY <1>14, <4>1
    <3>3. N = 0 => c = 1
      BY <2>1
    <3>4. QED
      BY <1>11, <3>1, <3>2, <3>3
  <2>2. CASE c # n
    <3>1. N # 0 /\ N \in 1..N /\ c + 1 \in 1..n /\ n # 0 /\ ~(N < c) /\ N + 1 = n
      BY <1>10, <2>2
    <3>2. e[N] = n /\ p[N] = q[n]
      BY <1>13, <1>14, <3>1
    <3>3. behind # 0
      BY <1>11, <1>12, <2>2, <3>1
    <3>4. QED
      BY <1>8, <3>1, <3>2, <3>3
  <2>3. QED
    BY <2>1, <2>2
<1> HIDE DEF h, t, N
<1>23. Ordered(new, p, N)
  BY <1>7, <1>15, <1>16, <1>17, <1>18, <1>19, <1>20, <1>21, <1>22 DEF Ordered
<1>24. Chained(new)
  BY <1>13, <1>23 DEF Chained
<1>25. QED
  BY <1>6, <1>7, <1>24 DEF new, S

\* The entry of id becomes another of the same age.
LEMMA PutFacts ==
    ASSUME NEW E, NEW list \in Lists(E), Chained(list), NEW id \in Pending(list), NEW entry \in E,
           entry.age = list.map[id].age
    PROVE  LET new == Put(list, id, entry)
           IN  /\ new \in Lists(E) /\ Chained(new) /\ Pending(new) = Pending(list)
               /\ new.head = list.head /\ new.map[id] = entry
               /\ \A x \in Pending(list) \ {id} : new.map[x] = list.map[x]
<1> DEFINE new == Put(list, id, entry)
           m == [list.map EXCEPT ![id] = entry]
<1>1. list.map \in [Pending(list) -> E] /\ Pending(list) \subseteq IDs
  BY ListFacts
<1>2. /\ m \in [Pending(list) -> E] /\ DOMAIN m = Pending(list) /\ m[id] = entry
      /\ \A x \in Pending(list) \ {id} : m[x] = list.map[x]
  BY <1>1
<1>3. \A x \in Pending(list) : m[x].age = list.map[x].age
  BY <1>2
<1>4. new = [list EXCEPT !.map = m]
  BY DEF Put
<1>5. m \in Maps(E)
  BY <1>1, <1>2 DEF Maps
<1> HIDE DEF m, new
<1>6. /\ new \in Lists(E) /\ new.map = m /\ new.next = list.next /\ new.previous = list.previous
      /\ new.head = list.head /\ new.tail = list.tail
  BY <1>4, <1>5 DEF Lists
<1>7. Pending(new) = Pending(list)
  BY <1>2, <1>6 DEF Pending
<1>8a. PICK n \in Nat : \E q : Ordered(list, q, n)
  BY DEF Chained
<1>8. PICK q : n \in Nat /\ Ordered(list, q, n)
  BY <1>8a
<1>9. Ordered(new, q, n)
  <2>1. \A i \in 1..n : q[i] \in Pending(list)
    BY <1>8 DEF Ordered
  <2>2. \A i \in 1..n : new.map[q[i]].age = list.map[q[i]].age
    BY <1>3, <1>6, <2>1
  <2>3. QED
    BY <1>6, <1>7, <1>8, <2>2 DEF Ordered
<1>10. QED
  BY <1>2, <1>6, <1>7, <1>9 DEF Chained, new

\* An entry of E may have any age; the entries of new are those of list with others.
AnyAge(E) == \A e \in E, a \in Nat : [e EXCEPT !.age = a] \in E /\ [e EXCEPT !.age = a].age = a
Later(list, new) ==
    \A x \in Pending(list) : \E a \in Nat : new.map[x] = [list.map[x] EXCEPT !.age = a]

\* Time passes for every entry.
LEMMA OlderFacts ==
    ASSUME NEW E, Aged(E), NEW list \in Lists(E), Chained(list), NEW timeout \in Nat, AnyAge(E)
    PROVE  LET new == Older(list, timeout)
           IN  new \in Lists(E) /\ Chained(new) /\ Pending(new) = Pending(list) /\ Later(list, new)
<1> DEFINE new == Older(list, timeout)
           Next1(x) == Min({list.map[x].age + 1, timeout})
           m == [x \in Pending(list) |-> [list.map[x] EXCEPT !.age = Next1(x)]]
<1>1. list.map \in [Pending(list) -> E] /\ Pending(list) \subseteq IDs /\ \A x \in Pending(list) : list.map[x] \in E
  BY ListFacts
<1>2. \A x \in Pending(list) : list.map[x].age \in Nat
  BY <1>1 DEF Aged
<1>3. \A x \in Pending(list) : /\ Next1(x) \in Nat
                               /\ Next1(x) = IF list.map[x].age + 1 <= timeout THEN list.map[x].age + 1 ELSE timeout
  <2>1. SUFFICES ASSUME NEW x \in Pending(list)
                 PROVE  /\ Next1(x) \in Nat
                        /\ Next1(x) = IF list.map[x].age + 1 <= timeout THEN list.map[x].age + 1 ELSE timeout
    OBVIOUS
  <2>2. PICK a \in Nat : a = list.map[x].age + 1
    BY <1>2
  <2> DEFINE n == Min({a, timeout})
  <2>3. n = CHOOSE y \in {a, timeout} : \A z \in {a, timeout} : y <= z
    BY DEF Min
  <2>4. \E y \in {a, timeout} : \A z \in {a, timeout} : y <= z
    OBVIOUS
  <2> HIDE DEF n
  <2>5. n \in {a, timeout} /\ n <= a /\ n <= timeout
    BY <2>3, <2>4
  <2>6. QED
    BY <2>2, <2>5 DEF n
<1>4. new = [list EXCEPT !.map = m]
  BY DEF Older
<1> HIDE DEF Next1
<1>5. \A x \in Pending(list) : m[x] = [list.map[x] EXCEPT !.age = Next1(x)]
  OBVIOUS
<1>6. DOMAIN m = Pending(list) /\ m = [x \in Pending(list) |-> m[x]]
  OBVIOUS
<1> HIDE DEF m, new
<1>7. \A x \in Pending(list) : m[x] \in E /\ m[x].age = Next1(x)
  <2>1. SUFFICES ASSUME NEW x \in Pending(list) PROVE m[x] \in E /\ m[x].age = Next1(x)
    OBVIOUS
  <2>2. list.map[x] \in E /\ Next1(x) \in Nat /\ m[x] = [list.map[x] EXCEPT !.age = Next1(x)]
    BY <1>1, <1>3, <1>5
  <2>3. QED
    BY <2>2, Zenon DEF AnyAge
<1>8. m \in [Pending(list) -> E]
  BY <1>6, <1>7
<1>9. m \in Maps(E)
  BY <1>1, <1>8 DEF Maps
<1>10. /\ new \in Lists(E) /\ new.map = m /\ new.next = list.next /\ new.previous = list.previous
       /\ new.head = list.head /\ new.tail = list.tail
  BY <1>4, <1>9 DEF Lists
<1>11. Pending(new) = Pending(list)
  BY <1>6, <1>10 DEF Pending
<1>12a. PICK n \in Nat : \E q : Ordered(list, q, n)
  BY DEF Chained
<1>12. PICK q : n \in Nat /\ Ordered(list, q, n)
  BY <1>12a
<1>13. Ordered(new, q, n)
  <2>1. \A i \in 1..n : q[i] \in Pending(list)
    BY <1>12 DEF Ordered
  <2>2. \A i, j \in 1..n : i <= j => new.map[q[i]].age >= new.map[q[j]].age
    <3>1. SUFFICES ASSUME NEW i \in 1..n, NEW j \in 1..n, i <= j
                   PROVE  new.map[q[i]].age >= new.map[q[j]].age
      OBVIOUS
    <3>2. list.map[q[i]].age >= list.map[q[j]].age
      BY <1>12, <3>1 DEF Ordered
    <3>3. Next1(q[i]) >= Next1(q[j])
      BY <1>2, <1>3, <2>1, <3>2
    <3>4. QED
      BY <1>7, <1>10, <2>1, <3>3
  <2>3. QED
    BY <1>10, <1>11, <1>12, <2>2 DEF Ordered
<1>14. QED
  <2>1. \A x \in Pending(list) : \E a \in Nat : m[x] = [list.map[x] EXCEPT !.age = a]
    BY <1>3, <1>5
  <2>2. Chained(new)
    BY <1>13 DEF Chained
  <2>3. QED
    BY <1>10, <1>11, <2>1, <2>2 DEF new, Later

----------------------------------------------------------------------------
(* What a ring remembers                                                   *)

\* P are the IDs pending, C and X those that completed and expired.
Remembers(w, P, C, X) ==
    /\ \A id \in IDs : /\ State(w, id) = "completed" => id \in C
                       /\ State(w, id) = "expired" => id \in X
                       /\ id \in C \cup X => State(w, id) # "unseen" /\ id \notin P
    /\ \A id \in P : id \in IDs /\ id <= w.highest
    /\ C \cap X = {}

LEMMA RememberNew ==
    ASSUME NEW span \in Nat \ {0}
    PROVE  Remembers(NewWindow(span), {}, {}, {})
<1> DEFINE w == NewWindow(span)
<1>1. WindowOK(w) /\ \A x \in Nat \ {0} : State(w, x) = "unseen"
  BY NewWindowFacts
<1> HIDE DEF w
<1>2. Remembers(w, {}, {}, {})
  BY <1>1 DEF Remembers, IDs
<1>3. QED
  BY <1>2 DEF w

LEMMA RememberAdmit ==
    ASSUME NEW w, WindowOK(w), NEW P, NEW C, NEW X, Remembers(w, P, C, X),
           NEW id \in IDs, State(w, id) = "unseen"
    PROVE  Remembers(Admit(w, id), P \cup {id}, C, X)
<1> DEFINE n == Admit(w, id)
<1>1. /\ n.highest >= w.highest /\ n.highest >= id /\ WindowOK(n)
      /\ \A x \in Nat : State(n, x) \in {State(w, x), "retired"}
      /\ \A x \in Nat : State(w, x) = "retired" => State(n, x) = "retired"
  BY AdmitState DEF IDs
<1>2. n.highest \in Nat /\ w.highest \in Nat
  BY <1>1, WindowTypes
<1> HIDE DEF n
<1>3. ASSUME NEW x \in IDs
      PROVE  /\ State(n, x) = "completed" => x \in C
             /\ State(n, x) = "expired" => x \in X
             /\ x \in C \cup X => State(n, x) # "unseen" /\ x \notin P \cup {id}
  <2>1. State(n, x) \in {State(w, x), "retired"}
    BY <1>1 DEF IDs
  <2>2. QED
    BY <2>1 DEF Remembers
<1>4. \A x \in P \cup {id} : x \in IDs /\ x <= n.highest
  <2>1. ASSUME NEW x \in P PROVE x \in IDs /\ x <= n.highest
    <3>1. x \in IDs /\ x <= w.highest
      BY DEF Remembers
    <3>2. QED
      BY <1>1, <1>2, <3>1 DEF IDs
  <2>2. QED
    BY <1>1, <2>1
<1>5. Remembers(n, P \cup {id}, C, X)
  BY <1>3, <1>4 DEF Remembers
<1>6. QED
  BY <1>5 DEF n

\* The ID of a pending entry is unseen, or below the floor.
LEMMA PendingState ==
    ASSUME NEW w, WindowOK(w), NEW P, NEW C, NEW X, Remembers(w, P, C, X), NEW id \in P
    PROVE  id \in IDs /\ id \in Nat /\ id <= w.highest /\ id \notin C \cup X
           /\ State(w, id) \in {"unseen", "retired"}
<1>1. id \in IDs /\ id \in Nat /\ id <= w.highest
  BY DEF Remembers, IDs
<1>2. State(w, id) \in States
  BY <1>1, StateCases
<1>3. QED
  BY <1>1, <1>2 DEF Remembers, States

LEMMA FinishElse ==
    ASSUME NEW w, WindowOK(w), NEW id \in Nat, id <= w.highest, State(w, id) \in {"unseen", "retired"},
           NEW t \in {"completed", "expired"}, NEW x \in Nat, x # id
    PROVE  State(Finish(w, id, t), x) = State(w, x)
<1>1. LET n == Finish(w, id, t) IN \A y \in Nat : y # id => State(n, y) = State(w, y)
  BY FinishState
<1>2. QED
  BY <1>1

LEMMA RememberFinish ==
    ASSUME NEW w, WindowOK(w), NEW P, NEW C, NEW X, Remembers(w, P, C, X), NEW id \in P,
           NEW t \in {"completed", "expired"}, NEW n, n = Finish(w, id, t)
    PROVE  /\ WindowOK(n) /\ \A x \in Nat : x # id => State(n, x) = State(w, x)
           /\ t = "completed" => Remembers(n, P \ {id}, C \cup {id}, X)
           /\ t = "expired" => Remembers(n, P \ {id}, C, X \cup {id})
<1>1. id \in IDs /\ id \in Nat /\ id <= w.highest /\ id \notin C \cup X /\ State(w, id) \in {"unseen", "retired"}
  BY PendingState
<1>2. /\ WindowOK(n) /\ n.highest = w.highest
      /\ State(n, id) \in {t, "retired"}
      /\ \A x \in Nat : x # id => State(n, x) = State(w, x)
  BY <1>1, FinishState
<1>3. \A x \in P \ {id} : x \in IDs /\ x <= n.highest
  BY <1>2 DEF Remembers
<1>4. ASSUME NEW D, NEW Y, D \cap Y = {}, \A x \in IDs : x # id => (x \in D <=> x \in C) /\ (x \in Y <=> x \in X),
             t = "completed" => id \in D, t = "expired" => id \in Y
      PROVE  Remembers(n, P \ {id}, D, Y)
  <2>1. ASSUME NEW x \in IDs
        PROVE  /\ State(n, x) = "completed" => x \in D
               /\ State(n, x) = "expired" => x \in Y
               /\ x \in D \cup Y => State(n, x) # "unseen" /\ x \notin P \ {id}
    <3>1. CASE x = id
      BY <1>2, <1>4, <3>1
    <3>2. CASE x # id
      <4>1. State(n, x) = State(w, x)
        BY <1>2, <3>2 DEF IDs
      <4>2. QED
        BY <1>4, <3>2, <4>1 DEF Remembers
    <3>3. QED
      BY <3>1, <3>2
  <2>2. QED
    BY <1>3, <1>4, <2>1 DEF Remembers
<1>5. C \cap X = {}
  BY DEF Remembers
<1>6. ASSUME t = "completed" PROVE Remembers(n, P \ {id}, C \cup {id}, X)
  <2> DEFINE D == C \cup {id}
  <2>1. D \cap X = {} /\ \A x \in IDs : x # id => (x \in D <=> x \in C)
    BY <1>1, <1>5
  <2>2. id \in D
    OBVIOUS
  <2> HIDE DEF D
  <2>3. Remembers(n, P \ {id}, D, X)
    BY <1>4, <1>6, <2>1, <2>2
  <2>4. QED
    BY <2>3 DEF D
<1>7. ASSUME t = "expired" PROVE Remembers(n, P \ {id}, C, X \cup {id})
  <2> DEFINE Y == X \cup {id}
  <2>1. C \cap Y = {} /\ \A x \in IDs : x # id => (x \in Y <=> x \in X)
    BY <1>1, <1>5
  <2>2. id \in Y
    OBVIOUS
  <2> HIDE DEF Y
  <2>3. Remembers(n, P \ {id}, C, Y)
    BY <1>4, <1>7, <2>1, <2>2
  <2>4. QED
    BY <2>3 DEF Y
<1>8. QED
  BY <1>2, <1>6, <1>7

----------------------------------------------------------------------------
(* No fragment of a completed group is lost                                *)

Ranges == [from : Nat, to : Nat, body : Nat]
OriginalEntries == [total : Nat, age : Nat, ranges : SUBSET Ranges, received : Nat]
GroupEntries == [age : Nat, shards : SUBSET Nat, decoded : BOOLEAN, lease : Nat]

\* The fragment is in its Datagram, or that is over or below the floor.
Settled(w, list, done, f) ==
    \/ f.id \in done
    \/ State(w, f.id) = "retired" /\ f.id \notin Pending(list)
    \/ f.id \in Pending(list) /\ \E r \in list.map[f.id].ranges : r.from = f.from /\ r.to = f.to

LEMMA EntryTypes ==
    /\ Aged(OriginalEntries) /\ Aged(GroupEntries) /\ AnyAge(OriginalEntries) /\ AnyAge(GroupEntries)
    /\ \A e \in OriginalEntries, a \in Nat :
          LET f == [e EXCEPT !.age = a]
          IN  f \in OriginalEntries /\ f.age = a /\ f.total = e.total /\ f.ranges = e.ranges /\ f.received = e.received
    /\ \A e \in GroupEntries, a \in Nat :
          LET f == [e EXCEPT !.age = a]
          IN  f \in GroupEntries /\ f.age = a /\ f.shards = e.shards /\ f.decoded = e.decoded /\ f.lease = e.lease
BY DEF Aged, AnyAge, OriginalEntries, GroupEntries

\* A Datagram that is over.
LEMMA SettledFinish ==
    ASSUME NEW w, NEW v, NEW list, NEW new, NEW done, NEW id \in Pending(list),
           Pending(new) = Pending(list) \ {id}, \A x \in Pending(list) \ {id} : new.map[x] = list.map[x],
           \A x \in Nat : x # id => State(v, x) = State(w, x),
           NEW f, f.id \in Nat, Settled(w, list, done, f)
    PROVE  Settled(v, new, done \cup {id}, f)
<1>1. CASE f.id = id
  BY <1>1 DEF Settled
<1>2. CASE f.id # id
  BY <1>2 DEF Settled
<1>3. QED
  BY <1>1, <1>2

\* A Datagram that begins.
LEMMA SettledLink ==
    ASSUME NEW w, NEW v, NEW list, NEW new, NEW done, NEW id, id \notin Pending(list), State(w, id) = "unseen",
           Pending(new) = Pending(list) \cup {id}, \A x \in Pending(list) : new.map[x] = list.map[x],
           \A x \in Nat : State(w, x) = "retired" => State(v, x) = "retired",
           NEW f, f.id \in Nat, Settled(w, list, done, f)
    PROVE  Settled(v, new, done, f)
<1>1. CASE f.id \in done
  BY <1>1 DEF Settled
<1>2. CASE State(w, f.id) = "retired" /\ f.id \notin Pending(list)
  <2>1. f.id # id /\ State(v, f.id) = "retired"
    BY <1>2
  <2>2. QED
    BY <1>2, <2>1 DEF Settled
<1>3. CASE f.id \in Pending(list) /\ \E r \in list.map[f.id].ranges : r.from = f.from /\ r.to = f.to
  BY <1>3 DEF Settled
<1>4. QED
  BY <1>1, <1>2, <1>3 DEF Settled

\* A Datagram that grows, or ages.
LEMMA SettledPut ==
    ASSUME NEW w, NEW list, NEW new, NEW done, Pending(new) = Pending(list),
           \A x \in Pending(list) : list.map[x].ranges \subseteq new.map[x].ranges,
           NEW f, Settled(w, list, done, f)
    PROVE  Settled(w, new, done, f)
BY DEF Settled

----------------------------------------------------------------------------
(* The bytes of a Datagram                                                 *)

Holds(r, b) == r.from <= b /\ b < r.to
Covered(a) == {b \in 0..(a.total - 1) : \E r \in a.ranges : Holds(r, b)}
Disjoint(ranges) == \A b \in Nat : \A r, s \in ranges : Holds(r, b) /\ Holds(s, b) => r = s
Assembled(a) == a.received = Cardinality(Covered(a)) /\ Disjoint(a.ranges)

\* A fragment that meets none of the ranges of its Datagram, and what it becomes.
Apart(a, f) ==
    /\ f.from <= f.to /\ f.to <= a.total
    /\ \A r \in a.ranges : ~(IF r.from < f.from THEN r.to > f.from ELSE r.from < f.to)
Grow(a, f) ==
    [a EXCEPT !.ranges = a.ranges \cup {[from |-> f.from, to |-> f.to, body |-> f.body]},
              !.received = a.received + Bytes(f)]
HasRange(a, f) == \E r \in a.ranges : r.from = f.from /\ r.to = f.to
Continues(a, g) == g.total = a.total /\ g.age = a.age /\ a.ranges \subseteq g.ranges

Deliveries == [id : Nat, total : Nat, ranges : SUBSET Ranges]
Whole(d) == \A b \in 0..(d.total - 1) : Cardinality({r \in d.ranges : r.from <= b /\ b < r.to}) = 1

LEMMA IntervalCount ==
    ASSUME NEW p \in Nat, NEW q \in Nat, p <= q
    PROVE  IsFiniteSet(p..(q - 1)) /\ Cardinality(p..(q - 1)) = q - p
<1>1. PICK r \in Int : r = q - 1
  OBVIOUS
<1>2. IsFiniteSet(p..r) /\ Cardinality(p..r) = IF p > r THEN 0 ELSE r - p + 1
  BY FS_Interval
<1>3. QED
  BY <1>1, <1>2

\* A Datagram that begins has nothing.
LEMMA StartFacts ==
    ASSUME NEW a \in OriginalEntries, a.ranges = {}, a.received = 0
    PROVE  Assembled(a)
<1>1. Covered(a) = {}
  BY DEF Covered
<1>2. QED
  BY <1>1, FS_EmptySet DEF Assembled, Disjoint

\* A fragment that meets none of the ranges is added, and with the last byte
\* every byte is held once.
LEMMA GrowFacts ==
    ASSUME NEW a \in OriginalEntries, Assembled(a), NEW f \in Fragments, Apart(a, f), NEW id \in Nat
    PROVE  LET g == Grow(a, f)
               d == [id |-> id, total |-> a.total, ranges |-> g.ranges]
           IN  /\ g \in OriginalEntries /\ Continues(a, g) /\ HasRange(g, f) /\ Assembled(g)
               /\ g.received = a.total => d \in Deliveries /\ d.id = id /\ d.total = a.total /\ Whole(d)
<1> DEFINE g == Grow(a, f)
<1>0. /\ f.from <= f.to /\ f.to <= a.total
      /\ \A r \in a.ranges : ~(IF r.from < f.from THEN r.to > f.from ELSE r.from < f.to)
  BY DEF Apart
<1> DEFINE new == [from |-> f.from, to |-> f.to, body |-> f.body]
           B == f.from..(f.to - 1)
<1>1. /\ f.from \in Nat /\ f.to \in Nat /\ new \in Ranges /\ new.from = f.from /\ new.to = f.to
      /\ Bytes(f) = f.to - f.from /\ Bytes(f) \in Nat
  BY <1>0 DEF Fragments, Ranges, Bytes
<1>2. a.total \in Nat /\ a.received \in Nat /\ a.ranges \subseteq Ranges /\ a.age \in Nat
  BY DEF OriginalEntries
<1> HIDE DEF new
<1>3. /\ g \in OriginalEntries /\ g.total = a.total /\ g.age = a.age /\ g.ranges = a.ranges \cup {new}
      /\ g.received = a.received + Bytes(f)
  <2> DEFINE R == a.ranges \cup {new}
             c == a.received + Bytes(f)
  <2>1. g = [a EXCEPT !.ranges = R, !.received = c]
    BY DEF new, Grow
  <2> HIDE DEF g
  <2>2. R \in SUBSET Ranges /\ c \in Nat
    BY <1>1, <1>2
  <2> HIDE DEF R, c
  <2>3. g \in OriginalEntries /\ g.total = a.total /\ g.age = a.age /\ g.ranges = R /\ g.received = c
    BY <2>1, <2>2 DEF OriginalEntries
  <2>4. QED
    BY <2>3 DEF R, c
<1> HIDE DEF g
<1>4. \A r \in a.ranges : r.from \in Nat /\ r.to \in Nat
  BY <1>2 DEF Ranges
<1>5. \A r \in a.ranges, b \in Nat : Holds(r, b) => ~Holds(new, b)
  BY <1>0, <1>1, <1>4 DEF Holds
<1>6. Disjoint(g.ranges)
  BY <1>3, <1>5 DEF Assembled, Disjoint
<1>7. \A b \in Nat : Holds(new, b) <=> b \in B
  BY <1>1 DEF Holds
<1>8. B \subseteq 0..(a.total - 1) /\ \A b \in 0..(a.total - 1) : b \in Nat
  BY <1>0, <1>1, <1>2
<1>9. Covered(g) = Covered(a) \cup B /\ Covered(a) \cap B = {}
  <2>1. Covered(g) = {b \in 0..(a.total - 1) : \E r \in a.ranges \cup {new} : Holds(r, b)}
    BY <1>3 DEF Covered
  <2>2. Covered(a) = {b \in 0..(a.total - 1) : \E r \in a.ranges : Holds(r, b)}
    BY DEF Covered
  <2> HIDE DEF B
  <2>3. QED
    BY <1>5, <1>7, <1>8, <2>1, <2>2
<1>10. 0 \in Nat /\ 0 <= a.total
  BY <1>2
<1>11. IsFiniteSet(0..(a.total - 1)) /\ IsFiniteSet(B)
  BY <1>0, <1>1, <1>2, <1>10, IntervalCount
<1>12. Cardinality(B) = Bytes(f) /\ Cardinality(0..(a.total - 1)) = a.total
  <2>1. Cardinality(B) = f.to - f.from /\ Cardinality(0..(a.total - 1)) = a.total - 0
    BY <1>0, <1>1, <1>2, <1>10, IntervalCount
  <2>2. QED
    BY <1>1, <1>2, <2>1
<1>13. IsFiniteSet(Covered(a)) /\ IsFiniteSet(Covered(g))
  <2>1. Covered(a) \subseteq 0..(a.total - 1)
    BY DEF Covered
  <2>2. IsFiniteSet(Covered(a))
    BY <1>11, <2>1, FS_Subset
  <2>3. QED
    BY <1>9, <1>11, <2>2, FS_Union
<1>14. Cardinality(Covered(g)) = Cardinality(Covered(a)) + Cardinality(B)
  <2> HIDE DEF B
  <2>1. Cardinality(Covered(a) \cup B) = Cardinality(Covered(a)) + Cardinality(B) - Cardinality(Covered(a) \cap B)
    BY <1>11, <1>13, FS_Union
  <2>2. Cardinality(Covered(a) \cap B) = 0 /\ Cardinality(Covered(a)) \in Nat
    BY <1>9, <1>13, FS_EmptySet, FS_CardinalityType
  <2>3. Cardinality(Covered(g)) = Cardinality(Covered(a)) + Cardinality(B) - 0 /\ Cardinality(B) \in Nat
    BY <1>1, <1>9, <1>12, <2>1, <2>2
  <2>4. QED
    BY <2>2, <2>3
<1>15. Assembled(g)
  BY <1>3, <1>6, <1>12, <1>14 DEF Assembled
<1>16. ASSUME g.received = a.total
       PROVE  LET d == [id |-> id, total |-> a.total, ranges |-> g.ranges]
              IN  d \in Deliveries /\ d.id = id /\ d.total = a.total /\ Whole(d)
  <2> DEFINE d == [id |-> id, total |-> a.total, ranges |-> g.ranges]
  <2>1. g.ranges \subseteq Ranges
    BY <1>3 DEF OriginalEntries
  <2>2. d \in Deliveries /\ d.id = id /\ d.total = a.total /\ d.ranges = g.ranges
    BY <1>2, <2>1 DEF Deliveries
  <2> HIDE DEF d
  <2>3. Covered(g) = 0..(a.total - 1)
    <3>1. Covered(g) \subseteq 0..(a.total - 1)
      BY <1>3 DEF Covered
    <3>2. Cardinality(Covered(g)) = Cardinality(0..(a.total - 1))
      BY <1>12, <1>15, <1>16 DEF Assembled
    <3>3. QED
      BY <1>11, <3>1, <3>2, FS_Subset
  <2>4. ASSUME NEW b \in 0..(d.total - 1)
        PROVE  Cardinality({r \in d.ranges : r.from <= b /\ b < r.to}) = 1
    <3>1. b \in Nat /\ b \in Covered(g)
      BY <1>8, <2>2, <2>3
    <3>2. PICK r \in g.ranges : Holds(r, b)
      BY <3>1 DEF Covered
    <3>3. {s \in d.ranges : s.from <= b /\ b < s.to} = {r}
      <4>1. \A s \in g.ranges : s.from <= b /\ b < s.to <=> s = r
        BY <1>6, <3>1, <3>2 DEF Disjoint, Holds
      <4>2. QED
        BY <2>2, <3>2, <4>1
    <3>4. QED
      BY <3>3, FS_Singleton
  <2>5. QED
    BY <2>2, <2>4 DEF Whole, d
<1>17. HasRange(g, f) /\ Continues(a, g)
  BY <1>1, <1>3 DEF HasRange, Continues
<1>18. QED
  BY <1>3, <1>15, <1>16, <1>17 DEF g

----------------------------------------------------------------------------
(* The invariant of the receive side, also in the middle of a call          *)

Fates == {"group", "datagram"} \X Nat \X {"completed", "expired"}
Receivers ==
    [groups : Lists(GroupEntries), groupWindow : Windows, decodedGroups : Int,
     originals : Lists(OriginalEntries), datagramWindow : Windows,
     used : Int, retryWait : BOOLEAN, closed : BOOLEAN,
     out : Seq(Deliveries), ended : SUBSET Fates]

\* The IDs of one kind with one end.
Ids(F, kind, t) == {id \in Nat : <<kind, id, t>> \in F}
Over(F) == Ids(F, "datagram", "completed") \cup Ids(F, "datagram", "expired")

GroupsSane(k, F) ==
    /\ Chained(k.groups) /\ WindowOK(k.groupWindow)
    /\ Remembers(k.groupWindow, Pending(k.groups),
                 Ids(F, "group", "completed"), Ids(F, "group", "expired"))
    /\ \A id \in Pending(k.groups) : id \in GroupIDs /\ (k.groups.map[id].decoded => Decodes(id))

OriginalsSane(k, F) ==
    /\ Chained(k.originals) /\ WindowOK(k.datagramWindow)
    /\ Remembers(k.datagramWindow, Pending(k.originals),
                 Ids(F, "datagram", "completed"), Ids(F, "datagram", "expired"))
    /\ \A id \in Pending(k.originals) : Assembled(k.originals.map[id])

\* What this call delivered is whole, and was not over before it.
OutSane(k, F) ==
    /\ \A i \in DOMAIN k.out : /\ Whole(k.out[i])
                               /\ k.out[i].id \in Ids(k.ended, "datagram", "completed")
                               /\ k.out[i].id \notin Over(F)
    /\ \A i, j \in DOMAIN k.out : k.out[i].id = k.out[j].id => i = j

SettledAll(k, F, id) ==
    \A i \in DOMAIN Sent(id) : Settled(k.datagramWindow, k.originals, Over(F), Sent(id)[i])
Kept(k, F) == \A id \in GroupIDs : id \in Ids(F, "group", "completed") => SettledAll(k, F, id)

\* F are the ends before the call.
Sane(k, F) ==
    /\ scenario \in Scenarios /\ k \in Receivers
    /\ GroupsSane(k, F \cup k.ended) /\ OriginalsSane(k, F \cup k.ended)
    /\ OutSane(k, F) /\ Kept(k, F \cup k.ended)

LEMMA SentFacts ==
    ASSUME scenario \in Scenarios, NEW id \in GroupIDs
    PROVE  /\ id \in IDs /\ Sent(id) \in Seq(Fragments)
           /\ \A i \in DOMAIN Sent(id) : Sent(id)[i] \in Fragments /\ Sent(id)[i].id \in Nat
<1>1. id \in IDs /\ Sent(id) \in Seq(Fragments)
  BY ScenariosAssumption DEF GroupIDs, Sent, IDs
<1>2. \A i \in DOMAIN Sent(id) : Sent(id)[i] \in Fragments
  BY <1>1
<1>3. QED
  BY <1>1, <1>2 DEF Fragments

LEMMA ReceiverTypes ==
    ASSUME NEW k \in Receivers
    PROVE  /\ k.groups \in Lists(GroupEntries) /\ k.originals \in Lists(OriginalEntries)
           /\ k.groupWindow \in Windows /\ k.datagramWindow \in Windows
           /\ k.decodedGroups \in Int /\ k.used \in Int /\ k.retryWait \in BOOLEAN /\ k.closed \in BOOLEAN
           /\ k.out \in Seq(Deliveries) /\ k.ended \in SUBSET Fates
BY DEF Receivers

\* What the invariant does not depend on.
LEMMA SameSane ==
    ASSUME NEW F, NEW k, Sane(k, F), NEW n \in Receivers,
           n.groups = k.groups, n.groupWindow = k.groupWindow, n.originals = k.originals,
           n.datagramWindow = k.datagramWindow, n.out = k.out, n.ended = k.ended
    PROVE  Sane(n, F)
<1>1. GroupsSane(n, F \cup n.ended)
  BY DEF Sane, GroupsSane
<1>2. OriginalsSane(n, F \cup n.ended)
  BY DEF Sane, OriginalsSane
<1>3. OutSane(n, F)
  BY DEF Sane, OutSane
<1>4. Kept(n, F \cup n.ended)
  BY DEF Sane, Kept, SettledAll
<1>5. QED
  BY <1>1, <1>2, <1>3, <1>4 DEF Sane

\* A Datagram expires, or is delivered.
LEMMA OriginalEnds ==
    ASSUME NEW F, NEW k, Sane(k, F), NEW id \in Pending(k.originals), NEW t \in {"completed", "expired"},
           NEW n \in Receivers, n.groups = k.groups, n.groupWindow = k.groupWindow,
           n.originals = Unlink(k.originals, id), n.datagramWindow = Finish(k.datagramWindow, id, t),
           n.ended = k.ended \cup {<<"datagram", id, t>>},
           \/ n.out = k.out
           \/ t = "completed" /\ \E d \in Deliveries : d.id = id /\ Whole(d) /\ n.out = Append(k.out, d)
    PROVE  /\ Sane(n, F) /\ id \in Over(F \cup n.ended)
           /\ Pending(n.originals) = Pending(k.originals) \ {id}
           /\ \A x \in Pending(k.originals) \ {id} : n.originals.map[x] = k.originals.map[x]
           /\ \A x \in Nat : x # id => State(n.datagramWindow, x) = State(k.datagramWindow, x)
           /\ \A f \in Fragments : Settled(k.datagramWindow, k.originals, Over(F \cup k.ended), f)
                                     => Settled(n.datagramWindow, n.originals, Over(F \cup n.ended), f)
<1> DEFINE C == Ids(F \cup k.ended, "datagram", "completed")
           X == Ids(F \cup k.ended, "datagram", "expired")
           P == Pending(k.originals)
           w == k.datagramWindow
           v == n.datagramWindow
<1>1. /\ k \in Receivers /\ scenario \in Scenarios /\ WindowOK(w) /\ Remembers(w, P, C, X)
      /\ Chained(k.originals) /\ k.originals \in Lists(OriginalEntries)
      /\ \A x \in P : Assembled(k.originals.map[x])
  BY ReceiverTypes DEF Sane, OriginalsSane
<1>2. id \in IDs /\ id \in Nat /\ id \notin C \cup X
  BY <1>1, PendingState
<1>3. /\ WindowOK(v) /\ \A x \in Nat : x # id => State(v, x) = State(w, x)
      /\ t = "completed" => Remembers(v, P \ {id}, C \cup {id}, X)
      /\ t = "expired" => Remembers(v, P \ {id}, C, X \cup {id})
  <2> HIDE DEF C, X, P
  <2>1. id \in P
    BY DEF P
  <2>2. v = Finish(w, id, t)
    OBVIOUS
  <2> HIDE DEF w, v
  <2>3. WindowOK(w) /\ Remembers(w, P, C, X)
    BY <1>1
  <2>4. WindowOK(v)
    BY <2>1, <2>2, <2>3, RememberFinish
  <2>5. ASSUME NEW x \in Nat, x # id PROVE State(v, x) = State(w, x)
    <3>1. id \in Nat /\ id <= w.highest /\ State(w, id) \in {"unseen", "retired"}
      BY <2>1, <2>3, PendingState
    <3>2. QED
      BY <2>2, <2>3, <2>5, <3>1, FinishElse
  <2>6. t = "completed" => Remembers(v, P \ {id}, C \cup {id}, X)
    BY <2>1, <2>2, <2>3, RememberFinish
  <2>7. t = "expired" => Remembers(v, P \ {id}, C, X \cup {id})
    BY <2>1, <2>2, <2>3, RememberFinish
  <2>8. QED
    BY <2>4, <2>5, <2>6, <2>7
<1>4. /\ t = "completed" => /\ Ids(F \cup n.ended, "datagram", "completed") = C \cup {id}
                             /\ Ids(F \cup n.ended, "datagram", "expired") = X
      /\ t = "expired" => /\ Ids(F \cup n.ended, "datagram", "completed") = C
                           /\ Ids(F \cup n.ended, "datagram", "expired") = X \cup {id}
      /\ Ids(F \cup n.ended, "group", "completed") = Ids(F \cup k.ended, "group", "completed")
      /\ Ids(F \cup n.ended, "group", "expired") = Ids(F \cup k.ended, "group", "expired")
  <2>1. n.ended = k.ended \cup {<<"datagram", id, t>>}
    OBVIOUS
  <2>2. CASE t = "completed"
    BY <1>2, <2>1, <2>2 DEF Ids
  <2>3. CASE t = "expired"
    BY <1>2, <2>1, <2>3 DEF Ids
  <2>4. QED
    BY <2>2, <2>3
<1>5. Over(F \cup n.ended) = Over(F \cup k.ended) \cup {id}
  BY <1>4 DEF Over
<1>6. /\ Chained(n.originals) /\ Pending(n.originals) = P \ {id}
      /\ \A x \in P \ {id} : n.originals.map[x] = k.originals.map[x]
  BY <1>1, UnlinkFacts, EntryTypes
<1>7. GroupsSane(n, F \cup n.ended)
  BY <1>4 DEF Sane, GroupsSane
<1>8. OriginalsSane(n, F \cup n.ended)
  <2> HIDE DEF C, X
  <2>1. \A x \in Pending(n.originals) : Assembled(n.originals.map[x])
    BY <1>1, <1>6
  <2>2. Remembers(v, Pending(n.originals), Ids(F \cup n.ended, "datagram", "completed"),
                                           Ids(F \cup n.ended, "datagram", "expired"))
    BY <1>3, <1>4, <1>6
  <2>3. QED
    BY <1>3, <1>6, <2>1, <2>2 DEF OriginalsSane
<1>9. OutSane(n, F)
  <2>1. /\ \A i \in DOMAIN k.out : /\ Whole(k.out[i])
                                   /\ k.out[i].id \in Ids(k.ended, "datagram", "completed")
                                   /\ k.out[i].id \notin Over(F)
        /\ \A i, j \in DOMAIN k.out : k.out[i].id = k.out[j].id => i = j
    BY DEF Sane, OutSane
  <2>2. \A x : x \in Ids(k.ended, "datagram", "completed") =>
               x \in Ids(n.ended, "datagram", "completed") /\ x \in C
    BY DEF Ids
  <2>3. CASE n.out = k.out
    BY <2>1, <2>2, <2>3 DEF OutSane
  <2>4. CASE t = "completed" /\ \E d \in Deliveries : d.id = id /\ Whole(d) /\ n.out = Append(k.out, d)
    <3>1. PICK d \in Deliveries : d.id = id /\ Whole(d) /\ n.out = Append(k.out, d)
      BY <2>4
    <3>2. k.out \in Seq(Deliveries)
      BY <1>1, ReceiverTypes
    <3>3. /\ DOMAIN n.out = DOMAIN k.out \cup {Len(k.out) + 1} /\ n.out[Len(k.out) + 1] = d
          /\ \A i \in DOMAIN k.out : n.out[i] = k.out[i] /\ i # Len(k.out) + 1
      BY <3>1, <3>2
    <3>4. id \in Ids(n.ended, "datagram", "completed") /\ id \notin Over(F)
      <4>1. id \notin Over(F \cup k.ended)
        BY <1>2 DEF Over
      <4>2. QED
        BY <1>2, <2>4, <4>1 DEF Ids, Over
    <3>5. \A i \in DOMAIN k.out : k.out[i].id # id
      BY <1>2, <2>1, <2>2
    <3> DEFINE l == Len(k.out) + 1
    <3> HIDE DEF l
    <3>6. /\ DOMAIN n.out = DOMAIN k.out \cup {l} /\ n.out[l] = d
          /\ \A i \in DOMAIN k.out : n.out[i] = k.out[i] /\ i # l
      BY <3>3 DEF l
    <3>7. \A i \in DOMAIN n.out : /\ Whole(n.out[i])
                                  /\ n.out[i].id \in Ids(n.ended, "datagram", "completed")
                                  /\ n.out[i].id \notin Over(F)
      BY <2>1, <2>2, <3>1, <3>4, <3>6
    <3>8. \A i, j \in DOMAIN n.out : n.out[i].id = n.out[j].id => i = j
      BY <2>1, <3>1, <3>5, <3>6
    <3>9. QED
      BY <3>7, <3>8 DEF OutSane
  <2>5. QED
    BY <2>3, <2>4
<1>10. \A f \in Fragments : Settled(w, k.originals, Over(F \cup k.ended), f)
                              => Settled(v, n.originals, Over(F \cup n.ended), f)
  <2>1. \A f \in Fragments : f.id \in Nat
    BY DEF Fragments
  <2> DEFINE new == n.originals
             list == k.originals
             done == Over(F \cup k.ended)
  <2>2. /\ id \in Pending(list) /\ Pending(new) = Pending(list) \ {id}
        /\ \A x \in Pending(list) \ {id} : new.map[x] = list.map[x]
        /\ \A x \in Nat : x # id => State(v, x) = State(w, x)
    BY <1>3, <1>6
  <2> HIDE DEF w, v, new, list, done
  <2>3. \A f \in Fragments : Settled(w, list, done, f) => Settled(v, new, done \cup {id}, f)
    BY <2>1, <2>2, SettledFinish
  <2>4. QED
    BY <1>5, <2>3 DEF w, v, new, list, done
<1>11. Kept(n, F \cup n.ended)
  <2>1. Kept(k, F \cup k.ended)
    BY DEF Sane
  <2>2. \A x \in GroupIDs : \A i \in DOMAIN Sent(x) : Sent(x)[i] \in Fragments
    BY <1>1, SentFacts
  <2>3. QED
    BY <1>4, <1>10, <2>1, <2>2 DEF Kept, SettledAll
<1>12. QED
  BY <1>1, <1>3, <1>5, <1>6, <1>7, <1>8, <1>9, <1>10, <1>11 DEF Sane

Gone(k, n, id) ==
    /\ Pending(n.groups) = Pending(k.groups) \ {id}
    /\ \A x \in Pending(k.groups) \ {id} : n.groups.map[x] = k.groups.map[x]

\* A group completes, or expires.
LEMMA GroupEnds ==
    ASSUME NEW F, NEW k, Sane(k, F), NEW id \in Pending(k.groups), NEW t \in {"completed", "expired"},
           NEW n \in Receivers, n.originals = k.originals, n.datagramWindow = k.datagramWindow, n.out = k.out,
           n.groups = Unlink(k.groups, id), n.groupWindow = Finish(k.groupWindow, id, t),
           n.ended = k.ended \cup {<<"group", id, t>>},
           t = "completed" => SettledAll(k, F \cup k.ended, id)
    PROVE  Sane(n, F) /\ Gone(k, n, id)
<1> DEFINE C == Ids(F \cup k.ended, "group", "completed")
           X == Ids(F \cup k.ended, "group", "expired")
           P == Pending(k.groups)
           w == k.groupWindow
           v == n.groupWindow
<1>1. /\ k \in Receivers /\ scenario \in Scenarios /\ WindowOK(w) /\ Remembers(w, P, C, X)
      /\ Chained(k.groups) /\ k.groups \in Lists(GroupEntries)
      /\ \A x \in P : x \in GroupIDs /\ (k.groups.map[x].decoded => Decodes(x))
  BY ReceiverTypes DEF Sane, GroupsSane
<1>2. id \in IDs /\ id \in Nat /\ id \notin C \cup X
  BY <1>1, PendingState
<1>3. /\ WindowOK(v)
      /\ t = "completed" => Remembers(v, P \ {id}, C \cup {id}, X)
      /\ t = "expired" => Remembers(v, P \ {id}, C, X \cup {id})
  <2> HIDE DEF C, X, P
  <2>1. id \in P
    BY DEF P
  <2>2. v = Finish(w, id, t)
    OBVIOUS
  <2> HIDE DEF w, v
  <2>3. WindowOK(w) /\ Remembers(w, P, C, X)
    BY <1>1
  <2>4. WindowOK(v)
    BY <2>1, <2>2, <2>3, RememberFinish
  <2>6. t = "completed" => Remembers(v, P \ {id}, C \cup {id}, X)
    BY <2>1, <2>2, <2>3, RememberFinish
  <2>7. t = "expired" => Remembers(v, P \ {id}, C, X \cup {id})
    BY <2>1, <2>2, <2>3, RememberFinish
  <2>8. QED
    BY <2>4, <2>6, <2>7
<1>4. /\ t = "completed" => /\ Ids(F \cup n.ended, "group", "completed") = C \cup {id}
                             /\ Ids(F \cup n.ended, "group", "expired") = X
      /\ t = "expired" => /\ Ids(F \cup n.ended, "group", "completed") = C
                           /\ Ids(F \cup n.ended, "group", "expired") = X \cup {id}
      /\ Ids(F \cup n.ended, "datagram", "completed") = Ids(F \cup k.ended, "datagram", "completed")
      /\ Ids(F \cup n.ended, "datagram", "expired") = Ids(F \cup k.ended, "datagram", "expired")
      /\ Ids(n.ended, "datagram", "completed") = Ids(k.ended, "datagram", "completed")
  <2>1. n.ended = k.ended \cup {<<"group", id, t>>}
    OBVIOUS
  <2>2. CASE t = "completed"
    BY <1>2, <2>1, <2>2 DEF Ids
  <2>3. CASE t = "expired"
    BY <1>2, <2>1, <2>3 DEF Ids
  <2>4. QED
    BY <2>2, <2>3
<1>5. Over(F \cup n.ended) = Over(F \cup k.ended)
  BY <1>4 DEF Over
<1>6. /\ Chained(n.groups) /\ Pending(n.groups) = P \ {id}
      /\ \A x \in P \ {id} : n.groups.map[x] = k.groups.map[x]
  BY <1>1, UnlinkFacts, EntryTypes
<1>7. OriginalsSane(n, F \cup n.ended)
  BY <1>4 DEF Sane, OriginalsSane
<1>8. GroupsSane(n, F \cup n.ended)
  <2> HIDE DEF C, X
  <2>1. \A x \in Pending(n.groups) : x \in GroupIDs /\ (n.groups.map[x].decoded => Decodes(x))
    BY <1>1, <1>6
  <2>2. Remembers(v, Pending(n.groups), Ids(F \cup n.ended, "group", "completed"),
                                        Ids(F \cup n.ended, "group", "expired"))
    BY <1>3, <1>4, <1>6
  <2>3. QED
    BY <1>3, <1>6, <2>1, <2>2 DEF GroupsSane
<1>9. OutSane(n, F)
  BY <1>4 DEF Sane, OutSane
<1>10. Kept(n, F \cup n.ended)
  <2>1. Kept(k, F \cup k.ended)
    BY DEF Sane
  <2>2. \A x \in Ids(F \cup n.ended, "group", "completed") : x \in C \/ (x = id /\ t = "completed")
    BY <1>4
  <2>3. \A x \in GroupIDs : SettledAll(n, F \cup n.ended, x) <=> SettledAll(k, F \cup k.ended, x)
    BY <1>5 DEF SettledAll
  <2>4. QED
    BY <2>1, <2>2, <2>3 DEF Kept
<1>11. QED
  BY <1>1, <1>6, <1>7, <1>8, <1>9, <1>10 DEF Sane, Gone

\* Datagram id is new in n.
Begun(k, n, id, entry, F) ==
    /\ Sane(n, F)
    /\ Pending(n.originals) = Pending(k.originals) \cup {id} /\ n.originals.map[id] = entry
    /\ \A x \in Pending(k.originals) : n.originals.map[x] = k.originals.map[x]
    /\ \A x \in Nat : x > id => State(n.datagramWindow, x) = State(k.datagramWindow, x)
    /\ \A f \in Fragments : Settled(k.datagramWindow, k.originals, Over(F \cup k.ended), f)
                              => Settled(n.datagramWindow, n.originals, Over(F \cup n.ended), f)

\* A Datagram has its first fragment announced: Admit and addPending.
LEMMA OriginalBegins ==
    ASSUME NEW F, NEW k, Sane(k, F), NEW id \in IDs, id \notin Pending(k.originals),
           State(k.datagramWindow, id) = "unseen", NEW entry \in OriginalEntries, entry.age = 0, Assembled(entry),
           NEW n \in Receivers, n.groups = k.groups, n.groupWindow = k.groupWindow, n.out = k.out, n.ended = k.ended,
           n.originals = Link(k.originals, id, entry), n.datagramWindow = Admit(k.datagramWindow, id)
    PROVE  Begun(k, n, id, entry, F)
<1> DEFINE C == Ids(F \cup k.ended, "datagram", "completed")
           X == Ids(F \cup k.ended, "datagram", "expired")
           P == Pending(k.originals)
           w == k.datagramWindow
           v == n.datagramWindow
<1>1. /\ k \in Receivers /\ scenario \in Scenarios /\ WindowOK(w) /\ Remembers(w, P, C, X)
      /\ Chained(k.originals) /\ k.originals \in Lists(OriginalEntries)
      /\ \A x \in P : Assembled(k.originals.map[x])
  BY ReceiverTypes DEF Sane, OriginalsSane
<1>2. /\ WindowOK(Admit(w, id))
      /\ \A x \in Nat : State(w, x) = "retired" => State(Admit(w, id), x) = "retired"
      /\ \A x \in Nat : x > id => State(Admit(w, id), x) = State(w, x)
  BY <1>1, AdmitState DEF IDs
<1>3. Remembers(Admit(w, id), P \cup {id}, C, X)
  <2> HIDE DEF C, X, P
  <2>1. State(w, id) = "unseen"
    OBVIOUS
  <2> HIDE DEF w
  <2>2. QED
    BY <1>1, <2>1, RememberAdmit
<1>4. /\ Chained(n.originals) /\ Pending(n.originals) = P \cup {id} /\ n.originals.map[id] = entry
      /\ \A x \in P : n.originals.map[x] = k.originals.map[x]
  BY <1>1, LinkFacts, EntryTypes
<1>5. v = Admit(w, id)
  OBVIOUS
<1>6. GroupsSane(n, F \cup n.ended)
  BY DEF Sane, GroupsSane
<1>7. OriginalsSane(n, F \cup n.ended)
  <2> HIDE DEF C, X
  <2>1. \A x \in Pending(n.originals) : Assembled(n.originals.map[x])
    BY <1>1, <1>4
  <2>2. Remembers(v, Pending(n.originals), C, X)
    BY <1>3, <1>4, <1>5
  <2>3. QED
    BY <1>2, <1>4, <1>5, <2>1, <2>2 DEF OriginalsSane, C, X
<1>8. OutSane(n, F)
  BY DEF Sane, OutSane
<1>9. \A f \in Fragments : Settled(w, k.originals, Over(F \cup k.ended), f)
                             => Settled(v, n.originals, Over(F \cup n.ended), f)
  <2>1. \A f \in Fragments : f.id \in Nat
    BY DEF Fragments
  <2> DEFINE new == n.originals
             list == k.originals
             done == Over(F \cup k.ended)
  <2>2. /\ id \notin Pending(list) /\ State(w, id) = "unseen"
        /\ Pending(new) = Pending(list) \cup {id} /\ \A x \in Pending(list) : new.map[x] = list.map[x]
        /\ \A x \in Nat : State(w, x) = "retired" => State(v, x) = "retired"
    BY <1>2, <1>4, <1>5
  <2> HIDE DEF w, v, new, list, done
  <2>3. \A f \in Fragments : Settled(w, list, done, f) => Settled(v, new, done, f)
    BY <2>1, <2>2, SettledLink
  <2>4. QED
    BY <2>3 DEF w, v, new, list, done
<1>10. Kept(n, F \cup n.ended)
  <2>1. Kept(k, F \cup k.ended)
    BY DEF Sane
  <2>2. \A x \in GroupIDs : \A i \in DOMAIN Sent(x) : Sent(x)[i] \in Fragments
    BY <1>1, SentFacts
  <2>3. QED
    BY <1>9, <2>1, <2>2 DEF Kept, SettledAll
<1>11. QED
  BY <1>1, <1>2, <1>4, <1>5, <1>6, <1>7, <1>8, <1>9, <1>10 DEF Sane, Begun

\* A Datagram has a range more.
LEMMA OriginalGrows ==
    ASSUME NEW F, NEW k, Sane(k, F), NEW id \in Pending(k.originals), NEW entry \in OriginalEntries,
           Continues(k.originals.map[id], entry), Assembled(entry),
           NEW n \in Receivers, n.groups = k.groups, n.groupWindow = k.groupWindow, n.out = k.out, n.ended = k.ended,
           n.originals = Put(k.originals, id, entry), n.datagramWindow = k.datagramWindow
    PROVE  /\ Sane(n, F)
           /\ Pending(n.originals) = Pending(k.originals) /\ n.originals.map[id] = entry
           /\ \A x \in Pending(k.originals) \ {id} : n.originals.map[x] = k.originals.map[x]
           /\ \A f \in Fragments : Settled(k.datagramWindow, k.originals, Over(F \cup k.ended), f)
                                     => Settled(n.datagramWindow, n.originals, Over(F \cup n.ended), f)
<1> DEFINE P == Pending(k.originals)
<1>1. /\ k \in Receivers /\ scenario \in Scenarios
      /\ Chained(k.originals) /\ k.originals \in Lists(OriginalEntries)
      /\ \A x \in P : Assembled(k.originals.map[x])
  BY ReceiverTypes DEF Sane, OriginalsSane
<1>2. /\ Chained(n.originals) /\ Pending(n.originals) = P /\ n.originals.map[id] = entry
      /\ \A x \in P \ {id} : n.originals.map[x] = k.originals.map[x]
  BY <1>1, PutFacts DEF Continues
<1>3. GroupsSane(n, F \cup n.ended)
  BY DEF Sane, GroupsSane
<1>4. OriginalsSane(n, F \cup n.ended)
  <2>1. \A x \in Pending(n.originals) : Assembled(n.originals.map[x])
    BY <1>1, <1>2
  <2>2. QED
    BY <1>2, <2>1 DEF Sane, OriginalsSane
<1>5. OutSane(n, F)
  BY DEF Sane, OutSane
<1>6. \A f \in Fragments : Settled(k.datagramWindow, k.originals, Over(F \cup k.ended), f)
                             => Settled(n.datagramWindow, n.originals, Over(F \cup n.ended), f)
  <2>1. \A x \in P : k.originals.map[x].ranges \subseteq n.originals.map[x].ranges
    BY <1>2 DEF Continues
  <2>2. QED
    BY <1>2, <2>1, SettledPut
<1>7. Kept(n, F \cup n.ended)
  <2>1. Kept(k, F \cup k.ended)
    BY DEF Sane
  <2>2. \A x \in GroupIDs : \A i \in DOMAIN Sent(x) : Sent(x)[i] \in Fragments
    BY <1>1, SentFacts
  <2>3. QED
    BY <1>6, <2>1, <2>2 DEF Kept, SettledAll
<1>8. QED
  BY <1>1, <1>2, <1>3, <1>4, <1>5, <1>6, <1>7 DEF Sane

\* The group of id is new in n; it has another entry in n.
Joined(k, n, id, entry) ==
    /\ Pending(n.groups) = Pending(k.groups) \cup {id} /\ n.groups.map[id] = entry
    /\ \A x \in Pending(k.groups) : n.groups.map[x] = k.groups.map[x]
Changed(k, n, id, entry) ==
    /\ Pending(n.groups) = Pending(k.groups) /\ n.groups.map[id] = entry
    /\ \A x \in Pending(k.groups) \ {id} : n.groups.map[x] = k.groups.map[x]

\* reserveGroup and insertGroup.
LEMMA GroupBegins ==
    ASSUME NEW F, NEW k, Sane(k, F), NEW id \in GroupIDs, id \notin Pending(k.groups),
           State(k.groupWindow, id) = "unseen", NEW entry \in GroupEntries, entry.age = 0, ~entry.decoded,
           NEW n \in Receivers, n.originals = k.originals, n.datagramWindow = k.datagramWindow,
           n.out = k.out, n.ended = k.ended,
           n.groups = Link(k.groups, id, entry), n.groupWindow = Admit(k.groupWindow, id)
    PROVE  Sane(n, F) /\ Joined(k, n, id, entry)
<1> DEFINE C == Ids(F \cup k.ended, "group", "completed")
           X == Ids(F \cup k.ended, "group", "expired")
           P == Pending(k.groups)
           w == k.groupWindow
<1>1. /\ k \in Receivers /\ scenario \in Scenarios /\ WindowOK(w) /\ Remembers(w, P, C, X)
      /\ Chained(k.groups) /\ k.groups \in Lists(GroupEntries)
      /\ \A x \in P : x \in GroupIDs /\ (k.groups.map[x].decoded => Decodes(x))
  BY ReceiverTypes DEF Sane, GroupsSane
<1>2. id \in IDs /\ id \in Nat
  BY <1>1, SentFacts DEF IDs
<1>3. WindowOK(Admit(w, id)) /\ n.groupWindow = Admit(w, id)
  BY <1>1, <1>2, AdmitState
<1>4. Remembers(Admit(w, id), P \cup {id}, C, X)
  <2> HIDE DEF C, X, P
  <2>1. State(w, id) = "unseen"
    OBVIOUS
  <2> HIDE DEF w
  <2>2. QED
    BY <1>1, <1>2, <2>1, RememberAdmit
<1>5. /\ Chained(n.groups) /\ Pending(n.groups) = P \cup {id} /\ n.groups.map[id] = entry
      /\ \A x \in P : n.groups.map[x] = k.groups.map[x]
  BY <1>1, <1>2, LinkFacts, EntryTypes
<1>6. OriginalsSane(n, F \cup n.ended) /\ OutSane(n, F)
  BY DEF Sane, OriginalsSane, OutSane
<1>7. GroupsSane(n, F \cup n.ended)
  <2> HIDE DEF C, X
  <2>1. \A x \in Pending(n.groups) : x \in GroupIDs /\ (n.groups.map[x].decoded => Decodes(x))
    BY <1>1, <1>5
  <2>2. Remembers(n.groupWindow, Pending(n.groups), C, X)
    BY <1>3, <1>4, <1>5
  <2>3. QED
    BY <1>3, <1>5, <2>1, <2>2 DEF GroupsSane, C, X
<1>8. Kept(n, F \cup n.ended)
  BY DEF Sane, Kept, SettledAll
<1>9. QED
  BY <1>1, <1>5, <1>6, <1>7, <1>8 DEF Sane, Joined

\* A group has a shard more, or is decoded.
LEMMA GroupChanges ==
    ASSUME NEW F, NEW k, Sane(k, F), NEW id \in Pending(k.groups), NEW entry \in GroupEntries,
           entry.age = k.groups.map[id].age, entry.decoded => Decodes(id),
           NEW n \in Receivers, n.originals = k.originals, n.datagramWindow = k.datagramWindow,
           n.out = k.out, n.ended = k.ended, n.groups = Put(k.groups, id, entry), n.groupWindow = k.groupWindow
    PROVE  Sane(n, F) /\ Changed(k, n, id, entry)
<1> DEFINE P == Pending(k.groups)
<1>1. /\ k \in Receivers /\ scenario \in Scenarios
      /\ Chained(k.groups) /\ k.groups \in Lists(GroupEntries)
      /\ \A x \in P : x \in GroupIDs /\ (k.groups.map[x].decoded => Decodes(x))
  BY ReceiverTypes DEF Sane, GroupsSane
<1>2. /\ Chained(n.groups) /\ Pending(n.groups) = P /\ n.groups.map[id] = entry
      /\ \A x \in P \ {id} : n.groups.map[x] = k.groups.map[x]
  BY <1>1, PutFacts
<1>3. OriginalsSane(n, F \cup n.ended) /\ OutSane(n, F)
  BY DEF Sane, OriginalsSane, OutSane
<1>4. GroupsSane(n, F \cup n.ended)
  <2>1. \A x \in Pending(n.groups) : x \in GroupIDs /\ (n.groups.map[x].decoded => Decodes(x))
    BY <1>1, <1>2
  <2>2. QED
    BY <1>2, <2>1 DEF Sane, GroupsSane
<1>5. Kept(n, F \cup n.ended)
  BY DEF Sane, Kept, SettledAll
<1>6. QED
  BY <1>1, <1>2, <1>3, <1>4, <1>5 DEF Sane, Changed

----------------------------------------------------------------------------
(* AddGroup                                                                *)

SettledIn(k, F, f) == Settled(k.datagramWindow, k.originals, Over(F \cup k.ended), f)

\* Between k and n only Datagram id and older ones changed.
Touched(k, n, id, F) ==
    /\ Sane(n, F)
    /\ n.groups = k.groups /\ n.groupWindow = k.groupWindow /\ n.decodedGroups = k.decodedGroups
    /\ n.retryWait = k.retryWait /\ n.closed = k.closed
    /\ \A x \in Nat : x > id => /\ x \in Pending(n.originals) <=> x \in Pending(k.originals)
                                /\ x \in Pending(k.originals) => n.originals.map[x] = k.originals.map[x]
                                /\ State(n.datagramWindow, x) = State(k.datagramWindow, x)
    /\ \A f \in Fragments : SettledIn(k, F, f) => SettledIn(n, F, f)

LEMMA SaneParts ==
    ASSUME NEW F, NEW k, Sane(k, F)
    PROVE  /\ k \in Receivers /\ scenario \in Scenarios
           /\ k.originals \in Lists(OriginalEntries) /\ Chained(k.originals)
           /\ k.groups \in Lists(GroupEntries) /\ Chained(k.groups)
           /\ WindowOK(k.groupWindow) /\ WindowOK(k.datagramWindow)
           /\ Pending(k.originals) \subseteq IDs /\ Pending(k.groups) \subseteq IDs
           /\ \A x \in Pending(k.originals) : k.originals.map[x] \in OriginalEntries
           /\ \A x \in Pending(k.groups) : k.groups.map[x] \in GroupEntries
           /\ k.used \in Int /\ k.decodedGroups \in Int /\ k.retryWait \in BOOLEAN /\ k.closed \in BOOLEAN
           /\ k.out \in Seq(Deliveries) /\ k.ended \in SUBSET Fates
<1>1. k \in Receivers /\ scenario \in Scenarios
  BY DEF Sane
<1>2. Chained(k.groups) /\ WindowOK(k.groupWindow) /\ Chained(k.originals) /\ WindowOK(k.datagramWindow)
  BY DEF Sane, GroupsSane, OriginalsSane
<1>3. k.originals \in Lists(OriginalEntries) /\ k.groups \in Lists(GroupEntries)
  BY <1>1, ReceiverTypes
<1>4. /\ Pending(k.originals) \subseteq IDs /\ Pending(k.groups) \subseteq IDs
      /\ \A x \in Pending(k.originals) : k.originals.map[x] \in OriginalEntries
      /\ \A x \in Pending(k.groups) : k.groups.map[x] \in GroupEntries
  BY <1>3, ListFacts
<1>5. QED
  BY <1>1, <1>2, <1>3, <1>4, ReceiverTypes

LEMMA LinkChargeType == LinkCharge \in Nat /\ DecodedCharge \in Nat /\ GroupCharge \in Nat /\ Credit \in Nat
BY LimitsAssumption

\* The end of a pending Datagram keeps both the list and the ring well typed.
LEMMA EndTypes ==
    ASSUME NEW F, NEW k, Sane(k, F), NEW id \in Pending(k.originals), NEW t \in {"completed", "expired"}
    PROVE  /\ Unlink(k.originals, id) \in Lists(OriginalEntries)
           /\ Finish(k.datagramWindow, id, t) \in Windows
           /\ k.ended \cup {<<"datagram", id, t>>} \in SUBSET Fates
           /\ id \in Nat /\ id \in IDs
<1> DEFINE list == k.originals
           w == k.datagramWindow
           C == Ids(F \cup k.ended, "datagram", "completed")
           X == Ids(F \cup k.ended, "datagram", "expired")
           v == Finish(w, id, t)
<1>1. list \in Lists(OriginalEntries) /\ Chained(list) /\ WindowOK(w) /\ k.ended \in SUBSET Fates
  BY SaneParts
<1>2. Remembers(w, Pending(list), C, X)
  BY DEF Sane, OriginalsSane
<1>3. id \in Pending(list)
  OBVIOUS
<1>4. v = Finish(w, id, t)
  OBVIOUS
<1> HIDE DEF list, w, C, X, v
<1>5. WindowOK(v)
  BY <1>1, <1>2, <1>3, <1>4, RememberFinish
<1>6. Unlink(list, id) \in Lists(OriginalEntries)
  BY <1>1, <1>3, UnlinkFacts, EntryTypes
<1>7. id \in IDs /\ id \in Nat
  BY <1>1, <1>2, <1>3, PendingState
<1>8. <<"datagram", id, t>> \in Fates
  BY <1>7 DEF Fates
<1>9. QED
  BY <1>1, <1>5, <1>6, <1>7, <1>8 DEF WindowOK, list, w, v

LEMMA ExpireFields ==
    ASSUME NEW F, NEW k, Sane(k, F), NEW id \in Pending(k.originals)
    PROVE  LET n == ExpireOriginal(k, id)
           IN  /\ n \in Receivers /\ n.groups = k.groups /\ n.groupWindow = k.groupWindow
               /\ n.decodedGroups = k.decodedGroups /\ n.retryWait = k.retryWait /\ n.closed = k.closed
               /\ n.out = k.out /\ n.originals = Unlink(k.originals, id)
               /\ n.datagramWindow = Finish(k.datagramWindow, id, "expired")
               /\ n.ended = k.ended \cup {<<"datagram", id, "expired">>}
               /\ n.used = k.used - k.originals.map[id].total - LinkCharge
<1> DEFINE l == Unlink(k.originals, id)
           v == Finish(k.datagramWindow, id, "expired")
           e == k.ended \cup {<<"datagram", id, "expired">>}
           u == k.used - k.originals.map[id].total - LinkCharge
<1>1. l \in Lists(OriginalEntries) /\ v \in Windows /\ e \in SUBSET Fates
  BY EndTypes
<1>2. u \in Int
  <2>1. k.used \in Int /\ k.originals.map[id] \in OriginalEntries
    BY SaneParts
  <2>2. k.originals.map[id].total \in Nat
    BY <2>1 DEF OriginalEntries
  <2>3. QED
    BY <2>1, <2>2, LinkChargeType
<1>3. ExpireOriginal(k, id) = [k EXCEPT !.datagramWindow = v, !.originals = l, !.used = u, !.ended = e]
  BY DEF ExpireOriginal
<1>4. k \in Receivers
  BY SaneParts
<1> HIDE DEF l, v, e, u
<1>5. QED
  BY <1>1, <1>2, <1>3, <1>4 DEF Receivers, l, v, e, u

LEMMA ExpireStep ==
    ASSUME NEW F, NEW k, Sane(k, F), NEW id \in Pending(k.originals)
    PROVE  LET n == ExpireOriginal(k, id)
           IN  /\ Touched(k, n, id, F) /\ id \in Over(F \cup n.ended)
               /\ Pending(n.originals) = Pending(k.originals) \ {id}
<1> DEFINE n == ExpireOriginal(k, id)
<1>1. /\ n \in Receivers /\ n.groups = k.groups /\ n.groupWindow = k.groupWindow
      /\ n.decodedGroups = k.decodedGroups /\ n.retryWait = k.retryWait /\ n.closed = k.closed
      /\ n.out = k.out /\ n.originals = Unlink(k.originals, id)
      /\ n.datagramWindow = Finish(k.datagramWindow, id, "expired")
      /\ n.ended = k.ended \cup {<<"datagram", id, "expired">>}
  BY ExpireFields
<1>2. id \in Nat
  BY EndTypes
<1> HIDE DEF n
<1>3. /\ Sane(n, F) /\ id \in Over(F \cup n.ended)
      /\ Pending(n.originals) = Pending(k.originals) \ {id}
      /\ \A x \in Pending(k.originals) \ {id} : n.originals.map[x] = k.originals.map[x]
      /\ \A x \in Nat : x # id => State(n.datagramWindow, x) = State(k.datagramWindow, x)
      /\ \A f \in Fragments : Settled(k.datagramWindow, k.originals, Over(F \cup k.ended), f)
                                => Settled(n.datagramWindow, n.originals, Over(F \cup n.ended), f)
  BY <1>1, OriginalEnds
<1>4. \A x \in Nat : x > id => x # id
  BY <1>2
<1>5. Touched(k, n, id, F)
  BY <1>1, <1>3, <1>4 DEF Touched, SettledIn
<1>6. QED
  BY <1>3, <1>5 DEF n

\* inspect found room for f in its Datagram.
Fits(k, f) ==
    f \in Fragments /\ f.id \in Pending(k.originals) /\ Apart(k.originals.map[f.id], f)
Grown(k, f) == Grow(k.originals.map[f.id], f)
Delivery(k, f) == [id |-> f.id, total |-> k.originals.map[f.id].total, ranges |-> Grown(k, f).ranges]

LEMMA GrownFacts ==
    ASSUME NEW F, NEW k, Sane(k, F), NEW f, Fits(k, f)
    PROVE  LET a == k.originals.map[f.id]
               g == Grown(k, f)
               d == Delivery(k, f)
           IN  /\ g \in OriginalEntries /\ Continues(a, g) /\ HasRange(g, f)
               /\ Assembled(g) /\ a.total \in Nat /\ f.id \in Nat /\ f.id \in IDs
               /\ g.received = a.total => d \in Deliveries /\ d.id = f.id /\ d.total = a.total /\ Whole(d)
<1> DEFINE a == k.originals.map[f.id]
           g == Grown(k, f)
           d == Delivery(k, f)
<1>1. a \in OriginalEntries /\ f.id \in IDs /\ f.id \in Nat /\ f \in Fragments
  BY SaneParts DEF Fits, IDs
<1>2. Assembled(a)
  BY DEF Sane, OriginalsSane, Fits
<1>3. Apart(a, f)
  BY DEF Fits
<1>4. g = Grow(a, f)
  BY DEF Grown
<1>5. d = [id |-> f.id, total |-> a.total, ranges |-> g.ranges]
  BY DEF Delivery
<1>6. a.total \in Nat
  BY <1>1 DEF OriginalEntries
<1> HIDE DEF a, g, d
<1>7. g \in OriginalEntries /\ Continues(a, g) /\ HasRange(g, f) /\ Assembled(g)
  BY <1>1, <1>2, <1>3, <1>4, GrowFacts
<1>8. g.received = a.total => d \in Deliveries /\ d.id = f.id /\ d.total = a.total /\ Whole(d)
  BY <1>1, <1>2, <1>3, <1>4, <1>5, GrowFacts
<1>9. QED
  BY <1>1, <1>6, <1>7, <1>8 DEF a, g, d

\* A fragment that does not complete its Datagram.
LEMMA InsertMore ==
    ASSUME NEW F, NEW k, Sane(k, F), NEW f, Fits(k, f), Grown(k, f).received # k.originals.map[f.id].total
    PROVE  LET n == Insert(k, f)
           IN  /\ n \in Receivers /\ n.groups = k.groups /\ n.groupWindow = k.groupWindow
               /\ n.decodedGroups = k.decodedGroups /\ n.retryWait = k.retryWait /\ n.closed = k.closed
               /\ n.out = k.out /\ n.ended = k.ended /\ n.datagramWindow = k.datagramWindow /\ n.used = k.used
               /\ n.originals = Put(k.originals, f.id, Grown(k, f))
<1> DEFINE l == Put(k.originals, f.id, Grown(k, f))
<1>1. l \in Lists(OriginalEntries)
  <2>1. Grown(k, f) \in OriginalEntries /\ Grown(k, f).age = k.originals.map[f.id].age
    BY GrownFacts DEF Continues
  <2>2. f.id \in Pending(k.originals)
    BY DEF Fits
  <2>3. QED
    BY <2>1, <2>2, PutFacts, SaneParts
<1>2. Insert(k, f) = [k EXCEPT !.originals = l]
  BY DEF Insert, Grown, Grow
<1>3. k \in Receivers
  BY SaneParts
<1> HIDE DEF l
<1>4. QED
  BY <1>1, <1>2, <1>3 DEF Receivers, l

\* The last fragment of a Datagram.
LEMMA InsertLast ==
    ASSUME NEW F, NEW k, Sane(k, F), NEW f, Fits(k, f), Grown(k, f).received = k.originals.map[f.id].total
    PROVE  LET n == Insert(k, f)
           IN  /\ n \in Receivers /\ n.groups = k.groups /\ n.groupWindow = k.groupWindow
               /\ n.decodedGroups = k.decodedGroups /\ n.retryWait = k.retryWait /\ n.closed = k.closed
               /\ n.out = Append(k.out, Delivery(k, f)) /\ n.used = k.used - LinkCharge
               /\ n.originals = Unlink(k.originals, f.id)
               /\ n.datagramWindow = Finish(k.datagramWindow, f.id, "completed")
               /\ n.ended = k.ended \cup {<<"datagram", f.id, "completed">>}
<1> DEFINE l == Unlink(k.originals, f.id)
           v == Finish(k.datagramWindow, f.id, "completed")
           e == k.ended \cup {<<"datagram", f.id, "completed">>}
           u == k.used - LinkCharge
           o == Append(k.out, Delivery(k, f))
<1>1. l \in Lists(OriginalEntries) /\ v \in Windows /\ e \in SUBSET Fates
  BY EndTypes DEF Fits
<1>2. u \in Int /\ o \in Seq(Deliveries)
  <2>1. k.used \in Int /\ k.out \in Seq(Deliveries) /\ Delivery(k, f) \in Deliveries
    BY SaneParts, GrownFacts
  <2>2. QED
    BY <2>1, LinkChargeType
<1>3. Insert(k, f) = [k EXCEPT !.datagramWindow = v, !.originals = l, !.used = u, !.out = o, !.ended = e]
  <2> DEFINE g == Grown(k, f)
  <2>1. Insert(k, f) = IF g.received # k.originals.map[f.id].total
                       THEN [k EXCEPT !.originals = Put(k.originals, f.id, g)]
                       ELSE [k EXCEPT !.datagramWindow = v, !.originals = l, !.used = u,
                                      !.out = Append(k.out, [id |-> f.id, total |-> k.originals.map[f.id].total,
                                                             ranges |-> g.ranges]),
                                      !.ended = e]
    BY DEF Insert, Grown, Grow
  <2>2. g.received = k.originals.map[f.id].total
    OBVIOUS
  <2>3. o = Append(k.out, [id |-> f.id, total |-> k.originals.map[f.id].total, ranges |-> g.ranges])
    BY DEF Delivery
  <2> HIDE DEF g, v, l, u, e, o
  <2>4. QED
    BY <2>1, <2>2, <2>3
<1>4. k \in Receivers
  BY SaneParts
<1> HIDE DEF l, v, e, u, o
<1>5. QED
  BY <1>1, <1>2, <1>3, <1>4 DEF Receivers, l, v, e, u, o

LEMMA InsertStep ==
    ASSUME NEW F, NEW k, Sane(k, F), NEW f, Fits(k, f)
    PROVE  LET n == Insert(k, f)
           IN  Touched(k, n, f.id, F) /\ SettledIn(n, F, f)
<1> DEFINE n == Insert(k, f)
           id == f.id
           g == Grown(k, f)
           a == k.originals.map[f.id]
<1>1. id \in Pending(k.originals) /\ id \in Nat /\ \A x \in Nat : x > id => x # id
  BY GrownFacts DEF Fits
<1>2. g \in OriginalEntries /\ Continues(a, g) /\ HasRange(g, f) /\ Assembled(g)
  BY GrownFacts
<1>3. CASE g.received # a.total
  <2>1. /\ n \in Receivers /\ n.groups = k.groups /\ n.groupWindow = k.groupWindow
        /\ n.decodedGroups = k.decodedGroups /\ n.retryWait = k.retryWait /\ n.closed = k.closed
        /\ n.out = k.out /\ n.ended = k.ended /\ n.datagramWindow = k.datagramWindow
        /\ n.originals = Put(k.originals, id, g)
    BY <1>3, InsertMore
  <2> HIDE DEF n, g, id
  <2>2. Continues(k.originals.map[id], g)
    BY <1>2 DEF id
  <2>3. /\ Sane(n, F)
        /\ Pending(n.originals) = Pending(k.originals) /\ n.originals.map[id] = g
        /\ \A x \in Pending(k.originals) \ {id} : n.originals.map[x] = k.originals.map[x]
        /\ \A h \in Fragments : Settled(k.datagramWindow, k.originals, Over(F \cup k.ended), h)
                                  => Settled(n.datagramWindow, n.originals, Over(F \cup n.ended), h)
    BY <1>1, <1>2, <2>1, <2>2, OriginalGrows
  <2>4. Touched(k, n, id, F)
    BY <1>1, <2>1, <2>3 DEF Touched, SettledIn
  <2>5. SettledIn(n, F, f)
    BY <1>1, <1>2, <2>3 DEF SettledIn, Settled, HasRange, id
  <2>6. QED
    BY <2>4, <2>5 DEF n, id
<1>4. CASE g.received = a.total
  <2> DEFINE d == Delivery(k, f)
  <2>1. /\ n \in Receivers /\ n.groups = k.groups /\ n.groupWindow = k.groupWindow
        /\ n.decodedGroups = k.decodedGroups /\ n.retryWait = k.retryWait /\ n.closed = k.closed
        /\ n.out = Append(k.out, d) /\ n.originals = Unlink(k.originals, id)
        /\ n.datagramWindow = Finish(k.datagramWindow, id, "completed")
        /\ n.ended = k.ended \cup {<<"datagram", id, "completed">>}
    BY <1>4, InsertLast
  <2>2. d \in Deliveries /\ d.id = id /\ Whole(d)
    BY <1>4, GrownFacts
  <2> HIDE DEF n, g, id, d
  <2>3. \/ n.out = k.out
        \/ "completed" = "completed" /\ \E e \in Deliveries : e.id = id /\ Whole(e) /\ n.out = Append(k.out, e)
    BY <2>1, <2>2
  <2>8. id \in Pending(k.originals) /\ "completed" \in {"completed", "expired"}
    BY <1>1 DEF id
  <2>4. /\ Sane(n, F) /\ id \in Over(F \cup n.ended)
        /\ Pending(n.originals) = Pending(k.originals) \ {id}
        /\ \A x \in Pending(k.originals) \ {id} : n.originals.map[x] = k.originals.map[x]
        /\ \A x \in Nat : x # id => State(n.datagramWindow, x) = State(k.datagramWindow, x)
        /\ \A h \in Fragments : Settled(k.datagramWindow, k.originals, Over(F \cup k.ended), h)
                                  => Settled(n.datagramWindow, n.originals, Over(F \cup n.ended), h)
    BY <2>1, <2>3, <2>8, OriginalEnds, ZenonT(30)
  <2>5. Touched(k, n, id, F)
    BY <1>1, <2>1, <2>4 DEF Touched, SettledIn
  <2>6. SettledIn(n, F, f)
    BY <2>4 DEF SettledIn, Settled, id
  <2>7. QED
    BY <2>5, <2>6 DEF n, id
<1>5. QED
  BY <1>3, <1>4

\* The state before the first fragment of a new Datagram is copied in.
Started(k, f) ==
    [k EXCEPT !.datagramWindow = Admit(@, f.id),
              !.originals = Link(@, f.id, [total |-> f.total, age |-> 0, ranges |-> {}, received |-> 0])]

LEMMA StartFields ==
    ASSUME NEW F, NEW k, Sane(k, F), NEW f \in Fragments, f.id \in IDs, f.id \notin Pending(k.originals),
           State(k.datagramWindow, f.id) = "unseen"
    PROVE  LET n == Started(k, f)
               entry == [total |-> f.total, age |-> 0, ranges |-> {}, received |-> 0]
           IN  /\ entry \in OriginalEntries /\ entry.age = 0 /\ entry.total = f.total /\ entry.ranges = {}
               /\ Assembled(entry)
               /\ n \in Receivers /\ n.groups = k.groups /\ n.groupWindow = k.groupWindow
               /\ n.decodedGroups = k.decodedGroups /\ n.retryWait = k.retryWait /\ n.closed = k.closed
               /\ n.out = k.out /\ n.ended = k.ended /\ n.used = k.used
               /\ n.originals = Link(k.originals, f.id, entry)
               /\ n.datagramWindow = Admit(k.datagramWindow, f.id)
<1> DEFINE entry == [total |-> f.total, age |-> 0, ranges |-> {}, received |-> 0]
           l == Link(k.originals, f.id, entry)
           v == Admit(k.datagramWindow, f.id)
<1>1. entry \in OriginalEntries /\ entry.age = 0 /\ entry.total = f.total /\ entry.ranges = {} /\ entry.received = 0
  BY DEF OriginalEntries, Fragments
<1>2. Started(k, f) = [k EXCEPT !.datagramWindow = v, !.originals = l]
  BY DEF Started
<1> HIDE DEF entry
<1>3. Assembled(entry)
  BY <1>1, StartFacts
<1>4. l \in Lists(OriginalEntries)
  BY <1>1, LinkFacts, EntryTypes, SaneParts
<1>5. v \in Windows
  <2>0. WindowOK(k.datagramWindow) /\ f.id \in Nat
    BY SaneParts DEF IDs
  <2>1. WindowOK(v)
    BY <2>0, AdmitState
  <2>2. QED
    BY <2>1 DEF WindowOK
<1>6. k \in Receivers
  BY SaneParts
<1> HIDE DEF l, v
<1>7. LET n == [k EXCEPT !.datagramWindow = v, !.originals = l]
      IN  /\ n \in Receivers /\ n.groups = k.groups /\ n.groupWindow = k.groupWindow
          /\ n.decodedGroups = k.decodedGroups /\ n.retryWait = k.retryWait /\ n.closed = k.closed
          /\ n.out = k.out /\ n.ended = k.ended /\ n.used = k.used
          /\ n.originals = l /\ n.datagramWindow = v
  BY <1>4, <1>5, <1>6 DEF Receivers
<1>8. QED
  BY <1>1, <1>2, <1>3, <1>7 DEF l, v, entry

Canonical(f) == f \in Fragments /\ f.id \in IDs /\ f.id \in Nat /\ f.from <= f.to /\ f.to <= f.total

LEMMA TouchedTrans ==
    ASSUME NEW F, NEW k, NEW m, NEW n, NEW id, Touched(k, m, id, F), Touched(m, n, id, F)
    PROVE  Touched(k, n, id, F)
BY DEF Touched

\* The first fragment of a Datagram.
LEMMA StartStep ==
    ASSUME NEW F, NEW k, Sane(k, F), NEW f, Canonical(f), f.id \notin Pending(k.originals),
           State(k.datagramWindow, f.id) = "unseen"
    PROVE  LET m == Started(k, f)
               n == Insert(m, f)
           IN  /\ Sane(m, F) /\ Fits(m, f) /\ m.originals.map[f.id].total = f.total
               /\ Touched(k, n, f.id, F) /\ SettledIn(n, F, f)
<1> DEFINE m == Started(k, f)
           n == Insert(m, f)
           id == f.id
           entry == [total |-> f.total, age |-> 0, ranges |-> {}, received |-> 0]
<1>1. f \in Fragments /\ id \in IDs /\ id \in Nat /\ f.from <= f.to /\ f.to <= f.total
  BY DEF Canonical
<1>2. /\ entry \in OriginalEntries /\ entry.age = 0 /\ entry.total = f.total /\ entry.ranges = {}
      /\ Assembled(entry)
      /\ m \in Receivers /\ m.groups = k.groups /\ m.groupWindow = k.groupWindow
      /\ m.decodedGroups = k.decodedGroups /\ m.retryWait = k.retryWait /\ m.closed = k.closed
      /\ m.out = k.out /\ m.ended = k.ended
      /\ m.originals = Link(k.originals, id, entry)
      /\ m.datagramWindow = Admit(k.datagramWindow, id)
  BY <1>1, StartFields
<1>3. id \notin Pending(k.originals) /\ State(k.datagramWindow, id) = "unseen"
  OBVIOUS
<1> HIDE DEF m, id, entry
<1>4. Begun(k, m, id, entry, F)
  BY <1>1, <1>2, <1>3, OriginalBegins
<1>5. \A x \in Nat : x > id => x # id
  BY <1>1
<1>6. Touched(k, m, id, F)
  BY <1>2, <1>4, <1>5 DEF Touched, SettledIn, Begun
<1>7. Fits(m, f)
  <2>1. Apart(entry, f)
    BY <1>1, <1>2 DEF Apart
  <2>2. QED
    BY <1>1, <1>4, <2>1 DEF Fits, id, Begun
<1>8. Touched(m, n, id, F) /\ SettledIn(n, F, f)
  BY <1>4, <1>7, InsertStep DEF id, Begun
<1>9. QED
  BY <1>2, <1>4, <1>6, <1>7, <1>8, TouchedTrans DEF m, id, Begun

Plans == {"skip", "new", "expire", "duplicate", "insert", "invalid", "full"}

LEMMA InspectFacts ==
    ASSUME NEW a \in OriginalEntries, NEW f \in Fragments
    PROVE  /\ Inspect(a, f) \in {"duplicate", "insert", "invalid", "full"}
           /\ Inspect(a, f) = "duplicate" => HasRange(a, f)
           /\ Inspect(a, f) = "insert" =>
                 \A r \in a.ranges : ~(IF r.from < f.from THEN r.to > f.from ELSE r.from < f.to)
<1> DEFINE same == {r \in a.ranges : r.from = f.from /\ r.to = f.to}
           Clash == \E r \in same : r.body # f.body
           Meets == \E r \in a.ranges : IF r.from < f.from THEN r.to > f.from ELSE r.from < f.to
           room == IF Cardinality(a.ranges) = MaxFragments THEN "full" ELSE "insert"
<1>1. Inspect(a, f) = CASE Clash -> "invalid"
                        [] same # {} /\ \A r \in same : r.body = f.body -> "duplicate"
                        [] same = {} /\ Meets -> "invalid"
                        [] OTHER -> room
  BY DEF Inspect
<1>2. same # {} => HasRange(a, f)
  BY DEF HasRange
<1>3. Clash => same # {}
  OBVIOUS
<1>4. (\A r \in same : r.body = f.body) <=> ~Clash
  OBVIOUS
<1>5. room \in {"full", "insert"}
  OBVIOUS
<1>6. ~Meets => \A r \in a.ranges : ~(IF r.from < f.from THEN r.to > f.from ELSE r.from < f.to)
  OBVIOUS
<1> HIDE DEF same, Clash, Meets, room
<1>7. CASE Clash
  <2>1. Inspect(a, f) = "invalid"
    BY <1>1, <1>3, <1>4, <1>7
  <2>2. QED
    BY <2>1
<1>8. CASE ~Clash /\ same # {}
  <2>1. Inspect(a, f) = "duplicate"
    BY <1>1, <1>4, <1>8
  <2>2. QED
    BY <1>2, <1>8, <2>1
<1>9. CASE same = {} /\ Meets
  <2>1. Inspect(a, f) = "invalid"
    BY <1>1, <1>3, <1>9
  <2>2. QED
    BY <2>1
<1>10. CASE same = {} /\ ~Meets
  <2>1. Inspect(a, f) = room
    BY <1>1, <1>3, <1>10
  <2>2. QED
    BY <1>5, <1>6, <1>10, <2>1
<1>11. QED
  BY <1>7, <1>8, <1>9, <1>10

LEMMA PlanFacts ==
    ASSUME NEW F, NEW k, Sane(k, F), NEW f, Canonical(f)
    PROVE  /\ Plan(k, f) \in Plans
           /\ Plan(k, f) = "skip" => f.id \notin Pending(k.originals) /\ State(k.datagramWindow, f.id) # "unseen"
           /\ Plan(k, f) = "new" => f.id \notin Pending(k.originals) /\ State(k.datagramWindow, f.id) = "unseen"
           /\ Plan(k, f) = "expire" => f.id \in Pending(k.originals)
           /\ Plan(k, f) = "duplicate" => f.id \in Pending(k.originals) /\ HasRange(k.originals.map[f.id], f)
           /\ Plan(k, f) = "insert" => Fits(k, f) /\ k.originals.map[f.id].total = f.total
<1> DEFINE a == k.originals.map[f.id]
<1>1. f \in Fragments /\ f.from <= f.to /\ f.to <= f.total
  BY DEF Canonical
<1>2. CASE f.id \notin Pending(k.originals)
  <2>1. Plan(k, f) = IF State(k.datagramWindow, f.id) # "unseen" THEN "skip" ELSE "new"
    BY <1>2 DEF Plan
  <2>2. QED
    BY <1>2, <2>1 DEF Plans
<1>3. CASE f.id \in Pending(k.originals)
  <2>1. Plan(k, f) = CASE a.total # f.total -> "invalid"
                       [] a.total = f.total /\ Due(a, DatagramTimeout) -> "expire"
                       [] OTHER -> Inspect(a, f)
    BY <1>3 DEF Plan
  <2>2. a \in OriginalEntries
    BY <1>3, SaneParts
  <2> HIDE DEF a
  <2>3. /\ Inspect(a, f) \in {"duplicate", "insert", "invalid", "full"}
        /\ Inspect(a, f) = "duplicate" => HasRange(a, f)
        /\ Inspect(a, f) = "insert" =>
              \A r \in a.ranges : ~(IF r.from < f.from THEN r.to > f.from ELSE r.from < f.to)
    BY <1>1, <2>2, InspectFacts
  <2>4. CASE a.total # f.total
    <3>1. Plan(k, f) = "invalid"
      BY <2>1, <2>4
    <3>2. QED
      BY <3>1 DEF Plans
  <2>5. CASE a.total = f.total /\ Due(a, DatagramTimeout)
    <3>1. Plan(k, f) = "expire"
      BY <2>1, <2>5
    <3>2. QED
      BY <1>3, <3>1 DEF Plans
  <2>6. CASE a.total = f.total /\ ~Due(a, DatagramTimeout)
    <3>1. Plan(k, f) = Inspect(a, f)
      BY <2>1, <2>6
    <3>2. Inspect(a, f) = "insert" => Apart(a, f)
      BY <1>1, <2>3, <2>6 DEF Apart
    <3>3. Inspect(a, f) = "insert" => Fits(k, f)
      BY <1>1, <1>3, <3>2 DEF Fits, a
    <3>4. QED
      BY <1>3, <2>3, <2>6, <3>1, <3>3 DEF Plans, a
  <2>7. QED
    BY <2>4, <2>5, <2>6
<1>4. QED
  BY <1>2, <1>3

\* The plan for a younger Datagram stays what it is.
LEMMA PlanSame ==
    ASSUME NEW F, NEW k, NEW n, NEW id, Touched(k, n, id, F), NEW f, f.id \in Nat, f.id > id
    PROVE  Plan(n, f) = Plan(k, f)
<1>1. /\ f.id \in Pending(n.originals) <=> f.id \in Pending(k.originals)
      /\ f.id \in Pending(k.originals) => n.originals.map[f.id] = k.originals.map[f.id]
      /\ State(n.datagramWindow, f.id) = State(k.datagramWindow, f.id)
  BY DEF Touched
<1>2. QED
  BY <1>1 DEF Plan

LEMMA CommitStep ==
    ASSUME NEW F, NEW k, Sane(k, F), NEW f, Canonical(f), Plan(k, f) \notin {"invalid", "full"}
    PROVE  LET n == Commit(k, f, Plan(k, f))
           IN  Touched(k, n, f.id, F) /\ SettledIn(n, F, f)
<1> DEFINE p == Plan(k, f)
           n == Commit(k, f, p)
<1>1. /\ p \in Plans
      /\ p = "skip" => f.id \notin Pending(k.originals) /\ State(k.datagramWindow, f.id) # "unseen"
      /\ p = "new" => f.id \notin Pending(k.originals) /\ State(k.datagramWindow, f.id) = "unseen"
      /\ p = "expire" => f.id \in Pending(k.originals)
      /\ p = "duplicate" => f.id \in Pending(k.originals) /\ HasRange(k.originals.map[f.id], f)
      /\ p = "insert" => Fits(k, f)
  BY PlanFacts
<1>2. n = CASE p = "expire" -> ExpireOriginal(k, f.id)
            [] p = "insert" -> Insert(k, f)
            [] p = "new" -> Insert(Started(k, f), f)
            [] OTHER -> k
  BY DEF Commit, Started
<1>3. p \notin {"invalid", "full"}
  OBVIOUS
<1> HIDE DEF p, n
<1>4. CASE p = "expire"
  <2>1. n = ExpireOriginal(k, f.id)
    BY <1>2, <1>4
  <2>2. Touched(k, n, f.id, F) /\ f.id \in Over(F \cup n.ended)
    BY <1>1, <1>4, <2>1, ExpireStep
  <2>3. QED
    BY <2>2 DEF SettledIn, Settled, n, p
<1>5. CASE p = "insert"
  <2>1. n = Insert(k, f)
    BY <1>2, <1>5
  <2>2. QED
    BY <1>1, <1>5, <2>1, InsertStep DEF n, p
<1>6. CASE p = "new"
  <2>1. n = Insert(Started(k, f), f)
    BY <1>2, <1>6
  <2>2. QED
    BY <1>1, <1>6, <2>1, StartStep DEF n, p
<1>7. CASE p \in {"skip", "duplicate"}
  <2>1. n = k
    BY <1>2, <1>7
  <2>2. Touched(k, k, f.id, F)
    BY DEF Touched
  <2>3. CASE p = "duplicate"
    <3>1. SettledIn(k, F, f)
      BY <1>1, <2>3 DEF SettledIn, Settled, HasRange
    <3>2. QED
      BY <2>1, <2>2, <3>1 DEF n, p
  <2>4. CASE p = "skip"
    <3>1. f.id \in IDs /\ f.id \in Nat /\ WindowOK(k.datagramWindow)
      BY SaneParts DEF Canonical
    <3>2. State(k.datagramWindow, f.id) \in States
      BY <3>1, StateCases
    <3>3. /\ State(k.datagramWindow, f.id) = "completed" => f.id \in Ids(F \cup k.ended, "datagram", "completed")
          /\ State(k.datagramWindow, f.id) = "expired" => f.id \in Ids(F \cup k.ended, "datagram", "expired")
      BY <3>1 DEF Sane, OriginalsSane, Remembers
    <3>4. SettledIn(k, F, f)
      BY <1>1, <2>4, <3>2, <3>3 DEF SettledIn, Settled, Over, States
    <3>5. QED
      BY <2>1, <2>2, <3>4 DEF n, p
  <2>5. QED
    BY <1>7, <2>3, <2>4
<1>8. QED
  BY <1>1, <1>3, <1>4, <1>5, <1>6, <1>7 DEF Plans

----------------------------------------------------------------------------
(* Loops that keep a property                                              *)

\* The steps of a loop keep its state and their number in G.
Keeps(G, X, N, step) ==
    /\ G \subseteq X \X (0..N)
    /\ \A x \in X, n \in 0..N : <<x, n>> \in G /\ n # N => <<step[<<x, n>>], n + 1>> \in G

Runs(f, N, first, step) ==
    /\ f = [n \in 0..N |-> f[n]] /\ f[0] = first
    /\ \A n \in 1..N : f[n] = step[<<f[n - 1], n - 1>>]

Inside(f, N, G) == \A n \in 0..N : <<f[n], n>> \in G

\* A loop exists whose n-th state is in G with n, if every step keeps that.
LEMMA LoopHolds ==
    ASSUME NEW N \in Nat, NEW X, NEW G, NEW step, Keeps(G, X, N, step), NEW first, <<first, 0>> \in G
    PROVE  \E f : Runs(f, N, first, step) /\ Inside(f, N, G)
<1> DEFINE Good(f, n) == /\ f[0] = first /\ \A m \in 1..n : f[m] = step[<<f[m - 1], m - 1>>]
                         /\ \A m \in 0..n : <<f[m], m>> \in G
           T == {n \in 0..N : \E f : f = [m \in 0..n |-> f[m]] /\ Good(f, n)}
<1>1. 0 \in T
  <2> DEFINE f == [m \in 0..0 |-> first]
  <2>1. f = [m \in 0..0 |-> f[m]] /\ Good(f, 0)
    OBVIOUS
  <2> HIDE DEF f, Good
  <2>2. QED
    BY <2>1
<1>2. ASSUME NEW n \in 1..N, n - 1 \in T PROVE n \in T
  <2>1. PICK f : f = [m \in 0..(n - 1) |-> f[m]] /\ Good(f, n - 1)
    BY <1>2
  <2> DEFINE y == step[<<f[n - 1], n - 1>>]
             g == [m \in 0..n |-> IF m = n THEN y ELSE f[m]]
  <2>2. <<y, n>> \in G
    <3>1. n - 1 \in 0..(n - 1) /\ n - 1 \in 0..N /\ n - 1 # N /\ (n - 1) + 1 = n
      OBVIOUS
    <3>2. <<f[n - 1], n - 1>> \in G
      BY <2>1, <3>1
    <3>3. f[n - 1] \in X
      BY <3>2 DEF Keeps
    <3>4. <<y, (n - 1) + 1>> \in G
      BY <3>1, <3>2, <3>3 DEF Keeps
    <3>5. QED
      BY <3>1, <3>4
  <2> HIDE DEF y
  <2>3. g = [m \in 0..n |-> g[m]] /\ g[n] = y /\ \A m \in 0..(n - 1) : g[m] = f[m]
    OBVIOUS
  <2> HIDE DEF g
  <2>4. g[0] = first
    BY <2>1, <2>3
  <2>5. ASSUME NEW m \in 1..n PROVE g[m] = step[<<g[m - 1], m - 1>>]
    <3>1. m - 1 \in 0..(n - 1)
      OBVIOUS
    <3>2. CASE m = n
      BY <2>3, <3>1, <3>2 DEF y
    <3>3. CASE m # n
      <4>1. m \in 1..(n - 1) /\ m \in 0..(n - 1)
        BY <3>3
      <4>2. QED
        BY <2>1, <2>3, <3>1, <4>1
    <3>4. QED
      BY <3>2, <3>3
  <2>6. ASSUME NEW m \in 0..n PROVE <<g[m], m>> \in G
    <3>1. CASE m = n
      BY <2>2, <2>3, <3>1
    <3>2. CASE m # n
      <4>1. m \in 0..(n - 1)
        BY <3>2
      <4>2. QED
        BY <2>1, <2>3, <4>1
    <3>3. QED
      BY <3>1, <3>2
  <2>7. Good(g, n)
    BY <2>4, <2>5, <2>6
  <2> HIDE DEF Good
  <2>8. n \in 0..N
    OBVIOUS
  <2>9. QED
    BY <2>3, <2>7, <2>8
<1>3. N \in T
  <2> HIDE DEF T
  <2>1. \A n \in 0..N : n \in T
    BY <1>1, <1>2, Induction
  <2>2. QED
    BY <2>1
<1>4. QED
  BY <1>3 DEF Runs, Inside

----------------------------------------------------------------------------
(* The last phase of AddGroup                                              *)

Ascending(fragments) ==
    /\ fragments \in Seq(Fragments)
    /\ \A i \in DOMAIN fragments : Canonical(fragments[i])
    /\ \A i, j \in DOMAIN fragments : i < j => fragments[i].id < fragments[j].id

\* After n fragments of the plan that k made.
Committed(k, x, n, F, fragments) ==
    /\ Sane(x, F)
    /\ x.groups = k.groups /\ x.groupWindow = k.groupWindow /\ x.decodedGroups = k.decodedGroups
    /\ x.retryWait = k.retryWait /\ x.closed = k.closed
    /\ \A j \in DOMAIN fragments : j > n => Plan(x, fragments[j]) = Plan(k, fragments[j])
    /\ \A j \in DOMAIN fragments : j <= n => SettledIn(x, F, fragments[j])

LEMMA CommittedNext ==
    ASSUME NEW F, NEW k, NEW fragments, Ascending(fragments), NEW n \in DOMAIN fragments,
           NEW x, Committed(k, x, n - 1, F, fragments), Plan(k, fragments[n]) \notin {"invalid", "full"}
    PROVE  Committed(k, Commit(x, fragments[n], Plan(k, fragments[n])), n, F, fragments)
<1> DEFINE f == fragments[n]
           y == Commit(x, f, Plan(k, f))
<1>1. DOMAIN fragments = 1..Len(fragments) /\ Len(fragments) \in Nat /\ n \in Nat
  BY DEF Ascending
<1>2. Canonical(f) /\ Sane(x, F)
  BY DEF Ascending, Committed
<1>3. Plan(x, f) = Plan(k, f)
  BY <1>1 DEF Committed
<1>4. Touched(x, y, f.id, F) /\ SettledIn(y, F, f)
  BY <1>2, <1>3, CommitStep
<1> HIDE DEF y
<1>5. ASSUME NEW j \in DOMAIN fragments, j > n PROVE Plan(y, fragments[j]) = Plan(k, fragments[j])
  <2>1. f.id < fragments[j].id /\ Canonical(fragments[j])
    BY <1>1, <1>5 DEF Ascending
  <2>2. fragments[j].id \in Nat /\ f.id \in Nat
    BY <1>2, <2>1 DEF Canonical
  <2>3. fragments[j].id > f.id
    BY <2>1, <2>2
  <2>4. Plan(y, fragments[j]) = Plan(x, fragments[j])
    BY <1>4, <2>2, <2>3, PlanSame
  <2>5. j > n - 1
    BY <1>1, <1>5
  <2>6. QED
    BY <2>4, <2>5 DEF Committed
<1>6. ASSUME NEW j \in DOMAIN fragments, j <= n PROVE SettledIn(y, F, fragments[j])
  <2>1. CASE j = n
    BY <1>4, <2>1
  <2>2. CASE j # n
    <3>1. j <= n - 1
      BY <1>1, <1>6, <2>2
    <3>2. SettledIn(x, F, fragments[j]) /\ fragments[j] \in Fragments
      BY <3>1 DEF Committed, Ascending, Canonical
    <3>3. QED
      BY <1>4, <3>2 DEF Touched
  <2>3. QED
    BY <2>1, <2>2
<1>7. Committed(k, y, n, F, fragments)
  BY <1>4, <1>5, <1>6 DEF Touched, Committed
<1>8. QED
  BY <1>7 DEF y

LEMMA CommitRuns ==
    ASSUME NEW F, NEW k, NEW first, NEW fragments, Ascending(fragments), Committed(k, first, 0, F, fragments),
           NEW plan, plan = [i \in DOMAIN fragments |-> Plan(k, fragments[i])],
           \A i \in DOMAIN fragments : plan[i] \notin {"invalid", "full"}
    PROVE  LET after == CommitSteps(first, fragments, plan)
           IN  /\ after[0] = first
               /\ \A n \in 1..Len(fragments) : after[n] = Commit(after[n - 1], fragments[n], plan[n])
               /\ \A n \in 0..Len(fragments) : Committed(k, after[n], n, F, fragments)
<1> DEFINE N == Len(fragments)
           G == {p \in Receivers \X (0..N) : Committed(k, p[1], p[2], F, fragments)}
           step == [p \in G |-> Commit(p[1], fragments[p[2] + 1], plan[p[2] + 1])]
           Body(f) == [n \in 0..N |-> IF n = 0 THEN first ELSE Commit(f[n - 1], fragments[n], plan[n])]
           after == CommitSteps(first, fragments, plan)
<1>1. N \in Nat /\ DOMAIN fragments = 1..N
  BY DEF Ascending
<1>2. \A x, n : Committed(k, x, n, F, fragments) => x \in Receivers
  BY DEF Committed, Sane
<1>3. ASSUME NEW x, NEW n \in 1..N, Committed(k, x, n - 1, F, fragments)
      PROVE  Committed(k, Commit(x, fragments[n], plan[n]), n, F, fragments)
  <2>1. n \in DOMAIN fragments /\ plan[n] = Plan(k, fragments[n]) /\ plan[n] \notin {"invalid", "full"}
    BY <1>1
  <2>2. Committed(k, Commit(x, fragments[n], Plan(k, fragments[n])), n, F, fragments)
    BY <1>3, <2>1, CommittedNext
  <2>3. QED
    BY <2>1, <2>2
<1>4. \E f : f = Body(f)
  <2>1. G \subseteq Receivers \X (0..N)
    OBVIOUS
  <2>2. <<first, 0>> \in G
    BY <1>1, <1>2
  <2>3. ASSUME NEW x \in Receivers, NEW n \in 0..N, <<x, n>> \in G, n # N
        PROVE  <<step[<<x, n>>], n + 1>> \in G
    <3> DEFINE m == n + 1
               y == Commit(x, fragments[m], plan[m])
    <3>1. step[<<x, n>>] = y
      BY <2>3
    <3>3. Committed(k, x, n, F, fragments)
      BY <2>3
    <3> HIDE DEF G, N
    <3>2. m \in 1..N /\ m - 1 = n /\ m \in 0..N
      BY <1>1, <2>3
    <3> HIDE DEF m
    <3>4. Committed(k, y, m, F, fragments)
      BY <1>3, <3>2, <3>3
    <3> HIDE DEF y
    <3>5. y \in Receivers
      BY <1>2, <3>4
    <3>6. <<y, m>> \in G
      BY <3>2, <3>4, <3>5 DEF G
    <3>7. QED
      BY <3>1, <3>6 DEF m
  <2> HIDE DEF step, G, N
  <2>9. Keeps(G, Receivers, N, step)
    BY <2>1, <2>3 DEF Keeps
  <2>4. PICK f : Runs(f, N, first, step) /\ Inside(f, N, G)
    BY <1>1, <2>2, <2>9, LoopHolds
  <2>5. ASSUME NEW n \in 1..N PROVE f[n] = Commit(f[n - 1], fragments[n], plan[n])
    <3>1. n - 1 \in 0..N /\ (n - 1) + 1 = n
      BY <1>1
    <3>2. <<f[n - 1], n - 1>> \in G
      BY <2>4, <3>1 DEF Inside
    <3>3. step[<<f[n - 1], n - 1>>] = Commit(f[n - 1], fragments[(n - 1) + 1], plan[(n - 1) + 1])
      BY <3>2 DEF step
    <3>4. QED
      BY <2>4, <3>1, <3>3 DEF Runs
  <2>6. ASSUME NEW n \in 0..N PROVE f[n] = Body(f)[n]
    <3>1. CASE n = 0
      BY <2>4, <3>1 DEF Runs
    <3>2. CASE n # 0
      <4>1. n \in 1..N
        BY <1>1, <3>2
      <4>2. QED
        BY <2>5, <3>2, <4>1
    <3>3. QED
      BY <3>1, <3>2
  <2>7. f = [n \in 0..N |-> f[n]]
    BY <2>4 DEF Runs
  <2>8. QED
    BY <2>6, <2>7
<1>5. after = CHOOSE f : f = Body(f)
  BY DEF CommitSteps
<1>6. after = Body(after)
  BY <1>4, <1>5
<1> HIDE DEF after
<1>7. after[0] = first
  BY <1>1, <1>6
<1>8. \A n \in 1..N : after[n] = Commit(after[n - 1], fragments[n], plan[n])
  <2>1. SUFFICES ASSUME NEW n \in 1..N PROVE after[n] = Commit(after[n - 1], fragments[n], plan[n])
    OBVIOUS
  <2>2. n \in 0..N /\ n # 0
    OBVIOUS
  <2>3. Body(after)[n] = Commit(after[n - 1], fragments[n], plan[n])
    BY <2>2
  <2>4. QED
    BY <1>6, <2>3
<1> DEFINE T == {n \in 0..N : Committed(k, after[n], n, F, fragments)}
<1>9. 0 \in T
  BY <1>1, <1>7
<1>10. \A n \in 1..N : n - 1 \in T => n \in T
  <2> HIDE DEF N
  <2>1. SUFFICES ASSUME NEW n \in 1..N, n - 1 \in T PROVE n \in T
    OBVIOUS
  <2>2. Committed(k, Commit(after[n - 1], fragments[n], plan[n]), n, F, fragments)
    BY <1>3, <2>1
  <2>3. QED
    BY <1>1, <1>8, <2>2
<1>11. \A n \in 0..N : n \in T
  <2> HIDE DEF T
  <2>1. QED
    BY <1>1, <1>9, <1>10, Induction
<1>12. QED
  BY <1>7, <1>8, <1>11 DEF after

----------------------------------------------------------------------------
(* AddGroup                                                                *)

\* The manifest of a decoded group is in the order of the Datagrams.
LEMMA DecodedAscends ==
    ASSUME scenario \in Scenarios, NEW id \in GroupIDs, Decodes(id)
    PROVE  Ascending(Sent(id))
<1> DEFINE s == Sent(id)
           N == Len(s)
<1>1. s \in Seq(Fragments) /\ N \in Nat /\ DOMAIN s = 1..N
  BY SentFacts
<1>2. \A i \in DOMAIN s : s[i] \in Fragments /\ s[i].id \in Nat
  BY SentFacts
<1>3. \A i \in DOMAIN s : /\ s[i].id > IF i = 1 THEN 0 ELSE s[i - 1].id
                          /\ s[i].from <= s[i].to /\ s[i].to <= s[i].total
  BY DEF Decodes
<1> HIDE DEF s, N
<1>4. ASSUME NEW i \in DOMAIN s PROVE Canonical(s[i])
  <2>1. s[i].id > 0
    <3>1. CASE i = 1
      BY <1>3, <3>1
    <3>2. CASE i # 1
      <4>1. i - 1 \in DOMAIN s
        BY <1>1, <3>2
      <4>2. s[i].id > s[i - 1].id /\ s[i].id \in Nat /\ s[i - 1].id \in Nat
        BY <1>2, <1>3, <3>2, <4>1
      <4>3. QED
        BY <4>2
    <3>3. QED
      BY <3>1, <3>2
  <2>2. QED
    BY <1>2, <1>3, <2>1 DEF Canonical, IDs
<1>5. ASSUME NEW i \in DOMAIN s, NEW j \in DOMAIN s, i < j PROVE s[i].id < s[j].id
  <2> DEFINE T == {n \in 0..N : n > i => s[i].id < s[n].id}
  <2>1. 0 \in T
    BY <1>1
  <2>2. ASSUME NEW n \in 1..N, n - 1 \in T PROVE n \in T
    <3>1. CASE n <= i
      BY <1>1, <3>1
    <3>2. CASE n > i
      <4>1. n \in DOMAIN s /\ n - 1 \in DOMAIN s /\ n # 1
        BY <1>1, <3>2
      <4>2. s[n - 1].id < s[n].id
        BY <1>2, <1>3, <4>1
      <4>3. s[i].id <= s[n - 1].id
        <5>1. CASE n - 1 = i
          BY <1>2, <5>1
        <5>2. CASE n - 1 # i
          <6>1. n - 1 > i
            BY <1>1, <3>2, <5>2
          <6>2. QED
            BY <1>2, <2>2, <4>1, <6>1
        <5>3. QED
          BY <5>1, <5>2
      <4>4. s[i].id \in Nat /\ s[n - 1].id \in Nat /\ s[n].id \in Nat
        BY <1>2, <4>1
      <4>5. s[i].id < s[n].id
        BY <4>2, <4>3, <4>4
      <4>6. QED
        BY <1>1, <4>5
    <3>3. QED
      BY <1>1, <3>1, <3>2
  <2>3. \A n \in 0..N : n \in T
    <3> HIDE DEF T
    <3>1. QED
      BY <1>1, <2>1, <2>2, Induction
  <2>4. j \in 0..N
    BY <1>1
  <2>5. QED
    BY <1>5, <2>3, <2>4
<1>6. QED
  BY <1>1, <1>4, <1>5 DEF Ascending, s

Reserves == [used : Int, taken : Int, ok : BOOLEAN]

\* One step of the loop that reserves.
ReserveStep(r, f, what) ==
    IF ~r.ok \/ what # "new" THEN r
    ELSE IF r.used + AssemblyCharge(f) > Credit THEN [r EXCEPT !.ok = FALSE]
    ELSE [r EXCEPT !.used = @ + AssemblyCharge(f), !.taken = @ + AssemblyCharge(f)]

LEMMA ReserveNext ==
    ASSUME NEW r \in Reserves, NEW f \in Fragments, NEW what
    PROVE  ReserveStep(r, f, what) \in Reserves
<1>1. AssemblyCharge(f) \in Nat
  BY LinkChargeType DEF AssemblyCharge, Fragments
<1>2. [r EXCEPT !.ok = FALSE] \in Reserves
  BY DEF Reserves
<1>3. [r EXCEPT !.used = r.used + AssemblyCharge(f), !.taken = r.taken + AssemblyCharge(f)] \in Reserves
  <2> DEFINE u == r.used + AssemblyCharge(f)
             t == r.taken + AssemblyCharge(f)
  <2>1. r.used \in Int /\ r.taken \in Int /\ r.ok \in BOOLEAN
    BY DEF Reserves
  <2>2. u \in Int /\ t \in Int
    BY <1>1, <2>1
  <2> HIDE DEF u, t
  <2>3. [r EXCEPT !.used = u, !.taken = t] \in Reserves
    BY <2>2 DEF Reserves
  <2>4. QED
    BY <2>3 DEF u, t
<1>4. QED
  BY <1>2, <1>3 DEF ReserveStep

LEMMA ReserveRuns ==
    ASSUME NEW used \in Int, NEW fragments \in Seq(Fragments), NEW plan
    PROVE  LET after == ReserveSteps(used, fragments, plan)
           IN  /\ after[0] = [used |-> used, taken |-> 0, ok |-> TRUE]
               /\ \A n \in 1..Len(fragments) : after[n] = ReserveStep(after[n - 1], fragments[n], plan[n])
               /\ \A n \in 0..Len(fragments) : after[n] \in Reserves
<1> DEFINE N == Len(fragments)
           first == [used |-> used, taken |-> 0, ok |-> TRUE]
           G == Reserves \X (0..N)
           step == [p \in G |-> ReserveStep(p[1], fragments[p[2] + 1], plan[p[2] + 1])]
           Body(f) == [n \in 0..N |-> IF n = 0 THEN first ELSE ReserveStep(f[n - 1], fragments[n], plan[n])]
           after == ReserveSteps(used, fragments, plan)
<1>1. N \in Nat /\ \A n \in 1..N : fragments[n] \in Fragments
  OBVIOUS
<1>2. first \in Reserves
  BY DEF Reserves
<1>5. after = CHOOSE f : f = Body(f)
  BY DEF ReserveSteps, ReserveStep
<1> HIDE DEF N, first
<1>4. \E f : f = Body(f)
  <2>2. <<first, 0>> \in G
    BY <1>1, <1>2
  <2>3. ASSUME NEW x \in Reserves, NEW n \in 0..N, n # N
        PROVE  <<step[<<x, n>>], n + 1>> \in G
    <3>1. n + 1 \in 1..N /\ n + 1 \in 0..N
      BY <1>1, <2>3
    <3>2. ReserveStep(x, fragments[n + 1], plan[n + 1]) \in Reserves
      BY <1>1, <3>1, ReserveNext
    <3>3. QED
      BY <3>1, <3>2
  <2>9. Keeps(G, Reserves, N, step)
    BY <2>3 DEF Keeps
  <2> HIDE DEF step, G
  <2>4. PICK f : Runs(f, N, first, step) /\ Inside(f, N, G)
    BY <1>1, <2>2, <2>9, LoopHolds
  <2>5. ASSUME NEW n \in 1..N PROVE f[n] = ReserveStep(f[n - 1], fragments[n], plan[n])
    <3>1. n - 1 \in 0..N /\ (n - 1) + 1 = n
      BY <1>1
    <3>2. <<f[n - 1], n - 1>> \in G
      BY <2>4, <3>1 DEF Inside
    <3>3. step[<<f[n - 1], n - 1>>] = ReserveStep(f[n - 1], fragments[(n - 1) + 1], plan[(n - 1) + 1])
      BY <3>2 DEF step
    <3>4. QED
      BY <2>4, <3>1, <3>3 DEF Runs
  <2>6. ASSUME NEW n \in 0..N PROVE f[n] = Body(f)[n]
    <3>1. CASE n = 0
      BY <2>4, <3>1 DEF Runs
    <3>2. CASE n # 0
      <4>1. n \in 1..N
        BY <1>1, <3>2
      <4>2. QED
        BY <2>5, <3>2, <4>1
    <3>3. QED
      BY <3>1, <3>2
  <2>7. f = [n \in 0..N |-> f[n]]
    BY <2>4 DEF Runs
  <2>8. QED
    BY <2>6, <2>7
<1>6. after = Body(after)
  BY <1>4, <1>5
<1> HIDE DEF after
<1>7. after[0] = first
  BY <1>1, <1>6
<1>8. \A n \in 1..N : after[n] = ReserveStep(after[n - 1], fragments[n], plan[n])
  <2>1. SUFFICES ASSUME NEW n \in 1..N PROVE after[n] = ReserveStep(after[n - 1], fragments[n], plan[n])
    OBVIOUS
  <2>2. n \in 0..N /\ n # 0
    BY <1>1
  <2>3. Body(after)[n] = ReserveStep(after[n - 1], fragments[n], plan[n])
    BY <2>2
  <2>4. QED
    BY <1>6, <2>3
<1> DEFINE T == {n \in 0..N : after[n] \in Reserves}
<1>9. 0 \in T
  BY <1>1, <1>2, <1>7
<1>10. \A n \in 1..N : n - 1 \in T => n \in T
  BY <1>1, <1>8, ReserveNext
<1>11. \A n \in 0..N : n \in T
  <2> HIDE DEF T
  <2>1. QED
    BY <1>1, <1>9, <1>10, Induction
<1>12. QED
  BY <1>7, <1>8, <1>11 DEF after, N, first

\* The fields AddGroup leaves alone.
Aside(k, n) ==
    /\ n.groups = k.groups /\ n.groupWindow = k.groupWindow /\ n.decodedGroups = k.decodedGroups
    /\ n.retryWait = k.retryWait /\ n.closed = k.closed

SettledEach(k, F, fragments) == \A i \in DOMAIN fragments : SettledIn(k, F, fragments[i])

LEMMA UsedSane ==
    ASSUME NEW F, NEW k, Sane(k, F), NEW u \in Int
    PROVE  /\ Sane([k EXCEPT !.used = u], F) /\ Aside(k, [k EXCEPT !.used = u])
           /\ \A f : Plan([k EXCEPT !.used = u], f) = Plan(k, f)
<1> DEFINE n == [k EXCEPT !.used = u]
<1>1. k \in Receivers
  BY SaneParts
<1>2. /\ n \in Receivers /\ Aside(k, n) /\ n.originals = k.originals /\ n.datagramWindow = k.datagramWindow
      /\ n.out = k.out /\ n.ended = k.ended
  BY <1>1 DEF Receivers, Aside
<1> HIDE DEF n
<1>3. Sane(n, F)
  BY <1>2, SameSane DEF Aside
<1>4. \A f : Plan(n, f) = Plan(k, f)
  BY <1>2 DEF Plan
<1>5. QED
  BY <1>2, <1>3, <1>4 DEF n

\* The plan of a call, and whether the call may go on with it.
Planned(k, fragments) == [i \in DOMAIN fragments |-> Plan(k, fragments[i])]
Refused(plan) == {i \in DOMAIN plan : plan[i] \in {"invalid", "full"}}

LEMMA RefusedErr ==
    ASSUME NEW fragments \in Seq(Fragments), NEW plan, DOMAIN plan = DOMAIN fragments, Refused(plan) # {}
    PROVE  plan[Min(Refused(plan))] \in {"invalid", "full"}
<1>1. Refused(plan) \subseteq Nat
  BY DEF Refused
<1>2. PICK m \in Refused(plan) : \A y \in Refused(plan) : m <= y
  BY <1>1, LeastOf
<1>3. Min(Refused(plan)) \in Refused(plan)
  BY <1>2 DEF Min
<1>4. QED
  BY <1>3 DEF Refused

\* AddGroup in three: refused, out of credit, committed.
LEMMA AddCases ==
    ASSUME NEW k, NEW fragments \in Seq(Fragments), IsFiniteSet(Pending(k.originals))
    PROVE  LET a == AddGroup(k, fragments)
               plan == Planned(k, fragments)
               reserved == ReserveSteps(k.used, fragments, plan)[Len(fragments)]
               start == [k EXCEPT !.used = reserved.used]
           IN  \/ Refused(plan) # {} /\ a.k = k /\ a.err = plan[Min(Refused(plan))]
               \/ Refused(plan) = {} /\ a.k = k /\ a.err = "full"
               \/ /\ Refused(plan) = {} /\ ~reserved.ok
                  /\ a.k = [k EXCEPT !.used = RolledBack(reserved)] /\ a.err = "full"
               \/ /\ Refused(plan) = {} /\ reserved.ok
                  /\ Cardinality(Pending(k.originals)) + Cardinality({i \in DOMAIN plan : plan[i] = "new"})
                       - Cardinality({i \in DOMAIN plan : plan[i] = "expire"}) <= MaxDatagrams
                  /\ a.k = CommitSteps(start, fragments, plan)[Len(fragments)] /\ a.err = "none"
<1> DEFINE plan == [i \in DOMAIN fragments |-> Plan(k, fragments[i])]
           P(what) == {i \in DOMAIN fragments : plan[i] = what}
           bad == P("invalid") \cup P("full")
           count == Cardinality(Pending(k.originals)) + Cardinality(P("new")) - Cardinality(P("expire"))
           reserved == ReserveSteps(k.used, fragments, plan)[Len(fragments)]
           last == CommitSteps([k EXCEPT !.used = reserved.used], fragments, plan)[Len(fragments)]
           a == AddGroup(k, fragments)
<1>1. a = CASE bad # {} -> [k |-> k, err |-> plan[Min(bad)]]
            [] bad = {} /\ count > MaxDatagrams -> [k |-> k, err |-> "full"]
            [] bad = {} /\ count <= MaxDatagrams /\ ~reserved.ok ->
                  [k |-> [k EXCEPT !.used = RolledBack(reserved)], err |-> "full"]
            [] OTHER -> [k |-> last, err |-> "none"]
  BY DEF AddGroup
<1>2. plan = Planned(k, fragments) /\ DOMAIN plan = DOMAIN fragments /\ bad = Refused(plan)
  BY DEF Planned, Refused
<1>3. count = Cardinality(Pending(k.originals)) + Cardinality({i \in DOMAIN plan : plan[i] = "new"})
                 - Cardinality({i \in DOMAIN plan : plan[i] = "expire"})
  BY <1>2
<1>9. count \in Int /\ MaxDatagrams \in Int
  <2>1. IsFiniteSet(1..Len(fragments)) /\ DOMAIN fragments = 1..Len(fragments)
    BY FS_Interval
  <2>2. IsFiniteSet(P("new")) /\ IsFiniteSet(P("expire"))
    BY <2>1, FS_Subset
  <2> HIDE DEF P
  <2>3. QED
    BY <2>2, FS_CardinalityType, LimitsAssumption
<1> HIDE DEF bad, count, reserved, last, plan, a
<1>4. CASE bad # {}
  BY <1>1, <1>2, <1>4 DEF a
<1>5. CASE bad = {} /\ count > MaxDatagrams
  BY <1>1, <1>2, <1>5, <1>9 DEF a
<1>6. CASE bad = {} /\ count <= MaxDatagrams /\ ~reserved.ok
  BY <1>1, <1>2, <1>6 DEF a, reserved
<1>7. CASE bad = {} /\ count <= MaxDatagrams /\ reserved.ok
  <2>1. a = [k |-> last, err |-> "none"]
    BY <1>1, <1>7, <1>9
  <2>2. QED
    BY <1>2, <1>3, <1>7, <2>1 DEF a, reserved, last
<1>8. QED
  BY <1>4, <1>5, <1>6, <1>7, <1>9

\* AddGroup: an error changes nothing the invariant knows of, and without one no
\* fragment is lost.
LEMMA AddStep ==
    ASSUME NEW F, NEW k, Sane(k, F), NEW fragments, Ascending(fragments)
    PROVE  LET a == AddGroup(k, fragments)
           IN  /\ Sane(a.k, F) /\ Aside(k, a.k) /\ a.err \in {"none", "full", "invalid"}
               /\ a.err = "none" => SettledEach(a.k, F, fragments)
<1> DEFINE a == AddGroup(k, fragments)
           plan == Planned(k, fragments)
           N == Len(fragments)
           reserves == ReserveSteps(k.used, fragments, plan)
           reserved == reserves[N]
           start == [k EXCEPT !.used = reserved.used]
<1>1. fragments \in Seq(Fragments) /\ N \in Nat /\ DOMAIN fragments = 1..N
  BY DEF Ascending
<1>2. k.used \in Int /\ IsFiniteSet(Pending(k.originals))
  BY SaneParts, HeadFacts
<1>3. DOMAIN plan = DOMAIN fragments
  BY DEF Planned
<1>4. reserved \in Reserves
  <2> HIDE DEF plan, N
  <2>1. N \in 0..N
    BY <1>1
  <2>2. QED
    BY <1>1, <1>2, <2>1, ReserveRuns DEF N
<1>5. reserved.used \in Int /\ RolledBack(reserved) \in Int
  <2> HIDE DEF reserved
  <2>1. QED
    BY <1>4 DEF Reserves, RolledBack
<1>6. Aside(k, k)
  BY DEF Aside
<1>7. \/ Refused(plan) # {} /\ a.k = k /\ a.err = plan[Min(Refused(plan))]
      \/ a.k = k /\ a.err = "full"
      \/ a.k = [k EXCEPT !.used = RolledBack(reserved)] /\ a.err = "full"
      \/ Refused(plan) = {} /\ a.k = CommitSteps(start, fragments, plan)[N] /\ a.err = "none"
  <2>1. QED
    BY <1>1, <1>2, AddCases
<1> HIDE DEF a, reserved
<1>8. CASE Refused(plan) # {} /\ a.k = k /\ a.err = plan[Min(Refused(plan))]
  <2> HIDE DEF plan
  <2>1. a.err \in {"invalid", "full"}
    BY <1>1, <1>3, <1>8, RefusedErr
  <2>2. QED
    BY <1>6, <1>8, <2>1 DEF a
<1>9. CASE a.k = k /\ a.err = "full"
  BY <1>6, <1>9 DEF a
<1>10. CASE a.k = [k EXCEPT !.used = RolledBack(reserved)] /\ a.err = "full"
  <2>1. Sane(a.k, F) /\ Aside(k, a.k)
    BY <1>5, <1>10, UsedSane
  <2>2. QED
    BY <1>10, <2>1 DEF a
<1>11. CASE Refused(plan) = {} /\ a.k = CommitSteps(start, fragments, plan)[N] /\ a.err = "none"
  <2>1. Sane(start, F) /\ Aside(k, start) /\ \A f : Plan(start, f) = Plan(k, f)
    BY <1>5, UsedSane
  <2>2. Committed(k, start, 0, F, fragments)
    <3> HIDE DEF start
    <3>1. \A j \in DOMAIN fragments : ~(j <= 0)
      BY <1>1
    <3>2. QED
      BY <2>1, <3>1 DEF Committed, Aside
  <2>3. \A i \in DOMAIN fragments : plan[i] \notin {"invalid", "full"}
    BY <1>3, <1>11 DEF Refused
  <2>4. plan = [i \in DOMAIN fragments |-> Plan(k, fragments[i])]
    BY DEF Planned
  <2> HIDE DEF plan, start, N
  <2>5. \A n \in 0..N : Committed(k, CommitSteps(start, fragments, plan)[n], n, F, fragments)
    BY <2>2, <2>3, <2>4, CommitRuns DEF N
  <2>6. Committed(k, a.k, N, F, fragments)
    BY <1>1, <1>11, <2>5
  <2>7. SettledEach(a.k, F, fragments)
    BY <1>1, <2>6 DEF Committed, SettledEach
  <2>8. Sane(a.k, F) /\ Aside(k, a.k)
    BY <2>6 DEF Committed, Aside
  <2>9. QED
    BY <1>11, <2>7, <2>8 DEF a
<1>12. QED
  BY <1>7, <1>8, <1>9, <1>10, <1>11

----------------------------------------------------------------------------
(* Pending groups                                                          *)

\* The other groups stay as they are.
Others(k, n, id) ==
    /\ n.closed = k.closed
    /\ \A x \in Pending(k.groups) \ {id} : x \in Pending(n.groups) /\ n.groups.map[x] = k.groups.map[x]

\* The end of a pending group keeps both the list and the ring well typed.
LEMMA GroupEndTypes ==
    ASSUME NEW F, NEW k, Sane(k, F), NEW id \in Pending(k.groups), NEW t \in {"completed", "expired"}
    PROVE  /\ Unlink(k.groups, id) \in Lists(GroupEntries)
           /\ Finish(k.groupWindow, id, t) \in Windows
           /\ k.ended \cup {<<"group", id, t>>} \in SUBSET Fates
           /\ id \in IDs /\ id \in GroupIDs /\ k.groups.map[id] \in GroupEntries
<1>1. /\ k.groups \in Lists(GroupEntries) /\ Chained(k.groups) /\ WindowOK(k.groupWindow)
      /\ id \in IDs /\ k.ended \in SUBSET Fates /\ k.groups.map[id] \in GroupEntries
  BY SaneParts
<1>2. Unlink(k.groups, id) \in Lists(GroupEntries)
  BY <1>1, EntryTypes, UnlinkFacts
<1>3. Finish(k.groupWindow, id, t) \in Windows
  <2>1. Remembers(k.groupWindow, Pending(k.groups), Ids(F \cup k.ended, "group", "completed"),
                  Ids(F \cup k.ended, "group", "expired"))
    BY DEF Sane, GroupsSane
  <2>2. WindowOK(Finish(k.groupWindow, id, t))
    BY <1>1, <2>1, RememberFinish
  <2>3. QED
    BY <2>2 DEF WindowOK
<1>4. k.ended \cup {<<"group", id, t>>} \in SUBSET Fates
  BY <1>1 DEF Fates, IDs
<1>5. id \in GroupIDs
  BY DEF Sane, GroupsSane
<1>6. QED
  BY <1>1, <1>2, <1>3, <1>4, <1>5

LEMMA ReleaseFields ==
    ASSUME NEW F, NEW k, Sane(k, F), NEW id \in Pending(k.groups)
    PROVE  LET n == ReleaseGroup(k, id)
           IN  /\ n \in Receivers /\ n.groups = Unlink(k.groups, id) /\ n.groupWindow = k.groupWindow
               /\ n.originals = k.originals /\ n.datagramWindow = k.datagramWindow
               /\ n.retryWait = k.retryWait /\ n.closed = k.closed /\ n.out = k.out /\ n.ended = k.ended
               /\ n.used = k.used - k.groups.map[id].lease
               /\ n.decodedGroups = IF k.groups.map[id].decoded THEN k.decodedGroups - 1 ELSE k.decodedGroups
<1> DEFINE l == Unlink(k.groups, id)
           u == k.used - k.groups.map[id].lease
           d == IF k.groups.map[id].decoded THEN k.decodedGroups - 1 ELSE k.decodedGroups
<1>1. l \in Lists(GroupEntries)
  BY GroupEndTypes
<1>2. u \in Int /\ d \in Int
  <2>1. k.used \in Int /\ k.decodedGroups \in Int /\ k.groups.map[id] \in GroupEntries
    BY SaneParts
  <2>2. k.groups.map[id].lease \in Nat
    BY <2>1 DEF GroupEntries
  <2>3. QED
    BY <2>1, <2>2
<1>3. ReleaseGroup(k, id) = [k EXCEPT !.groups = l, !.decodedGroups = d, !.used = u]
  BY DEF ReleaseGroup
<1>4. k \in Receivers
  BY SaneParts
<1> HIDE DEF l, u, d
<1>5. QED
  BY <1>1, <1>2, <1>3, <1>4 DEF Receivers, l, u, d

Ended(k, id, t) ==
    [ReleaseGroup(k, id) EXCEPT !.groupWindow = Finish(@, id, t), !.ended = @ \cup {<<"group", id, t>>}]

LEMMA EndedFields ==
    ASSUME NEW F, NEW k, Sane(k, F), NEW id \in Pending(k.groups), NEW t \in {"completed", "expired"}
    PROVE  LET n == Ended(k, id, t)
           IN  /\ n \in Receivers /\ n.groups = Unlink(k.groups, id)
               /\ n.groupWindow = Finish(k.groupWindow, id, t)
               /\ n.originals = k.originals /\ n.datagramWindow = k.datagramWindow
               /\ n.retryWait = k.retryWait /\ n.closed = k.closed /\ n.out = k.out
               /\ n.ended = k.ended \cup {<<"group", id, t>>}
               /\ n.used = k.used - k.groups.map[id].lease
               /\ n.decodedGroups = IF k.groups.map[id].decoded THEN k.decodedGroups - 1 ELSE k.decodedGroups
<1> DEFINE m == ReleaseGroup(k, id)
           v == Finish(k.groupWindow, id, t)
           e == k.ended \cup {<<"group", id, t>>}
<1>1. v \in Windows /\ e \in SUBSET Fates
  BY GroupEndTypes
<1>2. /\ m \in Receivers /\ m.groups = Unlink(k.groups, id) /\ m.groupWindow = k.groupWindow
      /\ m.originals = k.originals /\ m.datagramWindow = k.datagramWindow
      /\ m.retryWait = k.retryWait /\ m.closed = k.closed /\ m.out = k.out /\ m.ended = k.ended
      /\ m.used = k.used - k.groups.map[id].lease
      /\ m.decodedGroups = IF k.groups.map[id].decoded THEN k.decodedGroups - 1 ELSE k.decodedGroups
  BY ReleaseFields
<1>3. Ended(k, id, t) = [m EXCEPT !.groupWindow = v, !.ended = e]
  BY <1>2 DEF Ended
<1> HIDE DEF m, v, e
<1>4. QED
  BY <1>1, <1>2, <1>3 DEF Receivers, v, e

LEMMA EndedStep ==
    ASSUME NEW F, NEW k, Sane(k, F), NEW id \in Pending(k.groups), NEW t \in {"completed", "expired"},
           t = "completed" => SettledEach(k, F, Sent(id))
    PROVE  LET n == Ended(k, id, t)
           IN  Sane(n, F) /\ Others(k, n, id) /\ Pending(n.groups) = Pending(k.groups) \ {id}
<1> DEFINE n == Ended(k, id, t)
<1>1. t = "completed" => SettledAll(k, F \cup k.ended, id)
  BY DEF SettledEach, SettledIn, SettledAll
<1>2. /\ n \in Receivers /\ n.groups = Unlink(k.groups, id)
      /\ n.groupWindow = Finish(k.groupWindow, id, t)
      /\ n.originals = k.originals /\ n.datagramWindow = k.datagramWindow
      /\ n.closed = k.closed /\ n.out = k.out
      /\ n.ended = k.ended \cup {<<"group", id, t>>}
  BY EndedFields
<1> HIDE DEF n
<1>3. Sane(n, F) /\ Gone(k, n, id)
  BY <1>1, <1>2, GroupEnds
<1>4. QED
  BY <1>2, <1>3 DEF Gone, Others, n

LEMMA ExpireGroupStep ==
    ASSUME NEW F, NEW k, Sane(k, F), NEW id \in Pending(k.groups)
    PROVE  LET n == ExpireGroup(k, id)
           IN  Sane(n, F) /\ Others(k, n, id) /\ Pending(n.groups) = Pending(k.groups) \ {id}
<1>1. ExpireGroup(k, id) = Ended(k, id, "expired")
  BY DEF ExpireGroup, Ended
<1>2. QED
  BY <1>1, EndedStep

\* The result of a step that works on group id.
Answers == {"none", "invalid", "full"}
Results == [k : Receivers, err : Answers]
Stepped(k, r, id, F) == r \in Results /\ Sane(r.k, F) /\ Others(k, r.k, id)

LEMMA MakeStepped ==
    ASSUME NEW F, NEW k, NEW id, NEW n, Sane(n, F), Others(k, n, id), NEW err \in Answers
    PROVE  Stepped(k, [k |-> n, err |-> err], id, F)
BY SaneParts DEF Stepped, Results

LEMMA OthersTrans ==
    ASSUME NEW k, NEW m, NEW n, NEW id, Others(k, m, id), Others(m, n, id)
    PROVE  Others(k, n, id)
BY DEF Others

LEMMA WaitSane ==
    ASSUME NEW F, NEW k, Sane(k, F), NEW b \in BOOLEAN
    PROVE  LET n == [k EXCEPT !.retryWait = b]
           IN  Sane(n, F) /\ n.groups = k.groups /\ n.closed = k.closed
<1> DEFINE n == [k EXCEPT !.retryWait = b]
<1>1. k \in Receivers
  BY SaneParts
<1>2. /\ n \in Receivers /\ n.groups = k.groups /\ n.closed = k.closed /\ n.groupWindow = k.groupWindow
      /\ n.originals = k.originals /\ n.datagramWindow = k.datagramWindow
      /\ n.out = k.out /\ n.ended = k.ended
  BY <1>1 DEF Receivers
<1> HIDE DEF n
<1>3. Sane(n, F)
  BY <1>2, SameSane
<1>4. QED
  BY <1>2, <1>3 DEF n

LEMMA AdmitStep ==
    ASSUME NEW F, NEW k, Sane(k, F), NEW id \in Pending(k.groups), Decodes(id)
    PROVE  Stepped(k, AdmitOriginals(k, id), id, F)
<1> DEFINE a == AddGroup(k, Sent(id))
           r == AdmitOriginals(k, id)
<1>1. scenario \in Scenarios /\ id \in GroupIDs
  BY GroupEndTypes, SaneParts
<1>2. Ascending(Sent(id))
  BY <1>1, DecodedAscends
<1>3. /\ Sane(a.k, F) /\ Aside(k, a.k) /\ a.err \in {"none", "full", "invalid"}
      /\ a.err = "none" => SettledEach(a.k, F, Sent(id))
  BY <1>2, AddStep
<1>4. r = CASE a.err = "full" -> [k |-> [a.k EXCEPT !.retryWait = TRUE], err |-> "none"]
            [] a.err = "invalid" -> [k |-> ExpireGroup(a.k, id), err |-> "invalid"]
            [] OTHER -> [k |-> Ended(a.k, id, "completed"), err |-> "none"]
  BY DEF AdmitOriginals, Ended
<1> HIDE DEF a, r
<1>5. id \in Pending(a.k.groups) /\ Others(k, a.k, id)
  BY <1>3 DEF Aside, Others
<1>6. CASE a.err = "full"
  <2> DEFINE n == [a.k EXCEPT !.retryWait = TRUE]
  <2>1. r = [k |-> n, err |-> "none"]
    BY <1>4, <1>6
  <2>2. Sane(n, F) /\ n.groups = a.k.groups /\ n.closed = a.k.closed
    BY <1>3, WaitSane
  <2> HIDE DEF n
  <2>3. Others(k, n, id)
    BY <1>5, <2>2 DEF Others
  <2>4. QED
    BY <2>1, <2>2, <2>3, MakeStepped DEF r, Answers
<1>7. CASE a.err = "invalid"
  <2> DEFINE n == ExpireGroup(a.k, id)
  <2>1. r = [k |-> n, err |-> "invalid"]
    BY <1>4, <1>7
  <2>2. Sane(n, F) /\ Others(a.k, n, id)
    BY <1>3, <1>5, ExpireGroupStep
  <2> HIDE DEF n
  <2>3. Others(k, n, id)
    BY <1>5, <2>2, OthersTrans
  <2>4. QED
    BY <2>1, <2>2, <2>3, MakeStepped DEF r, Answers
<1>8. CASE a.err = "none"
  <2> DEFINE n == Ended(a.k, id, "completed")
  <2>1. r = [k |-> n, err |-> "none"]
    BY <1>4, <1>8
  <2>2. Sane(n, F) /\ Others(a.k, n, id)
    BY <1>3, <1>5, <1>8, EndedStep
  <2> HIDE DEF n
  <2>3. Others(k, n, id)
    BY <1>5, <2>2, OthersTrans
  <2>4. QED
    BY <2>1, <2>2, <2>3, MakeStepped DEF r, Answers
<1>9. QED
  BY <1>3, <1>6, <1>7, <1>8

\* A pending group has another entry; the counters may change with it.
Entered(k, id, entry, d, u) ==
    [k EXCEPT !.groups = Put(k.groups, id, entry), !.decodedGroups = d, !.used = u]

LEMMA EnteredStep ==
    ASSUME NEW F, NEW k, Sane(k, F), NEW id \in Pending(k.groups), NEW entry \in GroupEntries,
           entry.age = k.groups.map[id].age, entry.decoded => Decodes(id), NEW d \in Int, NEW u \in Int
    PROVE  LET n == Entered(k, id, entry, d, u)
           IN  /\ Sane(n, F) /\ Changed(k, n, id, entry) /\ Others(k, n, id) /\ id \in Pending(n.groups)
               /\ n.groups = Put(k.groups, id, entry) /\ n.groupWindow = k.groupWindow
               /\ n.decodedGroups = d /\ n.used = u /\ n.originals = k.originals
               /\ n.datagramWindow = k.datagramWindow
               /\ n.retryWait = k.retryWait /\ n.closed = k.closed /\ n.out = k.out /\ n.ended = k.ended
<1> DEFINE l == Put(k.groups, id, entry)
           n == Entered(k, id, entry, d, u)
<1>1. k \in Receivers /\ k.groups \in Lists(GroupEntries) /\ Chained(k.groups)
  BY SaneParts
<1>2. l \in Lists(GroupEntries)
  BY <1>1, PutFacts
<1>3. n = [k EXCEPT !.groups = l, !.decodedGroups = d, !.used = u]
  BY DEF Entered
<1> HIDE DEF l, n
<1>4. /\ n \in Receivers /\ n.groups = l /\ n.groupWindow = k.groupWindow
      /\ n.decodedGroups = d /\ n.used = u /\ n.originals = k.originals
      /\ n.datagramWindow = k.datagramWindow
      /\ n.retryWait = k.retryWait /\ n.closed = k.closed /\ n.out = k.out /\ n.ended = k.ended
  BY <1>1, <1>2, <1>3 DEF Receivers
<1>5. Sane(n, F) /\ Changed(k, n, id, entry)
  <2>1. n.groups = Put(k.groups, id, entry)
    BY <1>4 DEF l
  <2>2. QED
    BY <1>4, <2>1, GroupChanges
<1>6. Others(k, n, id) /\ id \in Pending(n.groups)
  BY <1>4, <1>5 DEF Changed, Others
<1>7. QED
  BY <1>4, <1>5, <1>6 DEF n, l

\* The entry of a group that Decode is done with.
DecodedEntry(k, id) ==
    [k.groups.map[id] EXCEPT !.shards = {}, !.decoded = TRUE, !.lease = DecodedCharge]

LEMMA DecodedFacts ==
    ASSUME NEW F, NEW k, Sane(k, F), NEW id \in Pending(k.groups)
    PROVE  LET e == DecodedEntry(k, id)
           IN  e \in GroupEntries /\ e.age = k.groups.map[id].age /\ e.decoded /\ e.lease = DecodedCharge
<1>1. k.groups.map[id] \in GroupEntries
  BY SaneParts
<1>2. QED
  BY <1>1, LinkChargeType DEF DecodedEntry, GroupEntries

DecodedState(k, id) ==
    Entered(k, id, DecodedEntry(k, id), k.decodedGroups + 1, k.used - GroupCharge + DecodedCharge)

LEMMA DecodeIs ==
    ASSUME NEW k, NEW id, Decodes(id)
    PROVE  Decode(k, id) = AdmitOriginals(DecodedState(k, id), id)
BY DEF Decode, DecodedState, Entered, DecodedEntry

LEMMA DecodedStateStep ==
    ASSUME NEW F, NEW k, Sane(k, F), NEW id \in Pending(k.groups), Decodes(id)
    PROVE  LET n == DecodedState(k, id)
           IN  Sane(n, F) /\ Others(k, n, id) /\ id \in Pending(n.groups)
<1>1. k.decodedGroups + 1 \in Int /\ k.used - GroupCharge + DecodedCharge \in Int
  BY SaneParts, LinkChargeType
<1>2. DecodedEntry(k, id) \in GroupEntries /\ DecodedEntry(k, id).age = k.groups.map[id].age
  BY DecodedFacts
<1>3. QED
  BY <1>1, <1>2, EnteredStep DEF DecodedState

LEMMA DecodeStep ==
    ASSUME NEW F, NEW k, Sane(k, F), NEW id \in Pending(k.groups)
    PROVE  Stepped(k, Decode(k, id), id, F)
<1>1. CASE ~Decodes(id)
  <2>1. Decode(k, id) = [k |-> ExpireGroup(k, id), err |-> "invalid"]
    BY <1>1 DEF Decode
  <2>2. Sane(ExpireGroup(k, id), F) /\ Others(k, ExpireGroup(k, id), id)
    BY ExpireGroupStep
  <2>3. QED
    BY <2>1, <2>2, MakeStepped DEF Answers
<1>2. CASE Decodes(id)
  <2> DEFINE m == DecodedState(k, id)
             r == AdmitOriginals(m, id)
  <2>1. Sane(m, F) /\ Others(k, m, id) /\ id \in Pending(m.groups)
    BY <1>2, DecodedStateStep
  <2>2. Decode(k, id) = r
    BY <1>2, DecodeIs
  <2> HIDE DEF m
  <2>3. Stepped(m, r, id, F)
    BY <1>2, <2>1, AdmitStep
  <2> HIDE DEF r
  <2>4. Others(k, r.k, id)
    BY <2>1, <2>3, OthersTrans DEF Stepped
  <2>5. QED
    BY <2>2, <2>3, <2>4 DEF Stepped
<1>3. QED
  BY <1>1, <1>2

\* The entry of a group that begins.
FreshEntry == [age |-> 0, shards |-> {}, decoded |-> FALSE, lease |-> GroupCharge]

LEMMA NewGroupStep ==
    ASSUME NEW F, NEW k, Sane(k, F), NEW id \in GroupIDs, id \notin Pending(k.groups),
           State(k.groupWindow, id) = "unseen"
    PROVE  LET n == NewGroup(k, id)
           IN  /\ Sane(n, F) /\ Joined(k, n, id, FreshEntry) /\ Others(k, n, id) /\ id \in Pending(n.groups)
               /\ n.groups = Link(k.groups, id, FreshEntry) /\ n.groupWindow = Admit(k.groupWindow, id)
               /\ n.decodedGroups = k.decodedGroups /\ n.used = k.used + GroupCharge
               /\ n.originals = k.originals /\ n.datagramWindow = k.datagramWindow
               /\ n.retryWait = k.retryWait /\ n.closed = k.closed /\ n.out = k.out /\ n.ended = k.ended
<1> DEFINE l == Link(k.groups, id, FreshEntry)
           v == Admit(k.groupWindow, id)
           u == k.used + GroupCharge
           n == NewGroup(k, id)
<1>1. /\ k \in Receivers /\ k.groups \in Lists(GroupEntries) /\ Chained(k.groups) /\ k.used \in Int
      /\ WindowOK(k.groupWindow) /\ scenario \in Scenarios
  BY SaneParts
<1>2. id \in IDs /\ id \in Nat
  BY <1>1, SentFacts DEF IDs
<1>3. FreshEntry \in GroupEntries /\ FreshEntry.age = 0 /\ ~FreshEntry.decoded
  BY LinkChargeType DEF FreshEntry, GroupEntries
<1>4. l \in Lists(GroupEntries)
  BY <1>1, <1>2, <1>3, LinkFacts, EntryTypes
<1>5. v \in Windows
  BY <1>1, <1>2, AdmitState DEF WindowOK
<1>6. u \in Int
  BY <1>1, LinkChargeType
<1>7. n = [k EXCEPT !.used = u, !.groupWindow = v, !.groups = l]
  BY DEF NewGroup, FreshEntry
<1> HIDE DEF l, v, u, n
<1>8. /\ n \in Receivers /\ n.groups = l /\ n.groupWindow = v
      /\ n.decodedGroups = k.decodedGroups /\ n.used = u /\ n.originals = k.originals
      /\ n.datagramWindow = k.datagramWindow
      /\ n.retryWait = k.retryWait /\ n.closed = k.closed /\ n.out = k.out /\ n.ended = k.ended
  BY <1>1, <1>4, <1>5, <1>6, <1>7 DEF Receivers
<1>9. Sane(n, F) /\ Joined(k, n, id, FreshEntry)
  <2>1. n.groups = Link(k.groups, id, FreshEntry) /\ n.groupWindow = Admit(k.groupWindow, id)
    BY <1>8 DEF l, v
  <2>2. QED
    BY <1>3, <1>8, <2>1, GroupBegins
<1>10. Others(k, n, id) /\ id \in Pending(n.groups)
  BY <1>8, <1>9 DEF Joined, Others
<1>11. QED
  BY <1>8, <1>9, <1>10 DEF n, l, v, u

\* A group has a shard more.
GrownEntry(k, r) == [k.groups.map[r.id] EXCEPT !.shards = k.groups.map[r.id].shards \cup {r.shard}]
GrownState(k, r) == Entered(k, r.id, GrownEntry(k, r), k.decodedGroups, k.used)

LEMMA GrownStep ==
    ASSUME NEW F, NEW k, Sane(k, F), NEW r \in Records, r.id \in Pending(k.groups)
    PROVE  LET n == GrownState(k, r)
               g == k.groups.map[r.id]
               e == GrownEntry(k, r)
           IN  /\ Sane(n, F) /\ Others(k, n, r.id) /\ r.id \in Pending(n.groups)
               /\ [k EXCEPT !.groups = Put(@, r.id, [g EXCEPT !.shards = g.shards \cup {r.shard}])] = n
               /\ e \in GroupEntries /\ e.age = g.age /\ e.decoded = g.decoded /\ e.lease = g.lease
<1> DEFINE g == k.groups.map[r.id]
           e == GrownEntry(k, r)
           n == GrownState(k, r)
<1>1. g \in GroupEntries /\ k.decodedGroups \in Int /\ k.used \in Int /\ k \in Receivers /\ scenario \in Scenarios
  BY SaneParts
<1>2. r.shard \in Nat
  BY <1>1, ScenariosAssumption DEF Records, Shards
<1>3. e \in GroupEntries /\ e.age = g.age /\ e.decoded = g.decoded /\ e.lease = g.lease
  BY <1>1, <1>2 DEF GrownEntry, GroupEntries
<1>4. e.decoded => Decodes(r.id)
  BY <1>3 DEF Sane, GroupsSane
<1>5. [k EXCEPT !.groups = Put(@, r.id, [g EXCEPT !.shards = g.shards \cup {r.shard}])] = n
  <2> DEFINE l == Put(k.groups, r.id, e)
  <2>1. [k EXCEPT !.groups = Put(@, r.id, [g EXCEPT !.shards = g.shards \cup {r.shard}])] = [k EXCEPT !.groups = l]
    BY DEF GrownEntry
  <2>2. n = [k EXCEPT !.groups = l, !.decodedGroups = k.decodedGroups, !.used = k.used]
    BY DEF GrownState, Entered
  <2> HIDE DEF l, n
  <2>3. [k EXCEPT !.groups = l] = [k EXCEPT !.groups = l, !.decodedGroups = k.decodedGroups, !.used = k.used]
    BY <1>1 DEF Receivers
  <2>4. QED
    BY <2>1, <2>2, <2>3
<1> HIDE DEF e
<1>6. Sane(n, F) /\ Others(k, n, r.id) /\ r.id \in Pending(n.groups)
  BY <1>1, <1>3, <1>4, EnteredStep DEF GrownState, e
<1>7. QED
  BY <1>3, <1>5, <1>6 DEF e

LEMMA OthersSame ==
    ASSUME NEW k, NEW id
    PROVE  Others(k, k, id)
BY DEF Others

LEMMA GatherStep ==
    ASSUME NEW F, NEW k, Sane(k, F), NEW r \in Records, r.id \in Pending(k.groups)
    PROVE  Stepped(k, Gather(k, r), r.id, F)
<1> DEFINE g == k.groups.map[r.id]
           m == GrownState(k, r)
           a == Gather(k, r)
           id == r.id
<1>1. /\ Sane(m, F) /\ Others(k, m, id) /\ id \in Pending(m.groups)
      /\ [k EXCEPT !.groups = Put(@, id, [g EXCEPT !.shards = g.shards \cup {r.shard}])] = m
  BY GrownStep
<1>2. g \in GroupEntries
  BY SaneParts
<1>3. g.decoded \in BOOLEAN
  BY <1>2 DEF GroupEntries
<1>4. a = CASE Due(g, GroupTimeout) -> [k |-> ExpireGroup(k, id), err |-> "none"]
            [] ~Due(g, GroupTimeout) /\ g.decoded -> AdmitOriginals(k, id)
            [] ~Due(g, GroupTimeout) /\ ~g.decoded /\ r.shard \in g.shards -> [k |-> k, err |-> "none"]
            [] OTHER -> IF Cardinality(m.groups.map[id].shards) < scenario.dataShards
                        THEN [k |-> m, err |-> "none"]
                        ELSE Decode(m, id)
  BY <1>1 DEF Gather
<1>5. g.decoded => Decodes(id)
  BY DEF Sane, GroupsSane
<1> HIDE DEF a, m, g
<1>6. CASE Due(g, GroupTimeout)
  <2> DEFINE n == ExpireGroup(k, id)
  <2>1. a = [k |-> n, err |-> "none"]
    BY <1>4, <1>6
  <2>2. Sane(n, F) /\ Others(k, n, id)
    BY ExpireGroupStep
  <2> HIDE DEF n
  <2>3. QED
    BY <2>1, <2>2, MakeStepped DEF a, Answers
<1>7. CASE ~Due(g, GroupTimeout) /\ g.decoded
  <2>1. a = AdmitOriginals(k, id)
    BY <1>4, <1>7
  <2>2. Stepped(k, AdmitOriginals(k, id), id, F)
    BY <1>5, <1>7, AdmitStep
  <2>3. QED
    BY <2>1, <2>2 DEF a
<1>8. CASE ~Due(g, GroupTimeout) /\ ~g.decoded /\ r.shard \in g.shards
  <2>1. a = [k |-> k, err |-> "none"]
    BY <1>4, <1>8
  <2>2. QED
    BY <2>1, OthersSame, MakeStepped DEF a, Answers
<1>9. CASE ~Due(g, GroupTimeout) /\ ~g.decoded /\ r.shard \notin g.shards
  <2>1. a = IF Cardinality(m.groups.map[id].shards) < scenario.dataShards
            THEN [k |-> m, err |-> "none"] ELSE Decode(m, id)
    BY <1>4, <1>9
  <2>2. Stepped(k, [k |-> m, err |-> "none"], id, F)
    BY <1>1, MakeStepped DEF Answers
  <2>3. Stepped(m, Decode(m, id), id, F)
    BY <1>1, DecodeStep
  <2>4. Stepped(k, Decode(m, id), id, F)
    BY <1>1, <2>3, OthersTrans DEF Stepped
  <2>5. QED
    BY <2>1, <2>2, <2>4 DEF a
<1>10. QED
  BY <1>3, <1>6, <1>7, <1>8, <1>9

\* One record of a bundle.
LEMMA RecordStep ==
    ASSUME NEW F, NEW s \in Results, Sane(s.k, F), NEW r \in Records, NEW restricted
    PROVE  Stepped(s.k, ReceiveRecord(s, r, restricted), r.id, F)
<1> DEFINE a == ReceiveRecord(s, r, restricted)
           id == r.id
<1>1. Stepped(s.k, s, id, F)
  BY OthersSame DEF Stepped
<1>2. Stepped(s.k, [s EXCEPT !.err = "full"], id, F)
  BY OthersSame DEF Stepped, Results, Answers
<1>3. id \in GroupIDs
  BY DEF Records
<1>4. a = CASE s.err # "none" -> s
            [] s.err = "none" /\ id \in Pending(s.k.groups) -> Gather(s.k, r)
            [] OTHER -> IF restricted \/ State(s.k.groupWindow, id) # "unseen" THEN s
                        ELSE IF ~CanReserveGroup(s.k) THEN [s EXCEPT !.err = "full"]
                        ELSE Gather(NewGroup(s.k, id), r)
  BY DEF ReceiveRecord
<1> HIDE DEF a
<1>5. CASE s.err # "none"
  BY <1>1, <1>4, <1>5 DEF a
<1>6. CASE s.err = "none" /\ id \in Pending(s.k.groups)
  <2>1. a = Gather(s.k, r)
    BY <1>4, <1>6
  <2>2. QED
    BY <1>6, <2>1, GatherStep DEF a
<1>7. CASE s.err = "none" /\ id \notin Pending(s.k.groups)
  <2>1. a \in {s, [s EXCEPT !.err = "full"]} \/ (State(s.k.groupWindow, id) = "unseen" /\ a = Gather(NewGroup(s.k, id), r))
    BY <1>4, <1>7
  <2>2. CASE a \in {s, [s EXCEPT !.err = "full"]}
    BY <1>1, <1>2, <2>2 DEF a
  <2>3. CASE State(s.k.groupWindow, id) = "unseen" /\ a = Gather(NewGroup(s.k, id), r)
    <3> DEFINE m == NewGroup(s.k, id)
    <3>1. Sane(m, F) /\ Others(s.k, m, id) /\ id \in Pending(m.groups)
      BY <1>3, <1>7, <2>3, NewGroupStep
    <3> HIDE DEF m
    <3>2. Stepped(m, Gather(m, r), id, F)
      BY <3>1, GatherStep
    <3>3. Others(s.k, Gather(m, r).k, id)
      BY <3>1, <3>2, OthersTrans DEF Stepped
    <3>4. Stepped(s.k, Gather(m, r), id, F)
      BY <3>2, <3>3 DEF Stepped
    <3>5. QED
      BY <2>3, <3>4 DEF m, a
  <2>4. QED
    BY <2>1, <2>2, <2>3
<1>8. QED
  BY <1>5, <1>6, <1>7

\* The records of a bundle.
SaneResults(k, F) == {s \in Results : Sane(s.k, F) /\ s.k.closed = k.closed}

LEMMA RecordRuns ==
    ASSUME NEW F, NEW k, Sane(k, F), NEW bundle \in Seq(Records), NEW restricted
    PROVE  LET after == RecordSteps(k, bundle, restricted)
           IN  /\ after[0] = [k |-> k, err |-> "none"]
               /\ \A n \in 1..Len(bundle) : after[n] = ReceiveRecord(after[n - 1], bundle[n], restricted)
               /\ \A n \in 0..Len(bundle) : after[n] \in SaneResults(k, F)
<1> DEFINE N == Len(bundle)
           first == [k |-> k, err |-> "none"]
           X == SaneResults(k, F)
           G == X \X (0..N)
           Step(x, n) == ReceiveRecord(x, bundle[n], restricted)
           step == [p \in G |-> Step(p[1], p[2] + 1)]
           Body(f) == [n \in 0..N |-> IF n = 0 THEN first ELSE Step(f[n - 1], n)]
           after == RecordSteps(k, bundle, restricted)
<1>1. N \in Nat /\ \A n \in 1..N : bundle[n] \in Records
  OBVIOUS
<1>2. first \in X
  BY SaneParts DEF SaneResults, Results, Answers
<1>3. ASSUME NEW x \in X, NEW n \in 1..N PROVE Step(x, n) \in X
  <2>1. x \in Results /\ Sane(x.k, F) /\ x.k.closed = k.closed
    BY DEF SaneResults
  <2>2. Stepped(x.k, Step(x, n), bundle[n].id, F)
    BY <1>1, <2>1, RecordStep
  <2>3. QED
    BY <2>1, <2>2 DEF Stepped, Others, SaneResults
<1>5. after = CHOOSE f : f = Body(f)
  BY DEF RecordSteps
<1> HIDE DEF N, first, Step, X
<1>4. \E f : f = Body(f)
  <2>2. <<first, 0>> \in G
    BY <1>1, <1>2
  <2>3. ASSUME NEW x \in X, NEW n \in 0..N, n # N
        PROVE  <<step[<<x, n>>], n + 1>> \in G
    <3>1. n + 1 \in 1..N /\ n + 1 \in 0..N
      BY <1>1, <2>3
    <3>2. Step(x, n + 1) \in X
      BY <1>3, <3>1
    <3>3. QED
      BY <3>1, <3>2
  <2>9. Keeps(G, X, N, step)
    BY <2>3 DEF Keeps
  <2> HIDE DEF step, G
  <2>4. PICK f : Runs(f, N, first, step) /\ Inside(f, N, G)
    BY <1>1, <2>2, <2>9, LoopHolds
  <2>5. ASSUME NEW n \in 1..N PROVE f[n] = Step(f[n - 1], n)
    <3>1. n - 1 \in 0..N /\ (n - 1) + 1 = n
      BY <1>1
    <3>2. <<f[n - 1], n - 1>> \in G
      BY <2>4, <3>1 DEF Inside
    <3>3. step[<<f[n - 1], n - 1>>] = Step(f[n - 1], (n - 1) + 1)
      BY <3>2 DEF step
    <3>4. QED
      BY <2>4, <3>1, <3>3 DEF Runs
  <2>6. ASSUME NEW n \in 0..N PROVE f[n] = Body(f)[n]
    <3>1. CASE n = 0
      BY <2>4, <3>1 DEF Runs
    <3>2. CASE n # 0
      <4>1. n \in 1..N
        BY <1>1, <3>2
      <4>2. QED
        BY <2>5, <3>2, <4>1
    <3>3. QED
      BY <3>1, <3>2
  <2>7. f = [n \in 0..N |-> f[n]]
    BY <2>4 DEF Runs
  <2>8. QED
    BY <2>6, <2>7
<1>6. after = Body(after)
  BY <1>4, <1>5
<1> HIDE DEF after
<1>7. after[0] = first
  BY <1>1, <1>6
<1>8. \A n \in 1..N : after[n] = Step(after[n - 1], n)
  <2>1. SUFFICES ASSUME NEW n \in 1..N PROVE after[n] = Step(after[n - 1], n)
    OBVIOUS
  <2>2. n \in 0..N /\ n # 0
    BY <1>1
  <2>3. Body(after)[n] = Step(after[n - 1], n)
    BY <2>2
  <2>4. QED
    BY <1>6, <2>3
<1> DEFINE T == {n \in 0..N : after[n] \in X}
<1>9. 0 \in T
  BY <1>1, <1>2, <1>7
<1>10. \A n \in 1..N : n - 1 \in T => n \in T
  BY <1>1, <1>3, <1>8
<1>11. \A n \in 0..N : n \in T
  <2> HIDE DEF T
  <2>1. QED
    BY <1>1, <1>9, <1>10, Induction
<1>12. QED
  BY <1>7, <1>8, <1>11 DEF after, N, first, Step, X

----------------------------------------------------------------------------
(* retryGroups                                                             *)

\* The groups of the order from its n-th on still wait.
Awaits(k, order, n) ==
    \A j \in DOMAIN order : j > n => order[j] \in Pending(k.groups) /\ k.groups.map[order[j]].decoded
GoodOrder(k, order) ==
    /\ order \in Seq(IDs) /\ Awaits(k, order, 0)
    /\ \A i, j \in DOMAIN order : order[i] = order[j] => i = j

RetryStep(s, id) == IF s.err # "none" THEN s ELSE AdmitOriginals(s.k, id)

LEMMA OrdersGood ==
    ASSUME NEW F, NEW k, Sane(k, F), NEW order \in RetryOrders(k)
    PROVE  GoodOrder(k, order)
<1> DEFINE decoded == {id \in Pending(k.groups) : k.groups.map[id].decoded}
<1>1. Pending(k.groups) \subseteq IDs /\ IsFiniteSet(Pending(k.groups))
  BY SaneParts, HeadFacts
<1>2. IsFiniteSet(decoded)
  BY <1>1, FS_Subset
<1>3. Cardinality(decoded) \in Nat
  BY <1>2, FS_CardinalityType
<1>4. CASE order = <<>>
  <2>1. order \in Seq(IDs) /\ DOMAIN order = {}
    BY <1>4
  <2>2. QED
    BY <2>1 DEF GoodOrder, Awaits
<1>5. CASE order \in {o \in [1..Cardinality(decoded) -> decoded] : IsInjective(o)}
  <2> DEFINE c == Cardinality(decoded)
  <2>1. order \in [1..c -> decoded] /\ \A i, j \in DOMAIN order : order[i] = order[j] => i = j
    BY <1>5 DEF IsInjective
  <2>2. order \in [1..c -> IDs]
    BY <1>1, <2>1
  <2> HIDE DEF c
  <2>3. order \in Seq(IDs)
    <3>1. c \in Nat
      BY <1>3 DEF c
    <3>2. order \in UNION {[1..n -> IDs] : n \in Nat}
      BY <2>2, <3>1, Zenon
    <3>3. QED
      BY <3>2, SeqDef, Zenon
  <2>4. Awaits(k, order, 0)
    BY <2>1 DEF Awaits
  <2>5. QED
    BY <2>1, <2>3, <2>4 DEF GoodOrder
<1>6. QED
  BY <1>4, <1>5 DEF RetryOrders

LEMMA RetryNext ==
    ASSUME NEW F, NEW k, NEW order, GoodOrder(k, order), NEW n \in DOMAIN order,
           NEW x \in SaneResults(k, F), Awaits(x.k, order, n - 1)
    PROVE  LET y == RetryStep(x, order[n])
           IN  y \in SaneResults(k, F) /\ Awaits(y.k, order, n)
<1> DEFINE y == RetryStep(x, order[n])
           id == order[n]
<1>1. order \in Seq(IDs) /\ DOMAIN order = 1..Len(order) /\ Len(order) \in Nat /\ n \in Nat
  BY DEF GoodOrder
<1>2. x \in Results /\ Sane(x.k, F) /\ x.k.closed = k.closed
  BY DEF SaneResults
<1>3. id \in Pending(x.k.groups) /\ x.k.groups.map[id].decoded
  BY <1>1 DEF Awaits
<1>4. \A j \in DOMAIN order : j > n => j > n - 1 /\ order[j] # id
  BY <1>1 DEF GoodOrder
<1>5. CASE x.err # "none"
  <2>1. y = x
    BY <1>5 DEF RetryStep
  <2>2. Awaits(x.k, order, n)
    BY <1>4 DEF Awaits
  <2>3. QED
    BY <2>1, <2>2
<1>6. CASE x.err = "none"
  <2>1. y = AdmitOriginals(x.k, id)
    BY <1>6 DEF RetryStep
  <2>2. Decodes(id)
    BY <1>2, <1>3 DEF Sane, GroupsSane
  <2>3. Stepped(x.k, y, id, F)
    BY <1>2, <1>3, <2>1, <2>2, AdmitStep
  <2> HIDE DEF y
  <2>4. y \in SaneResults(k, F)
    BY <1>2, <2>3 DEF Stepped, Others, SaneResults
  <2>5. Awaits(y.k, order, n)
    <3>1. SUFFICES ASSUME NEW j \in DOMAIN order, j > n
                   PROVE  order[j] \in Pending(y.k.groups) /\ y.k.groups.map[order[j]].decoded
      BY DEF Awaits
    <3>2. order[j] \in Pending(x.k.groups) \ {id} /\ x.k.groups.map[order[j]].decoded
      BY <1>4, <3>1 DEF Awaits
    <3>3. order[j] \in Pending(y.k.groups) /\ y.k.groups.map[order[j]] = x.k.groups.map[order[j]]
      BY <2>3, <3>2 DEF Stepped, Others
    <3>4. QED
      BY <3>2, <3>3
  <2>6. QED
    BY <2>4, <2>5 DEF y
<1>7. QED
  BY <1>5, <1>6

LEMMA RetryRuns ==
    ASSUME NEW F, NEW k, Sane(k, F), NEW order, GoodOrder(k, order)
    PROVE  LET after == RetrySteps(k, order)
           IN  /\ after[0] = [k |-> k, err |-> "none"]
               /\ \A n \in 1..Len(order) : after[n] = RetryStep(after[n - 1], order[n])
               /\ \A n \in 0..Len(order) : after[n] \in SaneResults(k, F) /\ Awaits(after[n].k, order, n)
<1> DEFINE N == Len(order)
           first == [k |-> k, err |-> "none"]
           G == {p \in SaneResults(k, F) \X (0..N) : Awaits(p[1].k, order, p[2])}
           Step(x, n) == RetryStep(x, order[n])
           step == [p \in G |-> Step(p[1], p[2] + 1)]
           Body(f) == [n \in 0..N |-> IF n = 0 THEN first ELSE Step(f[n - 1], n)]
           after == RetrySteps(k, order)
<1>1. N \in Nat
  BY DEF GoodOrder
<1>2. <<first, 0>> \in G
  <2>1. first \in SaneResults(k, F)
    BY SaneParts DEF SaneResults, Results, Answers
  <2>2. Awaits(first.k, order, 0)
    BY DEF GoodOrder
  <2>3. QED
    BY <1>1, <2>1, <2>2
<1>3. ASSUME NEW x \in SaneResults(k, F), NEW n \in 1..N, <<x, n - 1>> \in G PROVE <<Step(x, n), n>> \in G
  <2>1. Awaits(x.k, order, n - 1)
    BY <1>3
  <2>2. n \in DOMAIN order /\ n \in 0..N
    BY <1>1 DEF GoodOrder
  <2> HIDE DEF N
  <2>3. Step(x, n) \in SaneResults(k, F) /\ Awaits(Step(x, n).k, order, n)
    BY <2>1, <2>2, RetryNext
  <2> HIDE DEF Step
  <2>4. QED
    BY <2>2, <2>3
<1>4. after = CHOOSE f : f = Body(f)
  BY DEF RetrySteps, RetryStep
<1> HIDE DEF N, first, Step
<1>5. \E f : f = Body(f)
  <2>1. ASSUME NEW x \in SaneResults(k, F), NEW n \in 0..N, <<x, n>> \in G, n # N
        PROVE  <<step[<<x, n>>], n + 1>> \in G
    <3>1. step[<<x, n>>] = Step(x, n + 1)
      BY <2>1
    <3> HIDE DEF G
    <3>2. n + 1 \in 1..N /\ (n + 1) - 1 = n
      BY <1>1, <2>1
    <3>3. <<Step(x, n + 1), n + 1>> \in G
      BY <1>3, <2>1, <3>2
    <3>4. QED
      BY <3>1, <3>3
  <2>2. Keeps(G, SaneResults(k, F), N, step)
    BY <2>1 DEF Keeps
  <2> HIDE DEF step, G
  <2>3. PICK f : Runs(f, N, first, step) /\ Inside(f, N, G)
    BY <1>1, <1>2, <2>2, LoopHolds
  <2>4. ASSUME NEW n \in 1..N PROVE f[n] = Step(f[n - 1], n)
    <3>1. n - 1 \in 0..N /\ (n - 1) + 1 = n
      BY <1>1
    <3>2. <<f[n - 1], n - 1>> \in G
      BY <2>3, <3>1 DEF Inside
    <3>3. step[<<f[n - 1], n - 1>>] = Step(f[n - 1], (n - 1) + 1)
      BY <3>2 DEF step
    <3>4. QED
      BY <2>3, <3>1, <3>3 DEF Runs
  <2>5. ASSUME NEW n \in 0..N PROVE f[n] = Body(f)[n]
    <3>1. CASE n = 0
      BY <2>3, <3>1 DEF Runs
    <3>2. CASE n # 0
      <4>1. n \in 1..N
        BY <1>1, <3>2
      <4>2. QED
        BY <2>4, <3>2, <4>1
    <3>3. QED
      BY <3>1, <3>2
  <2>6. f = [n \in 0..N |-> f[n]]
    BY <2>3 DEF Runs
  <2>7. QED
    BY <2>5, <2>6
<1>6. after = Body(after)
  BY <1>4, <1>5
<1> HIDE DEF after
<1>7. after[0] = first
  BY <1>1, <1>6
<1>8. \A n \in 1..N : after[n] = Step(after[n - 1], n)
  <2>1. SUFFICES ASSUME NEW n \in 1..N PROVE after[n] = Step(after[n - 1], n)
    OBVIOUS
  <2>2. n \in 0..N /\ n # 0
    BY <1>1
  <2>3. Body(after)[n] = Step(after[n - 1], n)
    BY <2>2
  <2>4. QED
    BY <1>6, <2>3
<1> DEFINE T == {n \in 0..N : <<after[n], n>> \in G}
<1>9. \A n \in 0..N : n \in T
  <2>1. 0 \in T
    BY <1>1, <1>2, <1>7
  <2>2. ASSUME NEW n \in 1..N, n - 1 \in T PROVE n \in T
    <3>1. <<after[n - 1], n - 1>> \in G
      BY <2>2
    <3>2. after[n - 1] \in SaneResults(k, F)
      BY <3>1
    <3> HIDE DEF G
    <3>3. <<after[n], n>> \in G
      BY <1>3, <1>8, <3>1, <3>2
    <3>4. QED
      BY <1>1, <3>3
  <2> HIDE DEF T
  <2>3. QED
    BY <1>1, <2>1, <2>2, Induction
<1>10. QED
  <2>1. \A n \in 0..N : after[n] \in SaneResults(k, F) /\ Awaits(after[n].k, order, n)
    BY <1>9
  <2> HIDE DEF G, T
  <2>2. QED
    BY <1>7, <1>8, <2>1 DEF after, N, first, Step

----------------------------------------------------------------------------
(* expireGroups, Receiver.Expire and the loops of a close                  *)

SaneStates(k, F) == {x \in Receivers : Sane(x, F) /\ x.closed = k.closed /\ x.out = k.out}

GroupExpiry(p) ==
    IF p.groups.head # 0 /\ Due(p.groups.map[p.groups.head], GroupTimeout)
    THEN ExpireGroup(p, p.groups.head) ELSE p
OriginalExpiry(p) ==
    IF p.originals.head # 0 /\ Due(p.originals.map[p.originals.head], DatagramTimeout)
    THEN ExpireOriginal(p, p.originals.head) ELSE p

LEMMA HeadOf ==
    ASSUME NEW F, NEW k, Sane(k, F)
    PROVE  /\ Cardinality(Pending(k.groups)) \in Nat /\ Cardinality(Pending(k.originals)) \in Nat
           /\ IsFiniteSet(Pending(k.groups)) /\ IsFiniteSet(Pending(k.originals))
           /\ k.groups.head # 0 => k.groups.head \in Pending(k.groups)
           /\ k.originals.head # 0 => k.originals.head \in Pending(k.originals)
           /\ Cardinality(Pending(k.groups)) # 0 => k.groups.head # 0
           /\ Cardinality(Pending(k.originals)) # 0 => k.originals.head # 0
<1>1. /\ k.groups \in Lists(GroupEntries) /\ Chained(k.groups)
      /\ k.originals \in Lists(OriginalEntries) /\ Chained(k.originals)
  BY SaneParts
<1>2. /\ IsFiniteSet(Pending(k.groups))
      /\ k.groups.head # 0 => k.groups.head \in Pending(k.groups)
      /\ k.groups.head = 0 => Pending(k.groups) = {}
  BY <1>1, HeadFacts
<1>3. /\ IsFiniteSet(Pending(k.originals))
      /\ k.originals.head # 0 => k.originals.head \in Pending(k.originals)
      /\ k.originals.head = 0 => Pending(k.originals) = {}
  BY <1>1, HeadFacts
<1>4. QED
  BY <1>2, <1>3, FS_CardinalityType, FS_EmptySet

LEMMA GroupExpirySane ==
    ASSUME NEW F, NEW k, NEW x \in SaneStates(k, F)
    PROVE  GroupExpiry(x) \in SaneStates(k, F)
<1> DEFINE h == x.groups.head
<1>1. Sane(x, F) /\ x.closed = k.closed /\ x.out = k.out
  BY DEF SaneStates
<1>2. CASE h # 0
  <2>1. h \in Pending(x.groups)
    BY <1>1, <1>2, HeadOf
  <2>2. Sane(ExpireGroup(x, h), F) /\ Others(x, ExpireGroup(x, h), h)
    BY <1>1, <2>1, ExpireGroupStep
  <2>5. ExpireGroup(x, h).out = x.out
    BY <1>1, <2>1, EndedFields DEF ExpireGroup, Ended
  <2>3. ExpireGroup(x, h) \in SaneStates(k, F)
    BY <1>1, <2>2, <2>5, SaneParts DEF SaneStates, Others
  <2>4. QED
    BY <2>3 DEF GroupExpiry
<1>3. CASE h = 0
  BY <1>3 DEF GroupExpiry
<1>4. QED
  BY <1>2, <1>3

LEMMA OriginalExpirySane ==
    ASSUME NEW F, NEW k, NEW x \in SaneStates(k, F)
    PROVE  OriginalExpiry(x) \in SaneStates(k, F)
<1> DEFINE h == x.originals.head
<1>1. Sane(x, F) /\ x.closed = k.closed /\ x.out = k.out
  BY DEF SaneStates
<1>2. CASE h # 0
  <2>1. h \in Pending(x.originals)
    BY <1>1, <1>2, HeadOf
  <2>2. Touched(x, ExpireOriginal(x, h), h, F)
    BY <1>1, <2>1, ExpireStep
  <2>3. Sane(ExpireOriginal(x, h), F) /\ ExpireOriginal(x, h).closed = x.closed
    BY <2>2 DEF Touched
  <2>6. ExpireOriginal(x, h).out = x.out
    BY <1>1, <2>1, ExpireFields
  <2>4. ExpireOriginal(x, h) \in SaneStates(k, F)
    BY <1>1, <2>3, <2>6, SaneParts DEF SaneStates
  <2>5. QED
    BY <2>4 DEF OriginalExpiry
<1>3. CASE h = 0
  BY <1>3 DEF OriginalExpiry
<1>4. QED
  BY <1>2, <1>3

LEMMA ExpireGroupsRuns ==
    ASSUME NEW F, NEW k, Sane(k, F), NEW N, N = Cardinality(Pending(k.groups))
    PROVE  \E after : /\ after[0] = k /\ ExpireGroups(k) = after[N]
                      /\ \A n \in 1..N : after[n] = GroupExpiry(after[n - 1])
                      /\ \A n \in 0..N : after[n] \in SaneStates(k, F)
<1> DEFINE first == k
           G == {p \in SaneStates(k, F) \X (0..N) : TRUE}
           Step(x, n) == GroupExpiry(x)
           step == [p \in G |-> Step(p[1], p[2] + 1)]
           Body(f) == [n \in 0..N |-> IF n = 0 THEN first ELSE Step(f[n - 1], n)]
           after == CHOOSE f : f = Body(f)
<1>1. N \in Nat
  BY HeadOf
<1>2. <<first, 0>> \in G
  BY <1>1, SaneParts DEF SaneStates
<1>3. ASSUME NEW x \in SaneStates(k, F), NEW n \in 1..N, <<x, n - 1>> \in G PROVE <<Step(x, n), n>> \in G
  <2>1. Step(x, n) \in SaneStates(k, F)
    BY GroupExpirySane
  <2> HIDE DEF Step
  <2>2. QED
    BY <1>1, <2>1
<1>4. after = CHOOSE f : f = Body(f)
  OBVIOUS
<1> HIDE DEF first, Step
<1>5. \E f : f = Body(f)
  <2>1. ASSUME NEW x \in SaneStates(k, F), NEW n \in 0..N, <<x, n>> \in G, n # N
        PROVE  <<step[<<x, n>>], n + 1>> \in G
    <3>1. step[<<x, n>>] = Step(x, n + 1)
      BY <2>1
    <3> HIDE DEF G
    <3>2. n + 1 \in 1..N /\ (n + 1) - 1 = n
      BY <1>1, <2>1
    <3>3. <<Step(x, n + 1), n + 1>> \in G
      BY <1>3, <2>1, <3>2
    <3>4. QED
      BY <3>1, <3>3
  <2>2. Keeps(G, SaneStates(k, F), N, step)
    BY <2>1 DEF Keeps
  <2> HIDE DEF step, G
  <2>3. PICK f : Runs(f, N, first, step) /\ Inside(f, N, G)
    BY <1>1, <1>2, <2>2, LoopHolds
  <2>4. ASSUME NEW n \in 1..N PROVE f[n] = Step(f[n - 1], n)
    <3>1. n - 1 \in 0..N /\ (n - 1) + 1 = n
      BY <1>1
    <3>2. <<f[n - 1], n - 1>> \in G
      BY <2>3, <3>1 DEF Inside
    <3>3. step[<<f[n - 1], n - 1>>] = Step(f[n - 1], (n - 1) + 1)
      BY <3>2 DEF step
    <3>4. QED
      BY <2>3, <3>1, <3>3 DEF Runs
  <2>5. ASSUME NEW n \in 0..N PROVE f[n] = Body(f)[n]
    <3>1. CASE n = 0
      BY <2>3, <3>1 DEF Runs
    <3>2. CASE n # 0
      <4>1. n \in 1..N
        BY <1>1, <3>2
      <4>2. QED
        BY <2>4, <3>2, <4>1
    <3>3. QED
      BY <3>1, <3>2
  <2>6. f = [n \in 0..N |-> f[n]]
    BY <2>3 DEF Runs
  <2>7. QED
    BY <2>5, <2>6
<1>6. after = Body(after)
  BY <1>4, <1>5
<1> HIDE DEF after
<1>7. after[0] = first
  BY <1>1, <1>6
<1>8. \A n \in 1..N : after[n] = Step(after[n - 1], n)
  <2>1. SUFFICES ASSUME NEW n \in 1..N PROVE after[n] = Step(after[n - 1], n)
    OBVIOUS
  <2>2. n \in 0..N /\ n # 0
    BY <1>1
  <2>3. Body(after)[n] = Step(after[n - 1], n)
    BY <2>2
  <2>4. QED
    BY <1>6, <2>3
<1> DEFINE T == {n \in 0..N : <<after[n], n>> \in G}
<1>9. \A n \in 0..N : n \in T
  <2>1. 0 \in T
    BY <1>1, <1>2, <1>7
  <2>2. ASSUME NEW n \in 1..N, n - 1 \in T PROVE n \in T
    <3>1. <<after[n - 1], n - 1>> \in G
      BY <2>2
    <3>2. after[n - 1] \in SaneStates(k, F)
      BY <3>1
    <3> HIDE DEF G
    <3>3. <<after[n], n>> \in G
      BY <1>3, <1>8, <3>1, <3>2
    <3>4. QED
      BY <1>1, <3>3
  <2> HIDE DEF T
  <2>3. QED
    BY <1>1, <2>1, <2>2, Induction
<1>10. QED
  <2>1. ExpireGroups(k) = after[N]
    BY DEF ExpireGroups, GroupExpiry, after, Step, Body, first
  <2>2. \A n \in 0..N : after[n] \in SaneStates(k, F)
    BY <1>9
  <2> HIDE DEF G, T
  <2>3. QED
    BY <1>7, <1>8, <2>1, <2>2 DEF first, Step

LEMMA ExpireOriginalsRuns ==
    ASSUME NEW F, NEW k, Sane(k, F), NEW N, N = Cardinality(Pending(k.originals))
    PROVE  \E after : /\ after[0] = k /\ ExpireOriginals(k) = after[N]
                      /\ \A n \in 1..N : after[n] = OriginalExpiry(after[n - 1])
                      /\ \A n \in 0..N : after[n] \in SaneStates(k, F)
<1> DEFINE first == k
           G == {p \in SaneStates(k, F) \X (0..N) : TRUE}
           Step(x, n) == OriginalExpiry(x)
           step == [p \in G |-> Step(p[1], p[2] + 1)]
           Body(f) == [n \in 0..N |-> IF n = 0 THEN first ELSE Step(f[n - 1], n)]
           after == CHOOSE f : f = Body(f)
<1>1. N \in Nat
  BY HeadOf
<1>2. <<first, 0>> \in G
  BY <1>1, SaneParts DEF SaneStates
<1>3. ASSUME NEW x \in SaneStates(k, F), NEW n \in 1..N, <<x, n - 1>> \in G PROVE <<Step(x, n), n>> \in G
  <2>1. Step(x, n) \in SaneStates(k, F)
    BY OriginalExpirySane
  <2> HIDE DEF Step
  <2>2. QED
    BY <1>1, <2>1
<1>4. after = CHOOSE f : f = Body(f)
  OBVIOUS
<1> HIDE DEF first, Step
<1>5. \E f : f = Body(f)
  <2>1. ASSUME NEW x \in SaneStates(k, F), NEW n \in 0..N, <<x, n>> \in G, n # N
        PROVE  <<step[<<x, n>>], n + 1>> \in G
    <3>1. step[<<x, n>>] = Step(x, n + 1)
      BY <2>1
    <3> HIDE DEF G
    <3>2. n + 1 \in 1..N /\ (n + 1) - 1 = n
      BY <1>1, <2>1
    <3>3. <<Step(x, n + 1), n + 1>> \in G
      BY <1>3, <2>1, <3>2
    <3>4. QED
      BY <3>1, <3>3
  <2>2. Keeps(G, SaneStates(k, F), N, step)
    BY <2>1 DEF Keeps
  <2> HIDE DEF step, G
  <2>3. PICK f : Runs(f, N, first, step) /\ Inside(f, N, G)
    BY <1>1, <1>2, <2>2, LoopHolds
  <2>4. ASSUME NEW n \in 1..N PROVE f[n] = Step(f[n - 1], n)
    <3>1. n - 1 \in 0..N /\ (n - 1) + 1 = n
      BY <1>1
    <3>2. <<f[n - 1], n - 1>> \in G
      BY <2>3, <3>1 DEF Inside
    <3>3. step[<<f[n - 1], n - 1>>] = Step(f[n - 1], (n - 1) + 1)
      BY <3>2 DEF step
    <3>4. QED
      BY <2>3, <3>1, <3>3 DEF Runs
  <2>5. ASSUME NEW n \in 0..N PROVE f[n] = Body(f)[n]
    <3>1. CASE n = 0
      BY <2>3, <3>1 DEF Runs
    <3>2. CASE n # 0
      <4>1. n \in 1..N
        BY <1>1, <3>2
      <4>2. QED
        BY <2>4, <3>2, <4>1
    <3>3. QED
      BY <3>1, <3>2
  <2>6. f = [n \in 0..N |-> f[n]]
    BY <2>3 DEF Runs
  <2>7. QED
    BY <2>5, <2>6
<1>6. after = Body(after)
  BY <1>4, <1>5
<1> HIDE DEF after
<1>7. after[0] = first
  BY <1>1, <1>6
<1>8. \A n \in 1..N : after[n] = Step(after[n - 1], n)
  <2>1. SUFFICES ASSUME NEW n \in 1..N PROVE after[n] = Step(after[n - 1], n)
    OBVIOUS
  <2>2. n \in 0..N /\ n # 0
    BY <1>1
  <2>3. Body(after)[n] = Step(after[n - 1], n)
    BY <2>2
  <2>4. QED
    BY <1>6, <2>3
<1> DEFINE T == {n \in 0..N : <<after[n], n>> \in G}
<1>9. \A n \in 0..N : n \in T
  <2>1. 0 \in T
    BY <1>1, <1>2, <1>7
  <2>2. ASSUME NEW n \in 1..N, n - 1 \in T PROVE n \in T
    <3>1. <<after[n - 1], n - 1>> \in G
      BY <2>2
    <3>2. after[n - 1] \in SaneStates(k, F)
      BY <3>1
    <3> HIDE DEF G
    <3>3. <<after[n], n>> \in G
      BY <1>3, <1>8, <3>1, <3>2
    <3>4. QED
      BY <1>1, <3>3
  <2> HIDE DEF T
  <2>3. QED
    BY <1>1, <2>1, <2>2, Induction
<1>10. QED
  <2>1. ExpireOriginals(k) = after[N]
    BY DEF ExpireOriginals, OriginalExpiry, after, Step, Body, first
  <2>2. \A n \in 0..N : after[n] \in SaneStates(k, F)
    BY <1>9
  <2> HIDE DEF G, T
  <2>3. QED
    BY <1>7, <1>8, <2>1, <2>2 DEF first, Step

OriginalClosing(p) == ExpireOriginal(p, p.originals.head)
GroupClosing(p) == ReleaseGroup(p, p.groups.head)

LEMMA ReleaseStep ==
    ASSUME NEW F, NEW k, Sane(k, F), NEW id \in Pending(k.groups)
    PROVE  LET n == ReleaseGroup(k, id)
           IN  Sane(n, F) /\ n.closed = k.closed /\ n.out = k.out /\ Gone(k, n, id)
<1> DEFINE n == ReleaseGroup(k, id)
<1>1. /\ n \in Receivers /\ n.groups = Unlink(k.groups, id) /\ n.groupWindow = k.groupWindow
      /\ n.originals = k.originals /\ n.datagramWindow = k.datagramWindow
      /\ n.closed = k.closed /\ n.out = k.out /\ n.ended = k.ended
  BY ReleaseFields
<1> HIDE DEF n
<1>2. k.groups \in Lists(GroupEntries) /\ Chained(k.groups) /\ scenario \in Scenarios
  BY SaneParts
<1>3. /\ Chained(n.groups) /\ Pending(n.groups) = Pending(k.groups) \ {id}
      /\ \A x \in Pending(k.groups) \ {id} : n.groups.map[x] = k.groups.map[x]
  BY <1>1, <1>2, UnlinkFacts, EntryTypes
<1>4. GroupsSane(n, F \cup n.ended)
  <2>1. GroupsSane(k, F \cup n.ended)
    BY <1>1 DEF Sane
  <2> DEFINE C == Ids(F \cup n.ended, "group", "completed")
             X == Ids(F \cup n.ended, "group", "expired")
  <2>2. Remembers(k.groupWindow, Pending(k.groups), C, X)
    BY <2>1 DEF GroupsSane
  <2> HIDE DEF C, X
  <2>3. Remembers(n.groupWindow, Pending(n.groups), C, X)
    BY <1>1, <1>3, <2>2 DEF Remembers
  <2>4. \A x \in Pending(n.groups) : x \in GroupIDs /\ (n.groups.map[x].decoded => Decodes(x))
    BY <1>3, <2>1 DEF GroupsSane
  <2>5. QED
    BY <1>1, <1>3, <2>1, <2>3, <2>4 DEF GroupsSane, C, X
<1>5. OriginalsSane(n, F \cup n.ended) /\ OutSane(n, F) /\ Kept(n, F \cup n.ended)
  BY <1>1 DEF Sane, OriginalsSane, OutSane, Kept, SettledAll
<1>6. QED
  BY <1>1, <1>2, <1>3, <1>4, <1>5 DEF Sane, Gone, n

LEMMA GroupClosingSane ==
    ASSUME NEW F, NEW k, NEW N \in Nat, NEW n \in 1..N, NEW x \in SaneStates(k, F),
           Cardinality(Pending(x.groups)) = N - (n - 1)
    PROVE  LET y == GroupClosing(x)
           IN  y \in SaneStates(k, F) /\ Cardinality(Pending(y.groups)) = N - n
<1> DEFINE h == x.groups.head
           y == ReleaseGroup(x, h)
           P == Pending(x.groups)
<1>1. Sane(x, F) /\ x.closed = k.closed /\ x.out = k.out
  BY DEF SaneStates
<1>2. N - (n - 1) # 0
  OBVIOUS
<1>3. h \in P /\ IsFiniteSet(P)
  BY <1>1, <1>2, HeadOf
<1>4. Sane(y, F) /\ y.closed = x.closed /\ y.out = x.out /\ Gone(x, y, h)
  BY <1>1, <1>3, ReleaseStep
<1> HIDE DEF y
<1>5. y \in SaneStates(k, F)
  BY <1>1, <1>4, SaneParts DEF SaneStates
<1>6. Pending(y.groups) = P \ {h}
  BY <1>4 DEF Gone
<1> HIDE DEF P, h
<1>7. Cardinality(P \ {h}) = Cardinality(P) - 1
  BY <1>3, FS_RemoveElement
<1>8. Cardinality(Pending(y.groups)) = N - n
  BY <1>6, <1>7 DEF P
<1>9. QED
  BY <1>5, <1>8 DEF GroupClosing, y, h

LEMMA OriginalClosingSane ==
    ASSUME NEW F, NEW k, NEW N \in Nat, NEW n \in 1..N, NEW x \in SaneStates(k, F),
           Cardinality(Pending(x.originals)) = N - (n - 1)
    PROVE  LET y == OriginalClosing(x)
           IN  y \in SaneStates(k, F) /\ Cardinality(Pending(y.originals)) = N - n
<1> DEFINE h == x.originals.head
           y == ExpireOriginal(x, h)
           P == Pending(x.originals)
<1>1. Sane(x, F) /\ x.closed = k.closed /\ x.out = k.out
  BY DEF SaneStates
<1>2. N - (n - 1) # 0
  OBVIOUS
<1>3. h \in P /\ IsFiniteSet(P)
  BY <1>1, <1>2, HeadOf
<1>4. Touched(x, y, h, F) /\ Pending(y.originals) = P \ {h}
  BY <1>1, <1>3, ExpireStep
<1>10. y.out = x.out
  BY <1>1, <1>3, ExpireFields
<1> HIDE DEF y
<1>5. y \in SaneStates(k, F)
  BY <1>1, <1>4, <1>10, SaneParts DEF SaneStates, Touched
<1> HIDE DEF P, h
<1>7. Cardinality(P \ {h}) = Cardinality(P) - 1
  BY <1>3, FS_RemoveElement
<1>8. Cardinality(Pending(y.originals)) = N - n
  BY <1>4, <1>7 DEF P
<1>9. QED
  BY <1>5, <1>8 DEF OriginalClosing, y, h

LEMMA CloseGroupsRuns ==
    ASSUME NEW F, NEW k, Sane(k, F), NEW N, N = Cardinality(Pending(k.groups))
    PROVE  \E after : /\ after[0] = k /\ CloseGroups(k) = after[N]
                      /\ \A n \in 1..N : after[n] = GroupClosing(after[n - 1])
                      /\ \A n \in 0..N : after[n] \in SaneStates(k, F) /\ Cardinality(Pending(after[n].groups)) = N - n
<1> DEFINE first == k
           G == {p \in SaneStates(k, F) \X (0..N) : Cardinality(Pending(p[1].groups)) = N - p[2]}
           Step(x, n) == GroupClosing(x)
           step == [p \in G |-> Step(p[1], p[2] + 1)]
           Body(f) == [n \in 0..N |-> IF n = 0 THEN first ELSE Step(f[n - 1], n)]
           after == CHOOSE f : f = Body(f)
<1>1. N \in Nat
  BY HeadOf
<1>2. <<first, 0>> \in G
  <2>1. k \in SaneStates(k, F)
    BY SaneParts DEF SaneStates
  <2>2. Cardinality(Pending(k.groups)) = N - 0
    BY <1>1
  <2> DEFINE q == <<k, 0>>
  <2>3. q \in SaneStates(k, F) \X (0..N) /\ q[1] = k /\ q[2] = 0
    BY <1>1, <2>1
  <2> HIDE DEF q
  <2>4. q \in G
    BY <2>2, <2>3
  <2>5. QED
    BY <2>4 DEF q
<1>3. ASSUME NEW x \in SaneStates(k, F), NEW n \in 1..N, <<x, n - 1>> \in G PROVE <<Step(x, n), n>> \in G
  <2>1. Cardinality(Pending(x.groups)) = N - (n - 1)
    BY <1>3
  <2>2. Step(x, n) \in SaneStates(k, F) /\ Cardinality(Pending(Step(x, n).groups)) = N - n
    BY <1>1, <2>1, GroupClosingSane
  <2> HIDE DEF Step
  <2>3. QED
    BY <1>1, <2>2
<1>4. after = CHOOSE f : f = Body(f)
  OBVIOUS
<1> HIDE DEF first, Step
<1>5. \E f : f = Body(f)
  <2>1. ASSUME NEW x \in SaneStates(k, F), NEW n \in 0..N, <<x, n>> \in G, n # N
        PROVE  <<step[<<x, n>>], n + 1>> \in G
    <3>1. step[<<x, n>>] = Step(x, n + 1)
      BY <2>1
    <3> HIDE DEF G
    <3>2. n + 1 \in 1..N /\ (n + 1) - 1 = n
      BY <1>1, <2>1
    <3>3. <<Step(x, n + 1), n + 1>> \in G
      BY <1>3, <2>1, <3>2
    <3>4. QED
      BY <3>1, <3>3
  <2>2. Keeps(G, SaneStates(k, F), N, step)
    BY <2>1 DEF Keeps
  <2> HIDE DEF step, G
  <2>3. PICK f : Runs(f, N, first, step) /\ Inside(f, N, G)
    BY <1>1, <1>2, <2>2, LoopHolds
  <2>4. ASSUME NEW n \in 1..N PROVE f[n] = Step(f[n - 1], n)
    <3>1. n - 1 \in 0..N /\ (n - 1) + 1 = n
      BY <1>1
    <3>2. <<f[n - 1], n - 1>> \in G
      BY <2>3, <3>1 DEF Inside
    <3>3. step[<<f[n - 1], n - 1>>] = Step(f[n - 1], (n - 1) + 1)
      BY <3>2 DEF step
    <3>4. QED
      BY <2>3, <3>1, <3>3 DEF Runs
  <2>5. ASSUME NEW n \in 0..N PROVE f[n] = Body(f)[n]
    <3>1. CASE n = 0
      BY <2>3, <3>1 DEF Runs
    <3>2. CASE n # 0
      <4>1. n \in 1..N
        BY <1>1, <3>2
      <4>2. QED
        BY <2>4, <3>2, <4>1
    <3>3. QED
      BY <3>1, <3>2
  <2>6. f = [n \in 0..N |-> f[n]]
    BY <2>3 DEF Runs
  <2>7. QED
    BY <2>5, <2>6
<1>6. after = Body(after)
  BY <1>4, <1>5
<1> HIDE DEF after
<1>7. after[0] = first
  BY <1>1, <1>6
<1>8. \A n \in 1..N : after[n] = Step(after[n - 1], n)
  <2>1. SUFFICES ASSUME NEW n \in 1..N PROVE after[n] = Step(after[n - 1], n)
    OBVIOUS
  <2>2. n \in 0..N /\ n # 0
    BY <1>1
  <2>3. Body(after)[n] = Step(after[n - 1], n)
    BY <2>2
  <2>4. QED
    BY <1>6, <2>3
<1> DEFINE T == {n \in 0..N : <<after[n], n>> \in G}
<1>9. \A n \in 0..N : n \in T
  <2>1. 0 \in T
    BY <1>1, <1>2, <1>7
  <2>2. ASSUME NEW n \in 1..N, n - 1 \in T PROVE n \in T
    <3>1. <<after[n - 1], n - 1>> \in G
      BY <2>2
    <3>2. after[n - 1] \in SaneStates(k, F)
      BY <3>1
    <3> HIDE DEF G
    <3>3. <<after[n], n>> \in G
      BY <1>3, <1>8, <3>1, <3>2
    <3>4. QED
      BY <1>1, <3>3
  <2> HIDE DEF T
  <2>3. QED
    BY <1>1, <2>1, <2>2, Induction
<1>10. QED
  <2>1. CloseGroups(k) = after[N]
    BY DEF CloseGroups, GroupClosing, after, Step, Body, first
  <2>2. \A n \in 0..N : after[n] \in SaneStates(k, F) /\ Cardinality(Pending(after[n].groups)) = N - n
    BY <1>9
  <2> HIDE DEF G, T
  <2>3. QED
    BY <1>7, <1>8, <2>1, <2>2 DEF first, Step

LEMMA CloseOriginalsRuns ==
    ASSUME NEW F, NEW k, Sane(k, F), NEW N, N = Cardinality(Pending(k.originals))
    PROVE  \E after : /\ after[0] = k /\ CloseOriginals(k) = after[N]
                      /\ \A n \in 1..N : after[n] = OriginalClosing(after[n - 1])
                      /\ \A n \in 0..N : after[n] \in SaneStates(k, F) /\ Cardinality(Pending(after[n].originals)) = N - n
<1> DEFINE first == k
           G == {p \in SaneStates(k, F) \X (0..N) : Cardinality(Pending(p[1].originals)) = N - p[2]}
           Step(x, n) == OriginalClosing(x)
           step == [p \in G |-> Step(p[1], p[2] + 1)]
           Body(f) == [n \in 0..N |-> IF n = 0 THEN first ELSE Step(f[n - 1], n)]
           after == CHOOSE f : f = Body(f)
<1>1. N \in Nat
  BY HeadOf
<1>2. <<first, 0>> \in G
  <2>1. k \in SaneStates(k, F)
    BY SaneParts DEF SaneStates
  <2>2. Cardinality(Pending(k.originals)) = N - 0
    BY <1>1
  <2> DEFINE q == <<k, 0>>
  <2>3. q \in SaneStates(k, F) \X (0..N) /\ q[1] = k /\ q[2] = 0
    BY <1>1, <2>1
  <2> HIDE DEF q
  <2>4. q \in G
    BY <2>2, <2>3
  <2>5. QED
    BY <2>4 DEF q
<1>3. ASSUME NEW x \in SaneStates(k, F), NEW n \in 1..N, <<x, n - 1>> \in G PROVE <<Step(x, n), n>> \in G
  <2>1. Cardinality(Pending(x.originals)) = N - (n - 1)
    BY <1>3
  <2>2. Step(x, n) \in SaneStates(k, F) /\ Cardinality(Pending(Step(x, n).originals)) = N - n
    BY <1>1, <2>1, OriginalClosingSane
  <2> HIDE DEF Step
  <2>3. QED
    BY <1>1, <2>2
<1>4. after = CHOOSE f : f = Body(f)
  OBVIOUS
<1> HIDE DEF first, Step
<1>5. \E f : f = Body(f)
  <2>1. ASSUME NEW x \in SaneStates(k, F), NEW n \in 0..N, <<x, n>> \in G, n # N
        PROVE  <<step[<<x, n>>], n + 1>> \in G
    <3>1. step[<<x, n>>] = Step(x, n + 1)
      BY <2>1
    <3> HIDE DEF G
    <3>2. n + 1 \in 1..N /\ (n + 1) - 1 = n
      BY <1>1, <2>1
    <3>3. <<Step(x, n + 1), n + 1>> \in G
      BY <1>3, <2>1, <3>2
    <3>4. QED
      BY <3>1, <3>3
  <2>2. Keeps(G, SaneStates(k, F), N, step)
    BY <2>1 DEF Keeps
  <2> HIDE DEF step, G
  <2>3. PICK f : Runs(f, N, first, step) /\ Inside(f, N, G)
    BY <1>1, <1>2, <2>2, LoopHolds
  <2>4. ASSUME NEW n \in 1..N PROVE f[n] = Step(f[n - 1], n)
    <3>1. n - 1 \in 0..N /\ (n - 1) + 1 = n
      BY <1>1
    <3>2. <<f[n - 1], n - 1>> \in G
      BY <2>3, <3>1 DEF Inside
    <3>3. step[<<f[n - 1], n - 1>>] = Step(f[n - 1], (n - 1) + 1)
      BY <3>2 DEF step
    <3>4. QED
      BY <2>3, <3>1, <3>3 DEF Runs
  <2>5. ASSUME NEW n \in 0..N PROVE f[n] = Body(f)[n]
    <3>1. CASE n = 0
      BY <2>3, <3>1 DEF Runs
    <3>2. CASE n # 0
      <4>1. n \in 1..N
        BY <1>1, <3>2
      <4>2. QED
        BY <2>4, <3>2, <4>1
    <3>3. QED
      BY <3>1, <3>2
  <2>6. f = [n \in 0..N |-> f[n]]
    BY <2>3 DEF Runs
  <2>7. QED
    BY <2>5, <2>6
<1>6. after = Body(after)
  BY <1>4, <1>5
<1> HIDE DEF after
<1>7. after[0] = first
  BY <1>1, <1>6
<1>8. \A n \in 1..N : after[n] = Step(after[n - 1], n)
  <2>1. SUFFICES ASSUME NEW n \in 1..N PROVE after[n] = Step(after[n - 1], n)
    OBVIOUS
  <2>2. n \in 0..N /\ n # 0
    BY <1>1
  <2>3. Body(after)[n] = Step(after[n - 1], n)
    BY <2>2
  <2>4. QED
    BY <1>6, <2>3
<1> DEFINE T == {n \in 0..N : <<after[n], n>> \in G}
<1>9. \A n \in 0..N : n \in T
  <2>1. 0 \in T
    BY <1>1, <1>2, <1>7
  <2>2. ASSUME NEW n \in 1..N, n - 1 \in T PROVE n \in T
    <3>1. <<after[n - 1], n - 1>> \in G
      BY <2>2
    <3>2. after[n - 1] \in SaneStates(k, F)
      BY <3>1
    <3> HIDE DEF G
    <3>3. <<after[n], n>> \in G
      BY <1>3, <1>8, <3>1, <3>2
    <3>4. QED
      BY <1>1, <3>3
  <2> HIDE DEF T
  <2>3. QED
    BY <1>1, <2>1, <2>2, Induction
<1>10. QED
  <2>1. CloseOriginals(k) = after[N]
    BY DEF CloseOriginals, OriginalClosing, after, Step, Body, first
  <2>2. \A n \in 0..N : after[n] \in SaneStates(k, F) /\ Cardinality(Pending(after[n].originals)) = N - n
    BY <1>9
  <2> HIDE DEF G, T
  <2>3. QED
    BY <1>7, <1>8, <2>1, <2>2 DEF first, Step


----------------------------------------------------------------------------
(* The steps of the specification                                          *)

\* What was delivered is whole, unique, and of Datagrams that completed.
History(D, F) ==
    /\ D \in Seq(Deliveries) /\ F \in SUBSET Fates
    /\ \A i \in DOMAIN D : Whole(D[i]) /\ D[i].id \in Ids(F, "datagram", "completed")
    /\ \A i, j \in DOMAIN D : D[i].id = D[j].id => i = j
    /\ Ids(F, "datagram", "completed") \cap Ids(F, "datagram", "expired") = {}

\* FinalizeClose leaves new windows behind.
Forgotten(k) ==
    k.groupWindow = NewWindow(GroupSpan) /\ k.datagramWindow = NewWindow(DatagramSpan)

Holdings == [id : Nat, total : Nat]

\* The inductive invariant.
Inv ==
    /\ scenario \in Scenarios /\ rx \in Receivers /\ rx.out = <<>> /\ rx.ended = {}
    /\ Chained(rx.groups) /\ Chained(rx.originals)
    /\ held \in SUBSET Holdings
    /\ History(delivered, fates)
    /\ rx.closed => Forgotten(rx)
    /\ ~rx.closed => Sane(rx, fates)

LEMMA HistoryGrows ==
    ASSUME NEW D, NEW F, History(D, F), NEW k, Sane(k, F)
    PROVE  History(D \o k.out, F \cup k.ended)
<1> DEFINE s == k.out
           G == F \cup k.ended
           E == D \o s
<1>1. D \in Seq(Deliveries) /\ F \in SUBSET Fates /\ s \in Seq(Deliveries) /\ k.ended \in SUBSET Fates
  BY SaneParts DEF History
<1>2. E \in Seq(Deliveries) /\ G \in SUBSET Fates
  BY <1>1
<1>3. /\ Len(D) \in Nat /\ Len(s) \in Nat /\ DOMAIN D = 1..Len(D) /\ DOMAIN s = 1..Len(s)
      /\ DOMAIN E = 1..(Len(D) + Len(s))
      /\ \A i \in 1..Len(D) : E[i] = D[i]
      /\ \A i \in 1..(Len(D) + Len(s)) : i > Len(D) => E[i] = s[i - Len(D)]
  BY <1>1
<1>4. Ids(F, "datagram", "completed") \subseteq Ids(G, "datagram", "completed")
      /\ Ids(k.ended, "datagram", "completed") \subseteq Ids(G, "datagram", "completed")
      /\ Ids(F, "datagram", "completed") \subseteq Over(F)
  BY DEF Ids, Over
<1>5. Ids(G, "datagram", "completed") \cap Ids(G, "datagram", "expired") = {}
  BY DEF Sane, OriginalsSane, Remembers
<1>6. /\ \A i \in DOMAIN s : Whole(s[i]) /\ s[i].id \in Ids(k.ended, "datagram", "completed") /\ s[i].id \notin Over(F)
      /\ \A i, j \in DOMAIN s : s[i].id = s[j].id => i = j
  BY DEF Sane, OutSane
<1>7. /\ \A i \in DOMAIN D : Whole(D[i]) /\ D[i].id \in Ids(F, "datagram", "completed")
      /\ \A i, j \in DOMAIN D : D[i].id = D[j].id => i = j
  BY DEF History
<1> HIDE DEF s, G, E
<1>8. ASSUME NEW i \in DOMAIN E
      PROVE  \/ i \in DOMAIN D /\ E[i] = D[i]
             \/ i > Len(D) /\ i - Len(D) \in DOMAIN s /\ E[i] = s[i - Len(D)]
  BY <1>3
<1>9. ASSUME NEW i \in DOMAIN E PROVE Whole(E[i]) /\ E[i].id \in Ids(G, "datagram", "completed")
  BY <1>4, <1>6, <1>7, <1>8
<1>10. ASSUME NEW i \in DOMAIN E, NEW j \in DOMAIN E, E[i].id = E[j].id PROVE i = j
  <2>1. i \in Nat /\ j \in Nat /\ Len(D) \in Nat
    BY <1>3
  <2>2. CASE i \in DOMAIN D /\ E[i] = D[i] /\ j \in DOMAIN D /\ E[j] = D[j]
    BY <1>7, <1>10, <2>2
  <2>3. CASE i \in DOMAIN D /\ E[i] = D[i] /\ j - Len(D) \in DOMAIN s /\ E[j] = s[j - Len(D)]
    BY <1>4, <1>6, <1>7, <1>10, <2>3
  <2>4. CASE j \in DOMAIN D /\ E[j] = D[j] /\ i - Len(D) \in DOMAIN s /\ E[i] = s[i - Len(D)]
    BY <1>4, <1>6, <1>7, <1>10, <2>4
  <2>5. CASE i - Len(D) \in DOMAIN s /\ E[i] = s[i - Len(D)] /\ j - Len(D) \in DOMAIN s /\ E[j] = s[j - Len(D)]
    <3>1. i - Len(D) = j - Len(D)
      BY <1>6, <1>10, <2>5
    <3>2. QED
      BY <2>1, <3>1
  <2>6. QED
    BY <1>8, <2>2, <2>3, <2>4, <2>5
<1>11. QED
  BY <1>2, <1>5, <1>9, <1>10 DEF History, E, G, s

\* Between two calls nothing is on its way out.
LEMMA SaneReturned ==
    ASSUME NEW F, NEW k, Sane(k, F)
    PROVE  LET n == [k EXCEPT !.out = <<>>, !.ended = {}]
           IN  /\ n \in Receivers /\ n.out = <<>> /\ n.ended = {} /\ n.closed = k.closed
               /\ n.groups = k.groups /\ n.originals = k.originals /\ n.groupWindow = k.groupWindow
               /\ n.datagramWindow = k.datagramWindow /\ n.used = k.used /\ n.decodedGroups = k.decodedGroups
               /\ Sane(n, F \cup k.ended)
<1> DEFINE n == [k EXCEPT !.out = <<>>, !.ended = {}]
           G == F \cup k.ended
<1>1. k \in Receivers /\ scenario \in Scenarios
  BY SaneParts
<1>2. <<>> \in Seq(Deliveries)
  OBVIOUS
<1>3. /\ n \in Receivers /\ n.out = <<>> /\ n.ended = {} /\ n.closed = k.closed
      /\ n.groups = k.groups /\ n.originals = k.originals /\ n.groupWindow = k.groupWindow
      /\ n.datagramWindow = k.datagramWindow /\ n.used = k.used /\ n.decodedGroups = k.decodedGroups
  BY <1>1, <1>2 DEF Receivers
<1> HIDE DEF n
<1>4. G \cup n.ended = G
  BY <1>3
<1>5. GroupsSane(k, G) /\ OriginalsSane(k, G) /\ Kept(k, G)
  BY DEF Sane
<1> HIDE DEF G
<1>6. GroupsSane(n, G \cup n.ended) /\ OriginalsSane(n, G \cup n.ended) /\ Kept(n, G \cup n.ended)
  BY <1>3, <1>4, <1>5 DEF GroupsSane, OriginalsSane, Kept, SettledAll
<1>7. OutSane(n, G)
  BY <1>3 DEF OutSane
<1>8. Sane(n, G)
  BY <1>1, <1>3, <1>6, <1>7 DEF Sane
<1>9. QED
  BY <1>3, <1>8 DEF n, G

\* The scenario never changes.
LEMMA SaneNext ==
    ASSUME UNCHANGED scenario, NEW n, NEW G, Sane(n, G), rx' = n, fates' = G
    PROVE  Sane(rx, fates)'
<1>1. GroupIDs' = GroupIDs /\ (\A id : Sent(id)' = Sent(id)) /\ (\A id : Decodes(id)' <=> Decodes(id))
  BY DEF GroupIDs, Sent, Decodes
<1>2. GroupsSane(rx, fates \cup rx.ended)'
  BY <1>1 DEF Sane, GroupsSane
<1>3. OriginalsSane(rx, fates \cup rx.ended)' /\ OutSane(rx, fates)'
  BY DEF Sane, OriginalsSane, OutSane
<1>4. Kept(rx, fates \cup rx.ended)'
  BY <1>1 DEF Sane, Kept, SettledAll
<1>5. QED
  BY <1>2, <1>3, <1>4 DEF Sane

LEMMA ReturnKeeps ==
    ASSUME Inv, NEW k, Sane(k, fates), ~k.closed, Return(k)
    PROVE  Inv'
<1> DEFINE n == [k EXCEPT !.out = <<>>, !.ended = {}]
<1>1. /\ n \in Receivers /\ n.out = <<>> /\ n.ended = {} /\ n.closed = k.closed
      /\ n.groups = k.groups /\ n.originals = k.originals
      /\ Sane(n, fates \cup k.ended)
  BY SaneReturned
<1>2. rx' = n /\ fates' = fates \cup k.ended /\ delivered' = delivered \o k.out /\ UNCHANGED scenario
      /\ held' = held \cup {[id |-> d.id, total |-> d.total] : d \in Range(k.out)}
  BY DEF Return
<1> HIDE DEF n
<1>3. History(delivered', fates')
  BY <1>2, HistoryGrows DEF Inv
<1>4. held' \in SUBSET Holdings
  <2>1. \A d \in Range(k.out) : d \in Deliveries
    BY SaneParts DEF Range
  <2>2. QED
    BY <1>2, <2>1 DEF Inv, Holdings, Deliveries
<1>5. Sane(rx, fates)'
  BY <1>1, <1>2, SaneNext
<1>6. Chained(k.groups) /\ Chained(k.originals)
  BY SaneParts
<1>7. QED
  BY <1>1, <1>2, <1>3, <1>4, <1>5, <1>6 DEF Inv

LEMMA SpanType == GroupSpan \in Nat \ {0} /\ DatagramSpan \in Nat \ {0} /\ GroupTimeout \in Nat /\ DatagramTimeout \in Nat
BY LimitsAssumption

LEMMA InvInit ==
    ASSUME Init
    PROVE  Inv
<1> DEFINE n == [groups |-> Empty, groupWindow |-> NewWindow(GroupSpan), decodedGroups |-> 0,
                 originals |-> Empty, datagramWindow |-> NewWindow(DatagramSpan),
                 used |-> 0, retryWait |-> FALSE, closed |-> FALSE, out |-> <<>>, ended |-> {}]
<1>1. /\ Empty \in Lists(GroupEntries) /\ Empty \in Lists(OriginalEntries)
      /\ Pending(Empty) = {} /\ Chained(Empty)
  BY EmptyFacts
<1>2. WindowOK(NewWindow(GroupSpan)) /\ WindowOK(NewWindow(DatagramSpan))
  BY SpanType, NewWindowFacts
<1>3. NewWindow(GroupSpan) \in Windows /\ NewWindow(DatagramSpan) \in Windows
  BY <1>2 DEF WindowOK
<1>4. n \in Receivers
  <2>1. <<>> \in Seq(Deliveries) /\ {} \in SUBSET Fates
    OBVIOUS
  <2>2. QED
    BY <1>1, <1>3, <2>1 DEF Receivers
<1>5. /\ n.groups = Empty /\ n.originals = Empty /\ n.groupWindow = NewWindow(GroupSpan)
      /\ n.datagramWindow = NewWindow(DatagramSpan) /\ n.out = <<>> /\ n.ended = {} /\ n.closed = FALSE
  OBVIOUS
<1>6. rx = n /\ scenario \in Scenarios /\ held = {} /\ delivered = <<>> /\ fates = {}
  BY DEF Init
<1> HIDE DEF n
<1>7. \A kind, t : Ids({}, kind, t) = {}
  BY DEF Ids
<1>8. {} \cup n.ended = {} /\ DOMAIN n.out = {}
  BY <1>5
<1>9. GroupsSane(n, {})
  BY <1>1, <1>2, <1>5, <1>7, SpanType, RememberNew DEF GroupsSane
<1>10. OriginalsSane(n, {})
  BY <1>1, <1>2, <1>5, <1>7, SpanType, RememberNew DEF OriginalsSane
<1>11. OutSane(n, {}) /\ Kept(n, {})
  BY <1>7, <1>8 DEF OutSane, Kept
<1>12. Sane(n, {})
  BY <1>4, <1>6, <1>8, <1>9, <1>10, <1>11 DEF Sane
<1>13. History(<<>>, {})
  <2>1. <<>> \in Seq(Deliveries) /\ DOMAIN <<>> = {} /\ {} \in SUBSET Fates
    OBVIOUS
  <2>2. QED
    BY <1>7, <2>1 DEF History
<1>14. QED
  BY <1>1, <1>4, <1>5, <1>6, <1>12, <1>13 DEF Inv

\* Time passes on the receive side.
TickedOn(k) ==
    [k EXCEPT !.groups = Older(k.groups, GroupTimeout), !.originals = Older(k.originals, DatagramTimeout),
              !.retryWait = FALSE]

LEMMA TickFields ==
    ASSUME NEW k \in Receivers, Chained(k.groups), Chained(k.originals)
    PROVE  LET n == TickedOn(k)
           IN  /\ n \in Receivers /\ Chained(n.groups) /\ Chained(n.originals)
               /\ n.groupWindow = k.groupWindow /\ n.datagramWindow = k.datagramWindow
               /\ n.out = k.out /\ n.ended = k.ended /\ n.closed = k.closed /\ n.used = k.used
               /\ n.decodedGroups = k.decodedGroups
               /\ Pending(n.groups) = Pending(k.groups) /\ Pending(n.originals) = Pending(k.originals)
               /\ \A x \in Pending(k.groups) : /\ n.groups.map[x].decoded = k.groups.map[x].decoded
                                               /\ n.groups.map[x].lease = k.groups.map[x].lease
               /\ \A x \in Pending(k.originals) : /\ n.originals.map[x].total = k.originals.map[x].total
                                                  /\ n.originals.map[x].ranges = k.originals.map[x].ranges
                                                  /\ n.originals.map[x].received = k.originals.map[x].received
<1> DEFINE g == Older(k.groups, GroupTimeout)
           o == Older(k.originals, DatagramTimeout)
           n == TickedOn(k)
<1>1. k.groups \in Lists(GroupEntries) /\ k.originals \in Lists(OriginalEntries)
  BY ReceiverTypes
<1>2. /\ g \in Lists(GroupEntries) /\ Chained(g) /\ Pending(g) = Pending(k.groups)
      /\ Later(k.groups, g)
  BY <1>1, SpanType, EntryTypes, OlderFacts
<1>3. /\ o \in Lists(OriginalEntries) /\ Chained(o) /\ Pending(o) = Pending(k.originals)
      /\ Later(k.originals, o)
  BY <1>1, SpanType, EntryTypes, OlderFacts
<1>4. n = [k EXCEPT !.groups = g, !.originals = o, !.retryWait = FALSE]
  BY DEF TickedOn
<1> HIDE DEF g, o, n
<1>5. /\ n \in Receivers /\ n.groups = g /\ n.originals = o
      /\ n.groupWindow = k.groupWindow /\ n.datagramWindow = k.datagramWindow
      /\ n.out = k.out /\ n.ended = k.ended /\ n.closed = k.closed /\ n.used = k.used
      /\ n.decodedGroups = k.decodedGroups
  BY <1>2, <1>3, <1>4 DEF Receivers
<1>6. ASSUME NEW x \in Pending(k.groups)
      PROVE  g.map[x].decoded = k.groups.map[x].decoded /\ g.map[x].lease = k.groups.map[x].lease
  <2>1. k.groups.map[x] \in GroupEntries
    BY <1>1, ListFacts
  <2>2. PICK a \in Nat : g.map[x] = [k.groups.map[x] EXCEPT !.age = a]
    BY <1>2 DEF Later
  <2>3. QED
    BY <2>1, <2>2, EntryTypes
<1>7. ASSUME NEW x \in Pending(k.originals)
      PROVE  /\ o.map[x].total = k.originals.map[x].total /\ o.map[x].ranges = k.originals.map[x].ranges
             /\ o.map[x].received = k.originals.map[x].received
  <2>1. k.originals.map[x] \in OriginalEntries
    BY <1>1, ListFacts
  <2>2. PICK a \in Nat : o.map[x] = [k.originals.map[x] EXCEPT !.age = a]
    BY <1>3 DEF Later
  <2>3. QED
    BY <2>1, <2>2, EntryTypes
<1>8. QED
  BY <1>2, <1>3, <1>5, <1>6, <1>7 DEF n

LEMMA TickSane ==
    ASSUME NEW F, NEW k, Sane(k, F)
    PROVE  Sane(TickedOn(k), F)
<1> DEFINE n == TickedOn(k)
<1>1. k \in Receivers /\ scenario \in Scenarios /\ Chained(k.groups) /\ Chained(k.originals)
  BY SaneParts
<1>2. /\ n \in Receivers /\ Chained(n.groups) /\ Chained(n.originals)
      /\ n.groupWindow = k.groupWindow /\ n.datagramWindow = k.datagramWindow
      /\ n.out = k.out /\ n.ended = k.ended
      /\ Pending(n.groups) = Pending(k.groups) /\ Pending(n.originals) = Pending(k.originals)
      /\ \A x \in Pending(k.groups) : n.groups.map[x].decoded = k.groups.map[x].decoded
      /\ \A x \in Pending(k.originals) : /\ n.originals.map[x].total = k.originals.map[x].total
                                         /\ n.originals.map[x].ranges = k.originals.map[x].ranges
                                         /\ n.originals.map[x].received = k.originals.map[x].received
  BY <1>1, TickFields
<1> HIDE DEF n
<1>3. GroupsSane(n, F \cup n.ended)
  BY <1>2 DEF Sane, GroupsSane
<1>4. \A x \in Pending(k.originals) : Assembled(k.originals.map[x]) => Assembled(n.originals.map[x])
  BY <1>2 DEF Assembled, Covered
<1>5. OriginalsSane(n, F \cup n.ended)
  BY <1>2, <1>4 DEF Sane, OriginalsSane
<1>6. OutSane(n, F)
  BY <1>2 DEF Sane, OutSane
<1>7. \A f : Settled(k.datagramWindow, k.originals, Over(F \cup k.ended), f)
               => Settled(n.datagramWindow, n.originals, Over(F \cup n.ended), f)
  BY <1>2 DEF Settled
<1>8. Kept(n, F \cup n.ended)
  BY <1>2, <1>7 DEF Sane, Kept, SettledAll
<1>9. QED
  BY <1>1, <1>2, <1>3, <1>5, <1>6, <1>8 DEF Sane, n

LEMMA InvTick ==
    ASSUME Inv, Tick
    PROVE  Inv'
<1>0. PICK k : k = rx
  OBVIOUS
<1> DEFINE n == TickedOn(k)
<1>1. rx' = n /\ UNCHANGED <<scenario, held, delivered, fates>>
  BY <1>0 DEF Tick, TickedOn
<1>2. k \in Receivers /\ Chained(k.groups) /\ Chained(k.originals)
  BY <1>0 DEF Inv
<1>3. /\ n \in Receivers /\ Chained(n.groups) /\ Chained(n.originals)
      /\ n.groupWindow = k.groupWindow /\ n.datagramWindow = k.datagramWindow
      /\ n.out = k.out /\ n.ended = k.ended /\ n.closed = k.closed
  BY <1>2, TickFields
<1>4. ~k.closed => Sane(n, fates)
  BY <1>0, TickSane DEF Inv
<1> HIDE DEF n
<1>5. ~n.closed => Sane(rx, fates)'
  BY <1>1, <1>3, <1>4, SaneNext
<1>6. n.closed => Forgotten(n)
  BY <1>0, <1>3 DEF Inv, Forgotten
<1>7. QED
  BY <1>0, <1>1, <1>3, <1>5, <1>6 DEF Inv

LEMMA InvRelease ==
    ASSUME Inv, NEW d \in held, Release(d)
    PROVE  Inv'
<1>0. PICK k : k = rx
  OBVIOUS
<1> DEFINE u == k.used - d.total
           n == [k EXCEPT !.used = u]
<1>1. rx' = n /\ held' = held \ {d} /\ UNCHANGED <<scenario, delivered, fates>>
  BY <1>0 DEF Release
<1>2. k \in Receivers /\ Chained(k.groups) /\ Chained(k.originals)
  BY <1>0 DEF Inv
<1>3. u \in Int
  <2>1. k.used \in Int
    BY <1>2, ReceiverTypes
  <2>2. d.total \in Nat
    BY DEF Inv, Holdings
  <2>3. QED
    BY <2>1, <2>2
<1> HIDE DEF u
<1>4. /\ n \in Receivers /\ n.groups = k.groups /\ n.originals = k.originals
      /\ n.groupWindow = k.groupWindow /\ n.datagramWindow = k.datagramWindow
      /\ n.out = k.out /\ n.ended = k.ended /\ n.closed = k.closed
  BY <1>2, <1>3 DEF Receivers
<1> HIDE DEF n
<1>5. ~k.closed => Sane(n, fates)
  BY <1>0, <1>4, SameSane DEF Inv
<1>6. ~n.closed => Sane(rx, fates)'
  BY <1>1, <1>4, <1>5, SaneNext
<1>7. n.closed => Forgotten(n)
  BY <1>0, <1>4 DEF Inv, Forgotten
<1>8. held' \in SUBSET Holdings
  BY <1>1 DEF Inv
<1>9. QED
  BY <1>0, <1>1, <1>2, <1>4, <1>6, <1>7, <1>8 DEF Inv

LEMMA InvReceive ==
    ASSUME Inv, NEW bundle \in Bundles, NEW restricted \in BOOLEAN, ReceiveBundle(bundle, restricted)
    PROVE  Inv'
<1>0. PICK k : k = rx
  OBVIOUS
<1> DEFINE y == RecordSteps(k, bundle, restricted)[Len(bundle)].k
<1>1. ~k.closed /\ Sane(k, fates) /\ Return(y)
  BY <1>0 DEF ReceiveBundle, Inv
<1>2. bundle \in Seq(Records)
  <2>1. PICK n \in 1..scenario.records : bundle \in [1..n -> Records]
    BY DEF Bundles
  <2>2. scenario.records \in Nat
    BY ScenariosAssumption DEF Inv
  <2>3. n \in Nat
    BY <2>2
  <2>4. bundle \in UNION {[1..m -> Records] : m \in Nat}
    BY <2>1, <2>3, Zenon
  <2>5. QED
    BY <2>4, SeqDef, Zenon
<1>3. Len(bundle) \in 0..Len(bundle)
  BY <1>2
<1>4. RecordSteps(k, bundle, restricted)[Len(bundle)] \in SaneResults(k, fates)
  BY <1>1, <1>2, <1>3, RecordRuns
<1>5. Sane(y, fates) /\ ~y.closed
  BY <1>1, <1>4 DEF SaneResults
<1> HIDE DEF y
<1>6. QED
  BY <1>1, <1>5, ReturnKeeps

\* The whole of expireGroups and of Receiver.Expire.
LEMMA ExpireSane ==
    ASSUME NEW F, NEW k, Sane(k, F)
    PROVE  /\ ExpireGroups(k) \in SaneStates(k, F) /\ ExpireOriginals(k) \in SaneStates(k, F)
           /\ CloseGroups(k) \in SaneStates(k, F) /\ CloseOriginals(k) \in SaneStates(k, F)
<1> DEFINE g == Cardinality(Pending(k.groups))
           o == Cardinality(Pending(k.originals))
<1>1. g \in Nat /\ o \in Nat
  BY HeadOf
<1>2. g \in 0..g /\ o \in 0..o
  BY <1>1
<1>3. ExpireGroups(k) \in SaneStates(k, F)
  <2>1. PICK after : ExpireGroups(k) = after[g] /\ \A n \in 0..g : after[n] \in SaneStates(k, F)
    BY ExpireGroupsRuns
  <2>2. QED
    BY <1>2, <2>1
<1>4. ExpireOriginals(k) \in SaneStates(k, F)
  <2>1. PICK after : ExpireOriginals(k) = after[o] /\ \A n \in 0..o : after[n] \in SaneStates(k, F)
    BY ExpireOriginalsRuns
  <2>2. QED
    BY <1>2, <2>1
<1>5. CloseGroups(k) \in SaneStates(k, F)
  <2>1. PICK after : CloseGroups(k) = after[g] /\ \A n \in 0..g : after[n] \in SaneStates(k, F)
    BY CloseGroupsRuns
  <2>2. QED
    BY <1>2, <2>1
<1>6. CloseOriginals(k) \in SaneStates(k, F)
  <2>1. PICK after : CloseOriginals(k) = after[o] /\ \A n \in 0..o : after[n] \in SaneStates(k, F)
    BY CloseOriginalsRuns
  <2>2. QED
    BY <1>2, <2>1
<1>7. QED
  BY <1>3, <1>4, <1>5, <1>6

LEMMA RetrySane ==
    ASSUME NEW F, NEW k, Sane(k, F), NEW order \in RetryOrders(k)
    PROVE  Sane(RetryGroups(k, order), F) /\ RetryGroups(k, order).closed = k.closed
<1>1. GoodOrder(k, order)
  BY OrdersGood
<1>2. Len(order) \in 0..Len(order)
  BY <1>1 DEF GoodOrder
<1>3. RetrySteps(k, order)[Len(order)] \in SaneResults(k, F)
  BY <1>1, <1>2, RetryRuns
<1>4. QED
  BY <1>3 DEF RetryGroups, SaneResults

LEMMA InvAdvance ==
    ASSUME Inv, Advance
    PROVE  Inv'
<1>0. PICK k : k = rx
  OBVIOUS
<1> DEFINE g == ExpireGroups(k)
           o == ExpireOriginals(g)
<1>1. ~k.closed /\ Sane(k, fates)
  BY <1>0 DEF Advance, Inv
<1>2. PICK order \in RetryOrders(o) : Return(RetryGroups(o, order))
  BY <1>0 DEF Advance
<1>3. Sane(g, fates) /\ ~g.closed
  BY <1>1, ExpireSane DEF SaneStates
<1> HIDE DEF g
<1>4. Sane(o, fates) /\ ~o.closed
  BY <1>3, ExpireSane DEF SaneStates
<1> HIDE DEF o
<1>5. Sane(RetryGroups(o, order), fates) /\ ~RetryGroups(o, order).closed
  BY <1>4, RetrySane
<1>6. QED
  BY <1>2, <1>5, ReturnKeeps

LEMMA InvClose ==
    ASSUME Inv, Close
    PROVE  Inv'
<1>0. PICK r : r = rx
  OBVIOUS
<1> DEFINE o == CloseOriginals(r)
           k == CloseGroups(o)
           n == [k EXCEPT !.closed = TRUE, !.ended = {}, !.groupWindow = NewWindow(GroupSpan),
                          !.datagramWindow = NewWindow(DatagramSpan)]
<1>1. ~r.closed /\ Sane(r, fates) /\ r.out = <<>>
  BY <1>0 DEF Close, Inv
<1>2. rx' = n /\ fates' = fates \cup k.ended /\ UNCHANGED <<scenario, held, delivered>>
  BY <1>0 DEF Close
<1>3. Sane(o, fates) /\ o.out = <<>>
  BY <1>1, ExpireSane DEF SaneStates
<1> HIDE DEF o
<1>4. Sane(k, fates) /\ k.out = <<>>
  BY <1>3, ExpireSane DEF SaneStates
<1> HIDE DEF k
<1>5. k \in Receivers /\ Chained(k.groups) /\ Chained(k.originals)
  BY <1>4, SaneParts
<1>6. NewWindow(GroupSpan) \in Windows /\ NewWindow(DatagramSpan) \in Windows
  BY SpanType, NewWindowFacts DEF WindowOK
<1>7. /\ n \in Receivers /\ n.out = <<>> /\ n.ended = {} /\ n.closed = TRUE
      /\ n.groups = k.groups /\ n.originals = k.originals /\ Forgotten(n)
  <2> DEFINE a == NewWindow(GroupSpan)
             b == NewWindow(DatagramSpan)
  <2>1. a \in Windows /\ b \in Windows
    BY <1>6
  <2> HIDE DEF a, b
  <2>2. n = [k EXCEPT !.closed = TRUE, !.ended = {}, !.groupWindow = a, !.datagramWindow = b]
    BY DEF a, b
  <2> HIDE DEF n
  <2>3. /\ n \in Receivers /\ n.out = <<>> /\ n.ended = {} /\ n.closed = TRUE
        /\ n.groups = k.groups /\ n.originals = k.originals /\ n.groupWindow = a /\ n.datagramWindow = b
    BY <1>4, <1>5, <2>1, <2>2 DEF Receivers
  <2>4. QED
    BY <2>3 DEF Forgotten, a, b
<1> HIDE DEF n
<1>8. History(delivered, fates \cup k.ended)
  <2>1. History(delivered, fates) /\ delivered \in Seq(Deliveries)
    BY DEF Inv, History
  <2>2. History(delivered \o k.out, fates \cup k.ended)
    BY <1>4, <2>1, HistoryGrows
  <2>3. delivered \o k.out = delivered
    BY <1>4, <2>1
  <2>4. QED
    BY <2>2, <2>3
<1>9. QED
  BY <1>2, <1>5, <1>7, <1>8 DEF Inv

LEMMA InvSame ==
    ASSUME Inv, UNCHANGED vars
    PROVE  Inv'
<1>0. PICK k : k = rx
  OBVIOUS
<1>1. rx' = k /\ fates' = fates /\ UNCHANGED <<scenario, held, delivered>>
  BY <1>0 DEF vars
<1>2. ~k.closed => Sane(k, fates)
  BY <1>0 DEF Inv
<1>3. ~k.closed => Sane(rx, fates)'
  BY <1>1, <1>2, SaneNext
<1>4. QED
  BY <1>0, <1>1, <1>3 DEF Inv

LEMMA InvNext ==
    ASSUME Inv, [Next]_vars
    PROVE  Inv'
<1>1. CASE UNCHANGED vars
  BY <1>1, InvSame
<1>2. CASE \E bundle \in Bundles, restricted \in BOOLEAN : ReceiveBundle(bundle, restricted)
  BY <1>2, InvReceive
<1>3. CASE Advance
  BY <1>3, InvAdvance
<1>4. CASE \E d \in held : Release(d)
  BY <1>4, InvRelease
<1>5. CASE Close
  BY <1>5, InvClose
<1>6. CASE Tick
  BY <1>6, InvTick
<1>7. QED
  BY <1>1, <1>2, <1>3, <1>4, <1>5, <1>6 DEF Next

\* In every reachable state, for any scenario of groups, any receive windows,
\* limits and timeouts: both lists thread their entries in the order of their
\* admission, both rings remember what happened to the IDs inside them, every
\* Datagram being reassembled counts exactly the bytes of its disjoint ranges,
\* and the fragments of every completed group are accounted for.
THEOREM ReceiveInvariant == Spec => []Inv
<1>1. Init => Inv
  BY InvInit
<1>2. Inv /\ [Next]_vars => Inv'
  BY InvNext
<1>3. QED
  BY <1>1, <1>2, PTL DEF Spec

\* What a ring remembers, for the IDs up to the highest it admitted.
LEMMA RingTells ==
    ASSUME NEW w, w.highest \in Nat, NEW P, NEW F, NEW kind,
           Remembers(w, P, Ids(F, kind, "completed"), Ids(F, kind, "expired"))
    PROVE  \A id \in 1..w.highest :
              /\ State(w, id) \in {"completed", "expired"} => <<kind, id, State(w, id)>> \in F
              /\ <<kind, id, "completed">> \in F \/ <<kind, id, "expired">> \in F =>
                    State(w, id) # "unseen" /\ id \notin P
<1>1. SUFFICES ASSUME NEW id \in 1..w.highest
               PROVE  /\ State(w, id) \in {"completed", "expired"} => <<kind, id, State(w, id)>> \in F
                      /\ <<kind, id, "completed">> \in F \/ <<kind, id, "expired">> \in F =>
                            State(w, id) # "unseen" /\ id \notin P
  OBVIOUS
<1>2. id \in IDs /\ id \in Nat
  BY DEF IDs
<1>3. /\ State(w, id) = "completed" => id \in Ids(F, kind, "completed")
      /\ State(w, id) = "expired" => id \in Ids(F, kind, "expired")
      /\ id \in Ids(F, kind, "completed") \cup Ids(F, kind, "expired") => State(w, id) # "unseen" /\ id \notin P
  BY <1>2 DEF Remembers
<1>4. QED
  BY <1>2, <1>3 DEF Ids

LEMMA InvDelivered ==
    ASSUME Inv
    PROVE  DeliveredOnce
<1>1. /\ \A i, j \in DOMAIN delivered : delivered[i].id = delivered[j].id => i = j
      /\ \A i \in DOMAIN delivered : /\ Whole(delivered[i]) /\ delivered[i] \in Deliveries
                                     /\ delivered[i].id \in Ids(fates, "datagram", "completed")
      /\ Ids(fates, "datagram", "completed") \cap Ids(fates, "datagram", "expired") = {}
  BY DEF Inv, History
<1>2. ASSUME NEW i \in DOMAIN delivered
      PROVE  /\ <<"datagram", delivered[i].id, "expired">> \notin fates
             /\ \A b \in 0..(delivered[i].total - 1) :
                   Cardinality({r \in delivered[i].ranges : r.from <= b /\ b < r.to}) = 1
  <2>1. delivered[i].id \in Nat /\ delivered[i].id \notin Ids(fates, "datagram", "expired")
    BY <1>1 DEF Ids
  <2>2. <<"datagram", delivered[i].id, "expired">> \notin fates
    BY <2>1 DEF Ids
  <2>3. Whole(delivered[i])
    BY <1>1
  <2>4. QED
    BY <2>2, <2>3 DEF Whole
<1>3. ASSUME NEW kind \in {"group", "datagram"}
      PROVE  LET w == IF kind = "group" THEN rx.groupWindow ELSE rx.datagramWindow
                 pending == Pending(IF kind = "group" THEN rx.groups ELSE rx.originals)
             IN  \A id \in 1..w.highest :
                    /\ State(w, id) \in {"completed", "expired"} => <<kind, id, State(w, id)>> \in fates
                    /\ <<kind, id, "completed">> \in fates \/ <<kind, id, "expired">> \in fates =>
                          State(w, id) # "unseen" /\ id \notin pending
  <2> DEFINE w == IF kind = "group" THEN rx.groupWindow ELSE rx.datagramWindow
             pending == Pending(IF kind = "group" THEN rx.groups ELSE rx.originals)
  <2>1. CASE rx.closed
    <3>1. w.highest = 0
      BY <2>1, SpanType, NewWindowFacts DEF Inv, Forgotten
    <3>2. 1..w.highest = {}
      BY <3>1
    <3> HIDE DEF w, pending
    <3>3. \A id \in 1..w.highest : FALSE
      BY <3>2
    <3>4. QED
      BY <3>3 DEF w, pending
  <2>2. CASE ~rx.closed
    <3>1. Sane(rx, fates) /\ rx.ended = {}
      BY <2>2 DEF Inv
    <3>2. fates \cup rx.ended = fates
      BY <3>1
    <3>3. /\ Remembers(rx.groupWindow, Pending(rx.groups), Ids(fates, "group", "completed"), Ids(fates, "group", "expired"))
          /\ Remembers(rx.datagramWindow, Pending(rx.originals), Ids(fates, "datagram", "completed"),
                       Ids(fates, "datagram", "expired"))
      BY <3>1, <3>2 DEF Sane, GroupsSane, OriginalsSane
    <3>4. rx.groupWindow.highest \in Nat /\ rx.datagramWindow.highest \in Nat
      BY <3>1, SaneParts, WindowTypes
    <3>5. CASE kind = "group"
      <4>1. w = rx.groupWindow /\ pending = Pending(rx.groups)
        BY <3>5
      <4> HIDE DEF w, pending
      <4>2. Remembers(w, pending, Ids(fates, kind, "completed"), Ids(fates, kind, "expired")) /\ w.highest \in Nat
        BY <3>3, <3>4, <3>5, <4>1
      <4>3. QED
        BY <4>2, RingTells DEF w, pending
    <3>6. CASE kind = "datagram"
      <4>1. w = rx.datagramWindow /\ pending = Pending(rx.originals)
        BY <3>6
      <4> HIDE DEF w, pending
      <4>2. Remembers(w, pending, Ids(fates, kind, "completed"), Ids(fates, kind, "expired")) /\ w.highest \in Nat
        BY <3>3, <3>4, <3>6, <4>1
      <4>3. QED
        BY <4>2, RingTells DEF w, pending
    <3>7. QED
      BY <3>5, <3>6
  <2>3. QED
    BY <2>1, <2>2
<1>4. QED
  BY <1>1, <1>2, <1>3 DEF DeliveredOnce

LEMMA InvNoneLost ==
    ASSUME Inv
    PROVE  NoFragmentLost
<1>1. CASE rx.closed
  BY <1>1 DEF NoFragmentLost
<1>2. CASE ~rx.closed
  <2>1. SUFFICES ASSUME NEW id \in GroupIDs, <<"group", id, "completed">> \in fates, NEW f \in Range(Sent(id))
                 PROVE  \/ <<"datagram", f.id, "completed">> \in fates
                        \/ <<"datagram", f.id, "expired">> \in fates
                        \/ State(rx.datagramWindow, f.id) = "retired" /\ f.id \notin Pending(rx.originals)
                        \/ /\ f.id \in Pending(rx.originals)
                           /\ \E r \in rx.originals.map[f.id].ranges : r.from = f.from /\ r.to = f.to
    BY DEF NoFragmentLost
  <2>2. Sane(rx, fates) /\ rx.ended = {} /\ scenario \in Scenarios
    BY <1>2 DEF Inv
  <2>3. fates \cup rx.ended = fates
    BY <2>2
  <2>4. id \in Nat
    BY <2>2, SentFacts DEF IDs
  <2>5. SettledAll(rx, fates, id)
    <3>1. Kept(rx, fates)
      BY <2>2, <2>3 DEF Sane
    <3>2. id \in Ids(fates, "group", "completed")
      BY <2>1, <2>4 DEF Ids
    <3>3. QED
      BY <3>1, <3>2 DEF Kept
  <2>6. PICK i \in DOMAIN Sent(id) : f = Sent(id)[i]
    BY <2>1 DEF Range
  <2>7. Settled(rx.datagramWindow, rx.originals, Over(fates), f)
    BY <2>5, <2>6 DEF SettledAll
  <2>8. f.id \in Over(fates) => <<"datagram", f.id, "completed">> \in fates \/ <<"datagram", f.id, "expired">> \in fates
    BY DEF Over, Ids
  <2>9. QED
    BY <2>7, <2>8 DEF Settled
<1>3. QED
  BY <1>1, <1>2

\* No Datagram is delivered twice, after it expired, or with a byte missing or
\* from two fragments, and both rings of recvwindow remember the very IDs that
\* are over: whatever shards arrive, in which order, how often, and whatever
\* resources run out.
THEOREM DatagramsDeliveredOnce == Spec => []DeliveredOnce
<1>1. Inv => DeliveredOnce
  BY InvDelivered
<1>2. QED
  BY <1>1, ReceiveInvariant, PTL

\* No fragment of a group that was completed is lost, through every admission
\* that failed, every retry and every move of the window.
THEOREM FragmentsNeverLost == Spec => []NoFragmentLost
<1>1. Inv => NoFragmentLost
  BY InvNoneLost
<1>2. QED
  BY <1>1, ReceiveInvariant, PTL

----------------------------------------------------------------------------
(* Sums of natural numbers over a finite set                               *)

\* One point for every unit that w gives to an element of S: a sum as the size of a set.
Units(w, S) == UNION {{x} \X (1..w[x]) : x \in S}

LEMMA UnitsOfOne ==
    ASSUME NEW x, NEW n \in Nat
    PROVE  IsFiniteSet({x} \X (1..n)) /\ Cardinality({x} \X (1..n)) = n
<1>1. IsFiniteSet({x}) /\ Cardinality({x}) = 1
  BY FS_Singleton
<1>2. IsFiniteSet(1..n) /\ Cardinality(1..n) = n
  BY FS_Interval
<1>3. IsFiniteSet({x} \X (1..n)) /\ Cardinality({x} \X (1..n)) = Cardinality({x}) * Cardinality(1..n)
  BY <1>1, <1>2, FS_Product
<1>4. QED
  BY <1>1, <1>2, <1>3

LEMMA UnitsFinite ==
    ASSUME NEW w, NEW S, IsFiniteSet(S), \A x \in S : w[x] \in Nat
    PROVE  IsFiniteSet(Units(w, S)) /\ Cardinality(Units(w, S)) \in Nat
<1> DEFINE F == [x \in S |-> {x} \X (1..w[x])]
           C == {F[x] : x \in S}
<1>1. F \in [S -> C] /\ F \in Surjection(S, C)
  BY DEF Surjection
<1>2. IsFiniteSet(C)
  BY <1>1, FS_Surjection
<1>3. ASSUME NEW T \in C PROVE IsFiniteSet(T)
  <2>1. PICK x \in S : T = {x} \X (1..w[x])
    OBVIOUS
  <2>2. QED
    BY <2>1, UnitsOfOne
<1> HIDE DEF C
<1>4. IsFiniteSet(UNION C)
  BY <1>2, <1>3, FS_UNION
<1>5. UNION C = Units(w, S)
  BY DEF C, Units
<1>6. QED
  BY <1>4, <1>5, FS_CardinalityType

LEMMA UnitsAdd ==
    ASSUME NEW w, NEW S, IsFiniteSet(S), NEW x, x \notin S, \A y \in S \cup {x} : w[y] \in Nat
    PROVE  Cardinality(Units(w, S \cup {x})) = Cardinality(Units(w, S)) + w[x]
<1> DEFINE one == {x} \X (1..w[x])
<1>1. IsFiniteSet(one) /\ Cardinality(one) = w[x]
  BY UnitsOfOne
<1>2. IsFiniteSet(Units(w, S)) /\ Cardinality(Units(w, S)) \in Nat
  BY UnitsFinite
<1>3. Units(w, S \cup {x}) = Units(w, S) \cup one
  BY DEF Units
<1>4. Units(w, S) \cap one = {}
  BY DEF Units
<1> HIDE DEF one
<1>5. Cardinality(Units(w, S) \cup one)
        = Cardinality(Units(w, S)) + Cardinality(one) - Cardinality(Units(w, S) \cap one)
  BY <1>1, <1>2, FS_Union
<1>6. Cardinality(Units(w, S) \cap one) = 0
  BY <1>4, FS_EmptySet
<1>7. w[x] \in Nat
  OBVIOUS
<1>8. ASSUME NEW a \in Nat, NEW b \in Nat, NEW c, c = 0 PROVE a + b - c = a + b
  BY <1>8
<1>9. Cardinality(Units(w, S) \cup one) = Cardinality(Units(w, S)) + w[x]
  BY <1>1, <1>2, <1>5, <1>6, <1>7, <1>8
<1>10. QED
  BY <1>3, <1>9, Zenon

LEMMA UnitsSame ==
    ASSUME NEW w, NEW v, NEW S, \A x \in S : v[x] = w[x]
    PROVE  Units(v, S) = Units(w, S)
  BY DEF Units

LEMMA UnitsNone ==
    ASSUME NEW w
    PROVE  Cardinality(Units(w, {})) = 0
<1>1. Units(w, {}) = {}
  BY DEF Units
<1>2. QED
  BY <1>1, FS_EmptySet

\* What MapThenSumSet folds: one element after the other.
Adds(f, w, S) ==
    f = [s \in SUBSET S |-> IF s = {} THEN 0 ELSE
            w[CHOOSE x \in s : TRUE] + f[s \ {CHOOSE x \in s : TRUE}]]

\* By a smallest set for which the fold computes something else.
LEMMA AddsUnits ==
    ASSUME NEW w, NEW S, IsFiniteSet(S), \A x \in S : w[x] \in Nat, NEW f, Adds(f, w, S)
    PROVE  f[S] = Cardinality(Units(w, S))
<1> DEFINE wrong == {s \in SUBSET S : f[s] # Cardinality(Units(w, s))}
           R == StrictSubsetOrdering(S)
<1>0. \A s \in SUBSET S :
        f[s] = IF s = {} THEN 0 ELSE w[CHOOSE x \in s : TRUE] + f[s \ {CHOOSE x \in s : TRUE}]
  BY DEF Adds
<1>1. SUFFICES ASSUME wrong # {} PROVE FALSE
  OBVIOUS
<1>2. PICK s \in wrong : \A t \in wrong : ~(<<t, s>> \in R)
  <2>1. IsWellFoundedOn(R, SUBSET S)
    BY FS_StrictSubsetOrderingWellFounded, FS_FiniteSubsetsOfFinite
  <2>2. wrong \subseteq SUBSET S
    OBVIOUS
  <2> HIDE DEF wrong, R
  <2>3. QED
    BY <1>1, <2>1, <2>2, WFMin
<1>3. s # {}
  <2>1. SUFFICES ASSUME s = {} PROVE FALSE
    OBVIOUS
  <2>2. f[{}] = 0
    BY <1>0
  <2>3. QED
    BY <1>2, <2>1, <2>2, UnitsNone
<1> DEFINE x == CHOOSE y \in s : TRUE
           t == s \ {x}
<1>4. x \in s
  BY <1>3
<1>5. f[s] = w[x] + f[t]
  BY <1>0, <1>2, <1>3
<1> HIDE DEF x
<1>6. t \in SUBSET S /\ <<t, s>> \in R
  BY <1>2, <1>4 DEF StrictSubsetOrdering
<1>7. f[t] = Cardinality(Units(w, t))
  BY <1>2, <1>6
<1>8. IsFiniteSet(t) /\ x \notin t /\ t \cup {x} = s /\ \A y \in t \cup {x} : w[y] \in Nat
  BY <1>4, <1>6, FS_Subset
<1> HIDE DEF t
<1>9. Cardinality(Units(w, s)) = Cardinality(Units(w, t)) + w[x] /\ w[x] \in Nat
      /\ Cardinality(Units(w, t)) \in Nat
  BY <1>8, UnitsAdd, UnitsFinite
<1>10. f[s] = Cardinality(Units(w, s))
  BY <1>5, <1>7, <1>9
<1>11. QED
  BY <1>2, <1>10

LEMMA AddsExists ==
    ASSUME NEW w, NEW S, IsFiniteSet(S), \A x \in S : w[x] \in Nat
    PROVE  \E f : Adds(f, w, S)
<1> DEFINE g == [s \in SUBSET S |-> Cardinality(Units(w, s))]
<1>1. ASSUME NEW s \in SUBSET S
      PROVE  g[s] = IF s = {} THEN 0
                    ELSE w[CHOOSE x \in s : TRUE] + g[s \ {CHOOSE x \in s : TRUE}]
  <2>1. CASE s = {}
    BY <2>1, UnitsNone
  <2>2. CASE s # {}
    <3> DEFINE x == CHOOSE y \in s : TRUE
               t == s \ {x}
    <3>1. x \in s
      BY <2>2
    <3> HIDE DEF x
    <3>2. t \in SUBSET S /\ IsFiniteSet(t) /\ x \notin t /\ t \cup {x} = s
          /\ \A y \in t \cup {x} : w[y] \in Nat
      BY <3>1, FS_Subset
    <3> HIDE DEF t
    <3>3. Cardinality(Units(w, s)) = Cardinality(Units(w, t)) + w[x] /\ w[x] \in Nat
          /\ Cardinality(Units(w, t)) \in Nat
      BY <3>2, UnitsAdd, UnitsFinite
    <3>4. g[s] = w[x] + g[t]
      BY <3>2, <3>3
    <3> HIDE DEF g
    <3>5. QED
      BY <2>2, <3>4 DEF t, x
  <2>3. QED
    BY <2>1, <2>2
<1>2. g = [s \in SUBSET S |->
                   IF s = {} THEN 0
                   ELSE w[CHOOSE x \in s : TRUE] + g[s \ {CHOOSE x \in s : TRUE}]]
  <2>1. g = [s \in SUBSET S |-> g[s]]
    OBVIOUS
  <2> HIDE DEF g
  <2>2. QED
    BY <1>1, <2>1
<1> HIDE DEF g
<1>3. QED
  BY <1>2 DEF Adds

\* Two weights of the same things.
Agree(v, w, S) == \A y \in S : v[y] = w[y] /\ w[y] \in Nat

\* A sum with one element more, and with the weight of one changed.
LEMMA SumAdds ==
    ASSUME NEW S, IsFiniteSet(S), NEW x, x \notin S, NEW v, NEW w,
           Agree(v, w, S), v[x] \in Nat
    PROVE  /\ Cardinality(Units(v, S \cup {x})) = Cardinality(Units(w, S)) + v[x]
           /\ Cardinality(Units(v, S \cup {x})) \in Nat /\ Cardinality(Units(w, S)) \in Nat
<1>1. (\A y \in S \cup {x} : v[y] \in Nat) /\ \A y \in S : w[y] \in Nat /\ v[y] = w[y]
  BY DEF Agree
<1>2. Cardinality(Units(v, S \cup {x})) = Cardinality(Units(v, S)) + v[x]
  BY <1>1, UnitsAdd
<1>3. Units(v, S) = Units(w, S)
  BY <1>1, UnitsSame
<1>4. Cardinality(Units(w, S)) \in Nat
  BY <1>1, UnitsFinite
<1>5. QED
  BY <1>2, <1>3, <1>4

\* The credit of the groups of a list, and of its Datagrams.
Leases(list) == [id \in Pending(list) |-> list.map[id].lease]
Charges(list) == [id \in Pending(list) |-> list.map[id].total + LinkCharge]
LeaseSum(list) == Cardinality(Units(Leases(list), Pending(list)))
ChargeSum(list) == Cardinality(Units(Charges(list), Pending(list)))

\* The credit of Datagrams that the reader holds.
Totals(S) == [d \in S |-> d.total]
HeldSum(S) == Cardinality(Units(Totals(S), S))

LEMMA ChargeTypes ==
    ASSUME NEW list \in Lists(OriginalEntries)
    PROVE  \A x \in Pending(list) : Charges(list)[x] = list.map[x].total + LinkCharge /\ Charges(list)[x] \in Nat
                                    /\ list.map[x].total \in Nat
<1>1. \A x \in Pending(list) : list.map[x] \in OriginalEntries
  BY ListFacts
<1>2. \A x \in Pending(list) : list.map[x].total \in Nat
  BY <1>1 DEF OriginalEntries
<1>3. QED
  BY <1>2, LinkChargeType DEF Charges

LEMMA LeaseTypes ==
    ASSUME NEW list \in Lists(GroupEntries)
    PROVE  \A x \in Pending(list) : Leases(list)[x] = list.map[x].lease /\ Leases(list)[x] \in Nat
<1>1. \A x \in Pending(list) : list.map[x] \in GroupEntries
  BY ListFacts
<1>2. QED
  BY <1>1 DEF Leases, GroupEntries

\* A Datagram begins, or ends.
LEMMA ChargeLink ==
    ASSUME NEW list \in Lists(OriginalEntries), NEW new \in Lists(OriginalEntries), IsFiniteSet(Pending(list)),
           NEW id, id \notin Pending(list), Pending(new) = Pending(list) \cup {id},
           \A x \in Pending(list) : new.map[x] = list.map[x]
    PROVE  /\ ChargeSum(new) = ChargeSum(list) + new.map[id].total + LinkCharge
           /\ ChargeSum(list) \in Nat /\ ChargeSum(new) \in Nat
           /\ new.map[id].total \in Nat
           /\ Cardinality(Pending(new)) = Cardinality(Pending(list)) + 1 /\ Cardinality(Pending(list)) \in Nat
<1> DEFINE v == Charges(new)
           w == Charges(list)
           S == Pending(list)
<1>1. /\ \A x \in Pending(new) : v[x] = new.map[x].total + LinkCharge /\ v[x] \in Nat /\ new.map[x].total \in Nat
      /\ \A x \in S : w[x] = list.map[x].total + LinkCharge /\ w[x] \in Nat
  BY ChargeTypes
<1>2. Agree(v, w, S) /\ v[id] \in Nat /\ new.map[id].total \in Nat
      /\ v[id] = new.map[id].total + LinkCharge
  BY <1>1 DEF Agree
<1> HIDE DEF v, w, S
<1>3. /\ Cardinality(Units(v, S \cup {id})) = Cardinality(Units(w, S)) + v[id]
      /\ Cardinality(Units(v, S \cup {id})) \in Nat /\ Cardinality(Units(w, S)) \in Nat
  BY <1>2, SumAdds DEF S
<1>4. ChargeSum(new) = Cardinality(Units(v, S \cup {id})) /\ ChargeSum(list) = Cardinality(Units(w, S))
  BY DEF ChargeSum, v, w, S
<1>5. Cardinality(S \cup {id}) = Cardinality(S) + 1 /\ Cardinality(S) \in Nat
  BY FS_AddElement, FS_CardinalityType DEF S
<1>6. QED
  BY <1>2, <1>3, <1>4, <1>5, LinkChargeType DEF S

\* A Datagram grows, or all age.
LEMMA ChargePut ==
    ASSUME NEW list \in Lists(OriginalEntries), NEW new \in Lists(OriginalEntries), IsFiniteSet(Pending(list)),
           Pending(new) = Pending(list), \A x \in Pending(list) : new.map[x].total = list.map[x].total
    PROVE  ChargeSum(new) = ChargeSum(list) /\ ChargeSum(list) \in Nat
<1>1. \A x \in Pending(list) : Charges(new)[x] = Charges(list)[x] /\ Charges(list)[x] \in Nat
  BY ChargeTypes
<1>2. Units(Charges(new), Pending(list)) = Units(Charges(list), Pending(list))
  BY <1>1, UnitsSame
<1>3. QED
  BY <1>1, <1>2, UnitsFinite DEF ChargeSum

\* A group begins, or ends.
LEMMA LeaseLink ==
    ASSUME NEW list \in Lists(GroupEntries), NEW new \in Lists(GroupEntries), IsFiniteSet(Pending(list)),
           NEW id, id \notin Pending(list), Pending(new) = Pending(list) \cup {id},
           \A x \in Pending(list) : new.map[x] = list.map[x]
    PROVE  /\ LeaseSum(new) = LeaseSum(list) + new.map[id].lease
           /\ LeaseSum(list) \in Nat /\ LeaseSum(new) \in Nat /\ new.map[id].lease \in Nat
           /\ Cardinality(Pending(new)) = Cardinality(Pending(list)) + 1 /\ Cardinality(Pending(list)) \in Nat
<1> DEFINE v == Leases(new)
           w == Leases(list)
           S == Pending(list)
<1>1. /\ \A x \in Pending(new) : v[x] = new.map[x].lease /\ v[x] \in Nat
      /\ \A x \in S : w[x] = list.map[x].lease /\ w[x] \in Nat
  BY LeaseTypes
<1>2. Agree(v, w, S) /\ v[id] \in Nat /\ v[id] = new.map[id].lease
  BY <1>1 DEF Agree
<1> HIDE DEF v, w, S
<1>3. /\ Cardinality(Units(v, S \cup {id})) = Cardinality(Units(w, S)) + v[id]
      /\ Cardinality(Units(v, S \cup {id})) \in Nat /\ Cardinality(Units(w, S)) \in Nat
  BY <1>2, SumAdds DEF S
<1>4. LeaseSum(new) = Cardinality(Units(v, S \cup {id})) /\ LeaseSum(list) = Cardinality(Units(w, S))
  BY DEF LeaseSum, v, w, S
<1>5. Cardinality(S \cup {id}) = Cardinality(S) + 1 /\ Cardinality(S) \in Nat
  BY FS_AddElement, FS_CardinalityType DEF S
<1>6. QED
  BY <1>2, <1>3, <1>4, <1>5 DEF S

\* A group has another entry.
LEMMA LeasePut ==
    ASSUME NEW list \in Lists(GroupEntries), NEW new \in Lists(GroupEntries), IsFiniteSet(Pending(list)),
           NEW id \in Pending(list), Pending(new) = Pending(list),
           \A x \in Pending(list) \ {id} : new.map[x].lease = list.map[x].lease
    PROVE  /\ LeaseSum(new) = LeaseSum(list) - list.map[id].lease + new.map[id].lease
           /\ LeaseSum(list) \in Nat /\ LeaseSum(new) \in Nat
<1> DEFINE v == Leases(new)
           w == Leases(list)
           S == Pending(list) \ {id}
<1>1. /\ \A x \in Pending(list) : v[x] = new.map[x].lease /\ v[x] \in Nat
      /\ \A x \in Pending(list) : w[x] = list.map[x].lease /\ w[x] \in Nat
  BY LeaseTypes
<1>2. /\ Agree(v, w, S) /\ Agree(w, w, S)
      /\ v[id] \in Nat /\ v[id] = new.map[id].lease
      /\ w[id] \in Nat /\ w[id] = list.map[id].lease
  BY <1>1 DEF Agree
<1>3. IsFiniteSet(S) /\ id \notin S
  BY FS_Subset
<1>8. S \cup {id} = Pending(list)
  OBVIOUS
<1> HIDE DEF v, w, S
<1>4. /\ Cardinality(Units(v, S \cup {id})) = Cardinality(Units(w, S)) + v[id]
      /\ Cardinality(Units(w, S)) \in Nat
  BY <1>2, <1>3, SumAdds, Zenon
<1>5. Cardinality(Units(w, S \cup {id})) = Cardinality(Units(w, S)) + w[id]
  BY <1>2, <1>3, SumAdds, Zenon
<1>6. LeaseSum(new) = Cardinality(Units(v, S \cup {id})) /\ LeaseSum(list) = Cardinality(Units(w, S \cup {id}))
  BY <1>8 DEF LeaseSum, v, w
<1>7. QED
  BY <1>2, <1>4, <1>5, <1>6

\* A Datagram more is delivered.
LEMMA HeldAdd ==
    ASSUME NEW S, S \subseteq Holdings, IsFiniteSet(S), NEW d \in Holdings, d \notin S
    PROVE  /\ HeldSum(S \cup {d}) = HeldSum(S) + d.total /\ HeldSum(S) \in Nat /\ HeldSum(S \cup {d}) \in Nat
           /\ d.total \in Nat /\ IsFiniteSet(S \cup {d})
<1> DEFINE v == Totals(S \cup {d})
           w == Totals(S)
<1>1. Agree(v, w, S) /\ v[d] = d.total /\ d.total \in Nat
  BY DEF Totals, Holdings, Agree
<1> HIDE DEF v, w
<1>2. /\ Cardinality(Units(v, S \cup {d})) = Cardinality(Units(w, S)) + v[d]
      /\ Cardinality(Units(v, S \cup {d})) \in Nat /\ Cardinality(Units(w, S)) \in Nat
  BY <1>1, SumAdds
<1>3. IsFiniteSet(S \cup {d})
  BY FS_AddElement
<1>4. QED
  BY <1>1, <1>2, <1>3 DEF HeldSum, v, w

LEMMA HeldType ==
    ASSUME NEW S, S \subseteq Holdings, IsFiniteSet(S)
    PROVE  HeldSum(S) \in Nat
<1>1. \A x \in S : Totals(S)[x] \in Nat
  BY DEF Totals, Holdings
<1>2. QED
  BY <1>1, UnitsFinite DEF HeldSum

----------------------------------------------------------------------------
(* Credit                                                                  *)

\* What the reader holds once a call that delivered out has returned.
Handed(out) == {[id |-> d.id, total |-> d.total] : d \in Range(out)}
Reader(k, S) == S \cup Handed(k.out)

\* All credit but R is that of a group, of a Datagram being reassembled or of
\* the reader.
Account(k, S, R) ==
    /\ Reader(k, S) \subseteq Holdings /\ IsFiniteSet(Reader(k, S)) /\ R \in Int
    /\ k.used = LeaseSum(k.groups) + ChargeSum(k.originals) + HeldSum(Reader(k, S)) + R

\* A Datagram leaves the list.
LEMMA ChargeUnlink ==
    ASSUME NEW list \in Lists(OriginalEntries), Chained(list), NEW id \in Pending(list)
    PROVE  LET new == Unlink(list, id)
           IN  /\ ChargeSum(list) = ChargeSum(new) + list.map[id].total + LinkCharge
               /\ ChargeSum(list) \in Nat /\ ChargeSum(new) \in Nat /\ list.map[id].total \in Nat
               /\ Cardinality(Pending(list)) = Cardinality(Pending(new)) + 1
               /\ Cardinality(Pending(new)) \in Nat
<1> DEFINE new == Unlink(list, id)
<1>1. /\ new \in Lists(OriginalEntries) /\ Chained(new) /\ Pending(new) = Pending(list) \ {id}
      /\ \A x \in Pending(list) \ {id} : new.map[x] = list.map[x]
  BY UnlinkFacts, EntryTypes
<1>2. IsFiniteSet(Pending(new)) /\ id \notin Pending(new) /\ Pending(list) = Pending(new) \cup {id}
  BY <1>1, HeadFacts
<1>3. \A x \in Pending(new) : list.map[x] = new.map[x]
  BY <1>1
<1> HIDE DEF new
<1>4. QED
  BY <1>1, <1>2, <1>3, ChargeLink DEF new

LEMMA LeaseUnlink ==
    ASSUME NEW list \in Lists(GroupEntries), Chained(list), NEW id \in Pending(list)
    PROVE  LET new == Unlink(list, id)
           IN  /\ LeaseSum(list) = LeaseSum(new) + list.map[id].lease
               /\ LeaseSum(list) \in Nat /\ LeaseSum(new) \in Nat /\ list.map[id].lease \in Nat
               /\ Cardinality(Pending(list)) = Cardinality(Pending(new)) + 1
               /\ Cardinality(Pending(new)) \in Nat
<1> DEFINE new == Unlink(list, id)
<1>1. /\ new \in Lists(GroupEntries) /\ Chained(new) /\ Pending(new) = Pending(list) \ {id}
      /\ \A x \in Pending(list) \ {id} : new.map[x] = list.map[x]
  BY UnlinkFacts, EntryTypes
<1>2. IsFiniteSet(Pending(new)) /\ id \notin Pending(new) /\ Pending(list) = Pending(new) \cup {id}
  BY <1>1, HeadFacts
<1>3. \A x \in Pending(new) : list.map[x] = new.map[x]
  BY <1>1
<1> HIDE DEF new
<1>4. QED
  BY <1>1, <1>2, <1>3, LeaseLink DEF new

\* The sums of a receiver are numbers.
LEMMA SumTypes ==
    ASSUME NEW F, NEW k, Sane(k, F), NEW S, NEW R, Account(k, S, R)
    PROVE  /\ LeaseSum(k.groups) \in Nat /\ ChargeSum(k.originals) \in Nat /\ HeldSum(Reader(k, S)) \in Nat
           /\ k.used \in Int /\ R \in Int
           /\ Cardinality(Pending(k.originals)) \in Nat /\ Cardinality(Pending(k.groups)) \in Nat
           /\ IsFiniteSet(Pending(k.originals)) /\ IsFiniteSet(Pending(k.groups))
<1>1. /\ k.originals \in Lists(OriginalEntries) /\ k.groups \in Lists(GroupEntries) /\ k.used \in Int
      /\ IsFiniteSet(Pending(k.originals)) /\ IsFiniteSet(Pending(k.groups))
      /\ Cardinality(Pending(k.originals)) \in Nat /\ Cardinality(Pending(k.groups)) \in Nat
  BY SaneParts, HeadOf
<1>2. LeaseSum(k.groups) \in Nat
  <2>1. \A x \in Pending(k.groups) : Leases(k.groups)[x] \in Nat
    BY <1>1, LeaseTypes
  <2>2. QED
    BY <1>1, <2>1, UnitsFinite DEF LeaseSum
<1>3. ChargeSum(k.originals) \in Nat
  <2>1. \A x \in Pending(k.originals) : Charges(k.originals)[x] \in Nat
    BY <1>1, ChargeTypes
  <2>2. QED
    BY <1>1, <2>1, UnitsFinite DEF ChargeSum
<1>4. HeldSum(Reader(k, S)) \in Nat /\ R \in Int
  BY HeldType DEF Account
<1>5. QED
  BY <1>1, <1>2, <1>3, <1>4

\* What a step on a Datagram does to the account: n owes no more, has at most m
\* Datagrams more, and leaves the rest R.
Paid(k, n, S, R, m) ==
    /\ Account(n, S, R) /\ n.used <= k.used
    /\ Cardinality(Pending(n.originals)) <= Cardinality(Pending(k.originals)) + m

LEMMA ExpireAccount ==
    ASSUME NEW F, NEW k, Sane(k, F), NEW id \in Pending(k.originals), NEW S, NEW R, Account(k, S, R)
    PROVE  Paid(k, ExpireOriginal(k, id), S, R, 0 - 1)
<1> DEFINE n == ExpireOriginal(k, id)
<1>1. /\ n.groups = k.groups /\ n.out = k.out /\ n.originals = Unlink(k.originals, id)
      /\ n.used = k.used - k.originals.map[id].total - LinkCharge
  BY ExpireFields
<1>2. k.originals \in Lists(OriginalEntries) /\ Chained(k.originals)
  BY SaneParts
<1> HIDE DEF n
<1>3. /\ ChargeSum(k.originals) = ChargeSum(n.originals) + k.originals.map[id].total + LinkCharge
      /\ ChargeSum(k.originals) \in Nat /\ ChargeSum(n.originals) \in Nat /\ k.originals.map[id].total \in Nat
      /\ Cardinality(Pending(k.originals)) = Cardinality(Pending(n.originals)) + 1
      /\ Cardinality(Pending(n.originals)) \in Nat
  BY <1>1, <1>2, ChargeUnlink
<1>4. /\ LeaseSum(k.groups) \in Nat /\ HeldSum(Reader(k, S)) \in Nat /\ k.used \in Int /\ R \in Int
  BY SumTypes
<1>5. Reader(n, S) = Reader(k, S)
  BY <1>1 DEF Reader
<1>6. k.used = LeaseSum(k.groups) + ChargeSum(k.originals) + HeldSum(Reader(k, S)) + R
  BY DEF Account
<1>7. n.used = LeaseSum(k.groups) + ChargeSum(n.originals) + HeldSum(Reader(k, S)) + R
  BY <1>1, <1>3, <1>4, <1>6, LinkChargeType
<1>8. Account(n, S, R)
  BY <1>1, <1>5, <1>7 DEF Account
<1>9. n.used <= k.used
  BY <1>1, <1>3, <1>4, LinkChargeType
<1>10. QED
  BY <1>3, <1>8, <1>9 DEF Paid, n

\* The reader holds nothing but Datagrams that completed.
Known(S, F) == \A d \in S : d.id \in Ids(F, "datagram", "completed")

LEMMA HandedMore ==
    ASSUME NEW out \in Seq(Deliveries), NEW d \in Deliveries
    PROVE  Handed(Append(out, d)) = Handed(out) \cup {[id |-> d.id, total |-> d.total]}
<1> DEFINE b == Append(out, d)
<1>3. /\ DOMAIN out = 1..Len(out) /\ Len(out) \in Nat /\ DOMAIN b = 1..(Len(out) + 1)
      /\ \A i \in 1..Len(out) : b[i] = out[i]
      /\ b[Len(out) + 1] = d
  OBVIOUS
<1> HIDE DEF b
<1>4. Range(b) = {b[i] : i \in DOMAIN b} /\ Range(out) = {out[i] : i \in DOMAIN out}
  BY DEF Range
<1>1. Range(b) = Range(out) \cup {d}
  <2>1. ASSUME NEW x \in Range(b) PROVE x \in Range(out) \cup {d}
    <3>1. PICK i \in 1..(Len(out) + 1) : x = b[i]
      BY <1>3, <1>4
    <3>2. i = Len(out) + 1 \/ i \in 1..Len(out)
      BY <1>3
    <3>3. QED
      BY <1>3, <1>4, <3>1, <3>2
  <2>2. ASSUME NEW x \in Range(out) PROVE x \in Range(b)
    <3>1. PICK i \in 1..Len(out) : x = out[i]
      BY <1>3, <1>4
    <3>2. i \in DOMAIN b /\ b[i] = x
      BY <1>3, <3>1
    <3>3. QED
      BY <1>4, <3>2
  <2>3. d \in Range(b)
    <3>1. Len(out) + 1 \in DOMAIN b
      BY <1>3
    <3>2. QED
      BY <1>3, <1>4, <3>1
  <2>4. QED
    BY <2>1, <2>2, <2>3
<1>2. QED
  BY <1>1 DEF Handed, b

\* A Datagram that is being reassembled is not the reader's.
LEMMA NotHeld ==
    ASSUME NEW F, NEW k, Sane(k, F), NEW S, Known(S, F), NEW x \in Pending(k.originals), NEW h \in Reader(k, S)
    PROVE  h.id # x
<1> DEFINE C == Ids(F \cup k.ended, "datagram", "completed")
           X == Ids(F \cup k.ended, "datagram", "expired")
<1>1. x \notin C
  <2>1. WindowOK(k.datagramWindow) /\ Remembers(k.datagramWindow, Pending(k.originals), C, X)
    BY DEF Sane, OriginalsSane
  <2> HIDE DEF C, X
  <2>2. x \notin C \cup X
    BY <2>1, PendingState
  <2>3. QED
    BY <2>2
<1>2. h.id \in C
  <2>1. CASE h \in S
    BY <2>1 DEF Known, Ids
  <2>2. CASE h \notin S
    <3>1. PICK d \in Range(k.out) : h = [id |-> d.id, total |-> d.total]
      BY <2>2 DEF Reader, Handed
    <3>2. PICK i \in DOMAIN k.out : d = k.out[i]
      BY <3>1 DEF Range
    <3>3. d.id \in Ids(k.ended, "datagram", "completed")
      BY <3>2 DEF Sane, OutSane
    <3>4. QED
      BY <3>1, <3>3 DEF Ids
  <2>3. QED
    BY <2>1, <2>2
<1>3. QED
  BY <1>1, <1>2

\* A fragment is copied into its Datagram.
LEMMA InsertAccount ==
    ASSUME NEW F, NEW k, Sane(k, F), NEW f, Fits(k, f), NEW S, Known(S, F), NEW R, Account(k, S, R)
    PROVE  Paid(k, Insert(k, f), S, R, 0)
<1> DEFINE n == Insert(k, f)
           g == Grown(k, f)
           a == k.originals.map[f.id]
<1>1. /\ f.id \in Pending(k.originals) /\ k.originals \in Lists(OriginalEntries) /\ Chained(k.originals)
      /\ k.out \in Seq(Deliveries)
  BY SaneParts DEF Fits
<1>2. g \in OriginalEntries /\ g.total = a.total /\ g.age = a.age /\ a.total \in Nat /\ f.id \in Nat
  BY GrownFacts DEF Continues
<1>3. /\ LeaseSum(k.groups) \in Nat /\ ChargeSum(k.originals) \in Nat /\ HeldSum(Reader(k, S)) \in Nat
      /\ k.used \in Int /\ R \in Int
      /\ Cardinality(Pending(k.originals)) \in Nat /\ IsFiniteSet(Pending(k.originals))
  BY SumTypes
<1>0. k.used = LeaseSum(k.groups) + ChargeSum(k.originals) + HeldSum(Reader(k, S)) + R
  BY DEF Account
<1>4. Reader(k, S) \subseteq Holdings /\ IsFiniteSet(Reader(k, S))
  BY DEF Account
<1>5. CASE g.received # a.total
  <2>1. n.groups = k.groups /\ n.out = k.out /\ n.used = k.used /\ n.originals = Put(k.originals, f.id, g)
    BY <1>5, InsertMore
  <2> HIDE DEF n, g
  <2>2. /\ n.originals \in Lists(OriginalEntries) /\ Pending(n.originals) = Pending(k.originals)
        /\ n.originals.map[f.id] = g
        /\ \A x \in Pending(k.originals) \ {f.id} : n.originals.map[x] = k.originals.map[x]
    BY <1>1, <1>2, <2>1, PutFacts
  <2>3. \A x \in Pending(k.originals) : n.originals.map[x].total = k.originals.map[x].total
    BY <1>2, <2>2
  <2>4. ChargeSum(n.originals) = ChargeSum(k.originals)
    BY <1>1, <1>3, <2>2, <2>3, ChargePut
  <2>5. Reader(n, S) = Reader(k, S)
    BY <2>1 DEF Reader
  <2>6. Account(n, S, R)
    BY <1>0, <1>3, <1>4, <2>1, <2>4, <2>5 DEF Account
  <2>7. QED
    BY <1>3, <2>1, <2>2, <2>6 DEF Paid, n
<1>6. CASE g.received = a.total
  <2> DEFINE d == Delivery(k, f)
             h == [id |-> f.id, total |-> a.total]
  <2>1. /\ n.groups = k.groups /\ n.out = Append(k.out, d) /\ n.used = k.used - LinkCharge
        /\ n.originals = Unlink(k.originals, f.id)
    BY <1>6, InsertLast
  <2>2. d \in Deliveries /\ d.id = f.id /\ d.total = a.total
    BY <1>6, GrownFacts
  <2>3. h \in Holdings /\ h.total = a.total /\ h.id = f.id
    BY <1>2 DEF Holdings
  <2>4. h \notin Reader(k, S)
    BY <1>1, <2>3, NotHeld
  <2>5. Reader(n, S) = Reader(k, S) \cup {h}
    <3>1. Handed(n.out) = Handed(k.out) \cup {h}
      BY <1>1, <2>1, <2>2, HandedMore
    <3>2. QED
      BY <3>1 DEF Reader
  <2> HIDE DEF n, g, d, h, a
  <2>6. /\ HeldSum(Reader(k, S) \cup {h}) = HeldSum(Reader(k, S)) + h.total
        /\ IsFiniteSet(Reader(k, S) \cup {h})
    BY <1>4, <2>3, <2>4, HeldAdd
  <2>7. /\ ChargeSum(k.originals) = ChargeSum(n.originals) + a.total + LinkCharge
        /\ ChargeSum(n.originals) \in Nat
        /\ Cardinality(Pending(k.originals)) = Cardinality(Pending(n.originals)) + 1
        /\ Cardinality(Pending(n.originals)) \in Nat
    BY <1>1, <2>1, ChargeUnlink DEF a
  <2>8. n.used = LeaseSum(k.groups) + ChargeSum(n.originals) + (HeldSum(Reader(k, S)) + h.total) + R
    <3>1. PICK l \in Int, c \in Int, m \in Int, t \in Int, b \in Int :
            /\ l = LeaseSum(k.groups) /\ c = ChargeSum(n.originals) /\ m = HeldSum(Reader(k, S))
            /\ t = h.total /\ b = LinkCharge
      BY <1>2, <1>3, <2>3, <2>7, LinkChargeType
    <3>2. k.used = l + (c + t + b) + m + R
      BY <1>0, <2>3, <2>7, <3>1
    <3>3. k.used - b = l + c + (m + t) + R
      BY <1>3, <3>2
    <3>4. QED
      BY <2>1, <3>1, <3>3
  <2>9. Account(n, S, R)
    <3>1. Reader(n, S) \subseteq Holdings /\ IsFiniteSet(Reader(n, S))
      BY <1>4, <2>3, <2>5, <2>6
    <3>2. HeldSum(Reader(n, S)) = HeldSum(Reader(k, S)) + h.total
      BY <2>5, <2>6
    <3>3. QED
      BY <1>3, <2>1, <2>8, <3>1, <3>2 DEF Account
  <2>10. n.used <= k.used
    BY <1>3, <2>1, LinkChargeType
  <2>11. QED
    BY <2>7, <2>9, <2>10 DEF Paid, n
<1>7. QED
  BY <1>5, <1>6

\* What a plan takes of the credit reserved, and how many Datagrams it adds.
Cost(p, f) == IF p = "new" THEN AssemblyCharge(f) ELSE 0
Extra(p) == IF p = "new" THEN 1 ELSE IF p = "expire" THEN 0 - 1 ELSE 0

\* A new Datagram takes what was reserved for it.
LEMMA StartAccount ==
    ASSUME NEW F, NEW k, Sane(k, F), NEW f, Canonical(f), f.id \notin Pending(k.originals),
           State(k.datagramWindow, f.id) = "unseen", NEW S, NEW R \in Int, Account(k, S, R + AssemblyCharge(f))
    PROVE  Paid(k, Started(k, f), S, R, 1)
<1> DEFINE n == Started(k, f)
           id == f.id
           entry == [total |-> f.total, age |-> 0, ranges |-> {}, received |-> 0]
           Q == R + AssemblyCharge(f)
<1>1. f \in Fragments /\ id \in IDs /\ f.total \in Nat
  BY DEF Canonical, Fragments
<1>2. /\ entry \in OriginalEntries /\ entry.age = 0 /\ entry.total = f.total
      /\ n.groups = k.groups /\ n.out = k.out /\ n.used = k.used /\ n.originals = Link(k.originals, id, entry)
  BY <1>1, StartFields
<1>3. id \notin Pending(k.originals) /\ k.originals \in Lists(OriginalEntries) /\ Chained(k.originals)
  BY SaneParts
<1>4. Q = R + f.total + LinkCharge /\ Q \in Int
  BY <1>1, LinkChargeType DEF AssemblyCharge
<1>5. Account(k, S, Q)
  OBVIOUS
<1> HIDE DEF n, id, entry, Q
<1>6. /\ LeaseSum(k.groups) \in Nat /\ ChargeSum(k.originals) \in Nat /\ HeldSum(Reader(k, S)) \in Nat
      /\ k.used \in Int /\ Cardinality(Pending(k.originals)) \in Nat /\ IsFiniteSet(Pending(k.originals))
  BY <1>5, SumTypes
<1>7. /\ n.originals \in Lists(OriginalEntries) /\ Pending(n.originals) = Pending(k.originals) \cup {id}
      /\ n.originals.map[id] = entry
      /\ \A x \in Pending(k.originals) : n.originals.map[x] = k.originals.map[x]
  BY <1>1, <1>2, <1>3, LinkFacts, EntryTypes
<1>8. /\ ChargeSum(n.originals) = ChargeSum(k.originals) + n.originals.map[id].total + LinkCharge
      /\ ChargeSum(n.originals) \in Nat
      /\ Cardinality(Pending(n.originals)) = Cardinality(Pending(k.originals)) + 1
  BY <1>3, <1>6, <1>7, ChargeLink
<1>9. Reader(n, S) = Reader(k, S)
  BY <1>2 DEF Reader
<1>10. k.used = LeaseSum(k.groups) + ChargeSum(k.originals) + HeldSum(Reader(k, S)) + Q
  BY <1>5 DEF Account
<1>11. n.used = LeaseSum(k.groups) + ChargeSum(n.originals) + HeldSum(Reader(k, S)) + R
  <2>1. PICK l \in Int, c \in Int, m \in Int, t \in Int, b \in Int :
          /\ l = LeaseSum(k.groups) /\ c = ChargeSum(k.originals) /\ m = HeldSum(Reader(k, S))
          /\ t = f.total /\ b = LinkCharge
    BY <1>1, <1>6, LinkChargeType
  <2>2. k.used = l + c + m + (R + t + b)
    BY <1>4, <1>10, <2>1
  <2>3. ChargeSum(n.originals) = c + t + b
    BY <1>2, <1>7, <1>8, <2>1
  <2>4. k.used = l + (c + t + b) + m + R
    BY <1>6, <2>2
  <2>5. QED
    BY <1>2, <2>1, <2>3, <2>4
<1>12. Account(n, S, R)
  <2>1. Reader(n, S) \subseteq Holdings /\ IsFiniteSet(Reader(n, S))
    BY <1>5, <1>9 DEF Account
  <2>2. QED
    BY <1>2, <1>9, <1>11, <2>1 DEF Account
<1>13. n.used <= k.used /\ Cardinality(Pending(n.originals)) <= Cardinality(Pending(k.originals)) + 1
  BY <1>2, <1>6, <1>8
<1>14. QED
  BY <1>12, <1>13 DEF Paid, n

\* One fragment of a plan.
LEMMA CommitAccount ==
    ASSUME NEW F, NEW k, Sane(k, F), NEW f, Canonical(f), NEW p, p = Plan(k, f), p \notin {"invalid", "full"},
           NEW S, Known(S, F), NEW R \in Int, Account(k, S, R + Cost(p, f))
    PROVE  Paid(k, Commit(k, f, p), S, R, Extra(p))
<1> DEFINE n == Commit(k, f, p)
<1>1. /\ p \in Plans
      /\ p = "new" => f.id \notin Pending(k.originals) /\ State(k.datagramWindow, f.id) = "unseen"
      /\ p = "expire" => f.id \in Pending(k.originals)
      /\ p = "insert" => Fits(k, f)
  BY PlanFacts
<1>2. n = CASE p = "expire" -> ExpireOriginal(k, f.id)
            [] p = "insert" -> Insert(k, f)
            [] p = "new" -> Insert(Started(k, f), f)
            [] OTHER -> k
  BY DEF Commit, Started
<1>3. k.used \in Int /\ Cardinality(Pending(k.originals)) \in Nat
  BY SumTypes
<1> HIDE DEF n
<1>4. CASE p = "expire"
  <2>1. n = ExpireOriginal(k, f.id) /\ R + Cost(p, f) = R /\ Extra(p) = 0 - 1
    BY <1>2, <1>4 DEF Cost, Extra
  <2>2. Account(k, S, R)
    BY <2>1
  <2>3. QED
    BY <1>1, <1>4, <2>1, <2>2, ExpireAccount DEF n
<1>5. CASE p = "insert"
  <2>1. n = Insert(k, f) /\ R + Cost(p, f) = R /\ Extra(p) = 0
    BY <1>2, <1>5 DEF Cost, Extra
  <2>2. Account(k, S, R)
    BY <2>1
  <2>3. QED
    BY <1>1, <1>5, <2>1, <2>2, InsertAccount DEF n
<1>6. CASE p = "new"
  <2> DEFINE m == Started(k, f)
  <2>1. n = Insert(m, f) /\ Cost(p, f) = AssemblyCharge(f) /\ Extra(p) = 1
    BY <1>2, <1>6 DEF Cost, Extra
  <2>2. Account(k, S, R + AssemblyCharge(f))
    BY <2>1
  <2>3. Sane(m, F) /\ Fits(m, f)
    BY <1>1, <1>6, StartStep
  <2>4. Paid(k, m, S, R, 1)
    BY <1>1, <1>6, <2>2, StartAccount
  <2> HIDE DEF m
  <2>5. Account(m, S, R)
    BY <2>4 DEF Paid
  <2>6. Paid(m, n, S, R, 0)
    BY <2>1, <2>3, <2>5, InsertAccount
  <2>7. m.used \in Int /\ Cardinality(Pending(m.originals)) \in Nat
    BY <2>3, <2>5, SumTypes
  <2>8. Sane(n, F) /\ Account(n, S, R)
    <3>1. Sane(n, F)
      BY <2>1, <2>3, InsertStep DEF Touched
    <3>2. QED
      BY <2>6, <3>1 DEF Paid
  <2>9. n.used \in Int /\ Cardinality(Pending(n.originals)) \in Nat
    BY <2>8, SumTypes
  <2>10. n.used <= k.used /\ Cardinality(Pending(n.originals)) <= Cardinality(Pending(k.originals)) + 1
    BY <1>3, <2>4, <2>6, <2>7, <2>9 DEF Paid
  <2>11. QED
    BY <2>1, <2>8, <2>10 DEF Paid, n
<1>7. CASE p \in {"skip", "duplicate"}
  <2>1. n = k /\ R + Cost(p, f) = R /\ Extra(p) = 0
    BY <1>2, <1>7 DEF Cost, Extra
  <2>2. Account(k, S, R)
    BY <2>1
  <2>3. QED
    BY <1>3, <2>1, <2>2 DEF Paid, n
<1>8. QED
  BY <1>1, <1>4, <1>5, <1>6, <1>7 DEF Plans

\* Every reservation is booked, and none is made over the credit.
Booked(r, used) == r.used = used + r.taken /\ r.used <= Credit

LEMMA ReserveBooks ==
    ASSUME NEW used \in Int, NEW r \in Reserves, Booked(r, used), NEW f \in Fragments, NEW p
    PROVE  LET n == ReserveStep(r, f, p)
           IN  /\ Booked(n, used) /\ (n.ok => r.ok)
               /\ n.ok => n.used = r.used + Cost(p, f)
<1> DEFINE n == ReserveStep(r, f, p)
           c == AssemblyCharge(f)
<1>1. c \in Int /\ r.used \in Int /\ r.taken \in Int /\ r.ok \in BOOLEAN /\ Credit \in Int
  BY LinkChargeType DEF AssemblyCharge, Fragments, Reserves
<1>2. n = IF ~r.ok \/ p # "new" THEN r
          ELSE IF r.used + c > Credit THEN [r EXCEPT !.ok = FALSE]
          ELSE [r EXCEPT !.used = r.used + c, !.taken = r.taken + c]
  BY DEF ReserveStep
<1>3. Cost(p, f) = IF p = "new" THEN c ELSE 0
  BY DEF Cost
<1>4. LET a == [r EXCEPT !.ok = FALSE]
          b == [r EXCEPT !.used = r.used + c, !.taken = r.taken + c]
      IN  /\ a.ok = FALSE /\ a.used = r.used /\ a.taken = r.taken
          /\ b.ok = r.ok /\ b.used = r.used + c /\ b.taken = r.taken + c
  BY DEF Reserves
<1> HIDE DEF n, c
<1>5. CASE ~r.ok \/ p # "new"
  <2>1. n = r
    BY <1>2, <1>5
  <2>2. r.ok => Cost(p, f) = 0
    BY <1>3, <1>5
  <2>3. QED
    BY <1>1, <2>1, <2>2 DEF n
<1>6. CASE r.ok /\ p = "new" /\ r.used + c > Credit
  <2>1. n.ok = FALSE /\ n.used = r.used /\ n.taken = r.taken
    BY <1>2, <1>4, <1>6
  <2>2. QED
    BY <1>6, <2>1 DEF Booked, n
<1>7. CASE r.ok /\ p = "new" /\ ~(r.used + c > Credit)
  <2>1. n.ok = r.ok /\ n.used = r.used + c /\ n.taken = r.taken + c
    BY <1>2, <1>4, <1>7
  <2>2. Cost(p, f) = c
    BY <1>3, <1>7
  <2>3. r.used + c = used + (r.taken + c) /\ r.used + c <= Credit
    BY <1>1, <1>7 DEF Booked
  <2>4. QED
    BY <1>7, <2>1, <2>2, <2>3 DEF Booked, n
<1>8. QED
  BY <1>5, <1>6, <1>7

\* What is given back after a refusal is all that was taken; without one, what
\* was reserved is the charge of every new Datagram.
LEMMA ReserveExact ==
    ASSUME NEW used \in Int, used <= Credit, NEW fragments \in Seq(Fragments), NEW plan
    PROVE  LET after == ReserveSteps(used, fragments, plan)
               N == Len(fragments)
           IN  /\ after[0].used = used /\ after[N].used \in Int /\ after[N].used <= Credit
               /\ RolledBack(after[N]) = used
               /\ \A n \in 0..N : after[n].used \in Int
               /\ after[N].ok => \A n \in 1..N : after[n].used = after[n - 1].used + Cost(plan[n], fragments[n])
<1> DEFINE after == ReserveSteps(used, fragments, plan)
           N == Len(fragments)
           S == {n \in 0..N : Booked(after[n], used)}
           T == {m \in 0..N : after[N].ok => after[N - m].ok}
<1>1. /\ after[0] = [used |-> used, taken |-> 0, ok |-> TRUE]
      /\ \A n \in 1..N : after[n] = ReserveStep(after[n - 1], fragments[n], plan[n])
      /\ \A n \in 0..N : after[n] \in Reserves
  BY ReserveRuns
<1>2. N \in Nat /\ \A n \in 1..N : fragments[n] \in Fragments
  OBVIOUS
<1> HIDE DEF after, N
<1>3. \A n \in 0..N : n \in S
  <2>1. 0 \in S
    BY <1>1, <1>2 DEF Booked
  <2>2. ASSUME NEW n \in 1..N, n - 1 \in S PROVE n \in S
    <3>1. after[n - 1] \in Reserves /\ Booked(after[n - 1], used) /\ fragments[n] \in Fragments
      BY <1>1, <1>2, <2>2
    <3>2. Booked(ReserveStep(after[n - 1], fragments[n], plan[n]), used)
      BY <3>1, ReserveBooks
    <3>3. QED
      BY <1>1, <3>2
  <2> HIDE DEF S
  <2>3. QED
    BY <1>2, <2>1, <2>2, Induction
<1>4. ASSUME NEW n \in 1..N
      PROVE  /\ after[n].ok => after[n - 1].ok
             /\ after[n].ok => after[n].used = after[n - 1].used + Cost(plan[n], fragments[n])
  <2>1. n - 1 \in 0..N
    BY <1>2
  <2>2. after[n - 1] \in Reserves /\ Booked(after[n - 1], used) /\ fragments[n] \in Fragments
    BY <1>1, <1>2, <1>3, <2>1
  <2> DEFINE m == ReserveStep(after[n - 1], fragments[n], plan[n])
  <2>3. (m.ok => after[n - 1].ok) /\ (m.ok => m.used = after[n - 1].used + Cost(plan[n], fragments[n]))
    BY <2>2, ReserveBooks
  <2>4. QED
    BY <1>1, <2>3
<1>5. \A m \in 0..N : m \in T
  <2>1. 0 \in T
    BY <1>2
  <2>2. ASSUME NEW m \in 1..N, m - 1 \in T PROVE m \in T
    <3>1. N - (m - 1) \in 1..N /\ N - (m - 1) - 1 = N - m
      BY <1>2
    <3>2. after[N - (m - 1)].ok => after[N - m].ok
      BY <1>4, <3>1
    <3>3. QED
      BY <2>2, <3>2
  <2> HIDE DEF T
  <2>3. QED
    BY <1>2, <2>1, <2>2, Induction
<1>6. ASSUME after[N].ok, NEW n \in 1..N
      PROVE  after[n].used = after[n - 1].used + Cost(plan[n], fragments[n])
  <2>1. N - n \in T /\ N - (N - n) = n
    BY <1>2, <1>5
  <2>2. after[n].ok
    BY <1>6, <2>1
  <2>3. QED
    BY <1>4, <2>2
<1>7. Booked(after[N], used) /\ \A n \in 0..N : after[n].used \in Int /\ after[n].taken \in Int
  BY <1>1, <1>2, <1>3 DEF Reserves
<1>8. RolledBack(after[N]) = used /\ after[N].used <= Credit /\ after[N].used \in Int
  BY <1>2, <1>7 DEF Booked, RolledBack
<1>9. QED
  BY <1>1, <1>6, <1>7, <1>8 DEF after, N

\* How many fragments up to the n-th have a plan.
Tally(plan, what, n) == Cardinality({i \in 1..n : plan[i] = what})

LEMMA TallyNext ==
    ASSUME NEW plan, NEW what, NEW n \in Nat \ {0}
    PROVE  /\ Tally(plan, what, n) = Tally(plan, what, n - 1) + (IF plan[n] = what THEN 1 ELSE 0)
           /\ Tally(plan, what, n - 1) \in Nat /\ Tally(plan, what, n) \in Nat
<1> DEFINE A == {i \in 1..(n - 1) : plan[i] = what}
           B == {i \in 1..n : plan[i] = what}
<1>1. IsFiniteSet(1..(n - 1)) /\ IsFiniteSet(1..n)
  BY FS_Interval
<1>2. IsFiniteSet(A) /\ IsFiniteSet(B) /\ n \notin A
  BY <1>1, FS_Subset
<1>3. B = IF plan[n] = what THEN A \cup {n} ELSE A
  <2>1. 1..n = 1..(n - 1) \cup {n}
    OBVIOUS
  <2>2. QED
    BY <2>1
<1> HIDE DEF A, B
<1>4. Cardinality(A) \in Nat /\ Cardinality(B) \in Nat /\ Cardinality(A \cup {n}) = Cardinality(A) + 1
  BY <1>2, FS_CardinalityType, FS_AddElement
<1>5. Cardinality(B) = Cardinality(A) + (IF plan[n] = what THEN 1 ELSE 0)
  BY <1>3, <1>4
<1>6. QED
  BY <1>4, <1>5 DEF Tally, A, B

LEMMA TallyNone ==
    ASSUME NEW plan, NEW what
    PROVE  Tally(plan, what, 0) = 0
<1>1. {i \in 1..0 : plan[i] = what} = {}
  OBVIOUS
<1>2. QED
  BY <1>1, FS_EmptySet DEF Tally

\* Where the account stands after n fragments of a group were committed: T was
\* reserved in all and t of it for these, and the count is that of m Datagrams
\* at first.
Ledgered(x, S, T, t, m, plan, n) ==
    /\ Account(x, S, T - t) /\ x.used <= T
    /\ Cardinality(Pending(x.originals)) <= m + Tally(plan, "new", n) - Tally(plan, "expire", n)

LEMMA LedgeredNext ==
    ASSUME NEW F, NEW x, Sane(x, F), NEW f, Canonical(f), NEW plan, NEW n \in Nat \ {0},
           plan[n] = Plan(x, f), plan[n] \notin {"invalid", "full"}, NEW S, Known(S, F),
           NEW T \in Int, NEW t \in Int, NEW u \in Int, u = t + Cost(plan[n], f), NEW m \in Nat,
           Ledgered(x, S, T, t, m, plan, n - 1), NEW y, y = Commit(x, f, plan[n]), Sane(y, F)
    PROVE  Ledgered(y, S, T, u, m, plan, n)
<1> DEFINE p == plan[n]
           c == Cost(p, f)
           R == T - u
<1>1. c \in Int
  BY LinkChargeType DEF Cost, AssemblyCharge, Canonical, Fragments
<1>2. T - t = R + c /\ R \in Int
  BY <1>1
<1>3. Account(x, S, R + Cost(p, f))
  BY <1>2 DEF Ledgered
<1>4. p = Plan(x, f) /\ p \notin {"invalid", "full"}
  OBVIOUS
<1> HIDE DEF p, R
<1>5. Paid(x, Commit(x, f, p), S, R, Extra(p))
  BY <1>2, <1>3, <1>4, CommitAccount
<1>6. Paid(x, y, S, R, Extra(p))
  BY <1>5 DEF p
<1>7. Account(y, S, R) /\ y.used <= x.used
      /\ Cardinality(Pending(y.originals)) <= Cardinality(Pending(x.originals)) + Extra(p)
  BY <1>6 DEF Paid
<1>8. /\ x.used \in Int /\ y.used \in Int
      /\ Cardinality(Pending(x.originals)) \in Nat /\ Cardinality(Pending(y.originals)) \in Nat
  <2>1. x.used \in Int /\ Cardinality(Pending(x.originals)) \in Nat
    BY SumTypes DEF Ledgered
  <2>2. QED
    BY <1>7, <2>1, SumTypes
<1>9. Tally(plan, "new", n - 1) + Extra(p) - Tally(plan, "expire", n - 1)
        = Tally(plan, "new", n) - Tally(plan, "expire", n)
  <2>1. PICK a \in Int, b \in Int : a = Tally(plan, "new", n - 1) /\ b = Tally(plan, "expire", n - 1)
    BY TallyNext
  <2>2. /\ Tally(plan, "new", n) = a + (IF p = "new" THEN 1 ELSE 0)
        /\ Tally(plan, "expire", n) = b + (IF p = "expire" THEN 1 ELSE 0)
    BY <2>1, TallyNext DEF p
  <2>3. QED
    BY <2>1, <2>2 DEF Extra
<1>10. Cardinality(Pending(y.originals)) <= m + Tally(plan, "new", n) - Tally(plan, "expire", n)
  <2>1. /\ Tally(plan, "new", n - 1) \in Int /\ Tally(plan, "expire", n - 1) \in Int
        /\ Tally(plan, "new", n) \in Int /\ Tally(plan, "expire", n) \in Int /\ Extra(p) \in Int
    BY TallyNext DEF Extra
  <2>2. Cardinality(Pending(x.originals)) <= m + Tally(plan, "new", n - 1) - Tally(plan, "expire", n - 1)
    BY DEF Ledgered
  <2>3. QED
    BY <1>7, <1>8, <1>9, <2>1, <2>2
<1>11. y.used <= T
  BY <1>7, <1>8 DEF Ledgered
<1>12. QED
  BY <1>7, <1>10, <1>11 DEF Ledgered, R

\* All of a group was planned, and reserved for.
Reserved(k, fragments, plan, reserved, first) ==
    /\ plan = Planned(k, fragments) /\ Refused(plan) = {}
    /\ reserved = ReserveSteps(k.used, fragments, plan) /\ reserved[Len(fragments)].ok
    /\ first = [k EXCEPT !.used = reserved[Len(fragments)].used]

LEMMA ReservedFacts ==
    ASSUME NEW k, k.used \in Int, k.used <= Credit, NEW fragments \in Seq(Fragments), NEW plan, NEW reserved, NEW first,
           Reserved(k, fragments, plan, reserved, first)
    PROVE  /\ reserved[0].used = k.used /\ reserved[Len(fragments)].used \in Int
           /\ reserved[Len(fragments)].used <= Credit
           /\ \A n \in 0..Len(fragments) : reserved[n].used \in Int
           /\ \A n \in 1..Len(fragments) :
                 reserved[n].used = reserved[n - 1].used + Cost(plan[n], fragments[n])
<1> DEFINE r == ReserveSteps(k.used, fragments, plan)
           N == Len(fragments)
<1>1. /\ r[0].used = k.used /\ r[N].used \in Int /\ r[N].used <= Credit
      /\ \A n \in 0..N : r[n].used \in Int
      /\ r[N].ok => \A n \in 1..N : r[n].used = r[n - 1].used + Cost(plan[n], fragments[n])
  BY ReserveExact
<1> HIDE DEF r
<1>2. r = reserved /\ r[N].ok
  BY DEF Reserved, r
<1>3. QED
  BY <1>1, <1>2

\* A group is committed: what was reserved for its new Datagrams is theirs.
LEMMA CommitExact ==
    ASSUME NEW F, NEW k, Sane(k, F), NEW fragments, Ascending(fragments),
           NEW S, Known(S, F), Account(k, S, 0), k.used <= Credit,
           NEW plan, NEW reserved, NEW first, Reserved(k, fragments, plan, reserved, first)
    PROVE  LET x == CommitSteps(first, fragments, plan)[Len(fragments)]
           IN  /\ Account(x, S, 0) /\ x.used <= Credit /\ Sane(x, F)
               /\ Cardinality(Pending(x.originals))
                    <= Cardinality(Pending(k.originals)) + Tally(plan, "new", Len(fragments))
                         - Tally(plan, "expire", Len(fragments))
<1> DEFINE N == Len(fragments)
           after == CommitSteps(first, fragments, plan)
           T == reserved[N].used
           m == Cardinality(Pending(k.originals))
           A == {n \in 0..N : Ledgered(after[n], S, T, reserved[n].used, m, plan, n)}
<1>1. /\ fragments \in Seq(Fragments) /\ N \in Nat /\ DOMAIN fragments = 1..N
      /\ \A n \in 1..N : Canonical(fragments[n])
  BY DEF Ascending
<1>2. k.used \in Int /\ m \in Nat /\ LeaseSum(k.groups) \in Nat /\ ChargeSum(k.originals) \in Nat
      /\ HeldSum(Reader(k, S)) \in Nat
  BY SumTypes
<1>3. /\ reserved[0].used = k.used /\ T \in Int /\ T <= Credit
      /\ \A n \in 0..N : reserved[n].used \in Int
      /\ \A n \in 1..N : reserved[n].used = reserved[n - 1].used + Cost(plan[n], fragments[n])
  BY <1>1, <1>2, ReservedFacts
<1>4. /\ plan = [i \in DOMAIN fragments |-> Plan(k, fragments[i])]
      /\ \A n \in 1..N : plan[n] = Plan(k, fragments[n]) /\ plan[n] \notin {"invalid", "full"}
  BY <1>1 DEF Planned, Refused, Reserved
<1>5. /\ Sane(first, F) /\ Aside(k, first) /\ first.originals = k.originals /\ first.out = k.out /\ first.used = T
      /\ \A f : Plan(first, f) = Plan(k, f)
  <2>1. Sane(first, F) /\ Aside(k, first) /\ \A f : Plan(first, f) = Plan(k, f)
    BY <1>3, UsedSane DEF Reserved
  <2>2. k \in Receivers
    BY SaneParts
  <2>3. first.originals = k.originals /\ first.out = k.out /\ first.used = T
    BY <2>2 DEF Receivers, Reserved
  <2>4. QED
    BY <2>1, <2>3
<1>6. Committed(k, first, 0, F, fragments)
  BY <1>1, <1>5 DEF Committed, Aside
<1>7. /\ after[0] = first
      /\ \A n \in 1..N : after[n] = Commit(after[n - 1], fragments[n], plan[n])
      /\ \A n \in 0..N : Committed(k, after[n], n, F, fragments)
  <2>1. \A i \in DOMAIN fragments : plan[i] \notin {"invalid", "full"}
    BY <1>1, <1>4
  <2>2. plan = [i \in DOMAIN fragments |-> Plan(k, fragments[i])]
    BY <1>4
  <2>3. QED
    BY <1>6, <2>1, <2>2, CommitRuns
<1> HIDE DEF after, N, T, m
<1>8. 0 \in A
  <2>1. first.groups = k.groups /\ Reader(first, S) = Reader(k, S)
    BY <1>5 DEF Aside, Reader
  <2>2. k.used = LeaseSum(k.groups) + ChargeSum(k.originals) + HeldSum(Reader(k, S)) + 0
    BY DEF Account
  <2>3. T = LeaseSum(k.groups) + ChargeSum(k.originals) + HeldSum(Reader(k, S)) + (T - k.used)
    BY <1>2, <1>3, <2>2
  <2>4. Account(first, S, T - k.used)
    <3>1. Reader(first, S) \subseteq Holdings /\ IsFiniteSet(Reader(first, S)) /\ T - k.used \in Int
      BY <1>2, <1>3, <2>1 DEF Account
    <3>2. first.used = LeaseSum(first.groups) + ChargeSum(first.originals) + HeldSum(Reader(first, S)) + (T - k.used)
      BY <1>5, <2>1, <2>3
    <3>3. QED
      BY <3>1, <3>2 DEF Account
  <2>5. Cardinality(Pending(first.originals)) <= m + Tally(plan, "new", 0) - Tally(plan, "expire", 0)
    <3>1. Tally(plan, "new", 0) = 0 /\ Tally(plan, "expire", 0) = 0
      BY TallyNone
    <3>2. Cardinality(Pending(first.originals)) = m
      BY <1>5 DEF m
    <3>3. QED
      BY <1>2, <3>1, <3>2
  <2>6. Ledgered(first, S, T, reserved[0].used, m, plan, 0)
    BY <1>3, <1>5, <2>4, <2>5 DEF Ledgered
  <2>7. QED
    BY <1>1, <1>7, <2>6
<1>9. ASSUME NEW n \in 1..N, n - 1 \in A PROVE n \in A
  <2> DEFINE x == after[n - 1]
             y == after[n]
             f == fragments[n]
             t == reserved[n - 1].used
             u == reserved[n].used
  <2>1. n - 1 \in 0..N /\ n \in Nat \ {0} /\ n \in 0..N
    BY <1>1
  <2>2. Committed(k, x, n - 1, F, fragments) /\ Committed(k, y, n, F, fragments)
    BY <1>7, <2>1
  <2>3. Sane(x, F) /\ Sane(y, F) /\ Canonical(f)
    BY <1>1, <2>2 DEF Committed
  <2>4. plan[n] = Plan(x, f) /\ plan[n] \notin {"invalid", "full"}
    <3>1. Plan(x, f) = Plan(k, f)
      BY <1>1, <2>1, <2>2 DEF Committed
    <3>2. QED
      BY <1>4, <3>1
  <2>5. t \in Int /\ u \in Int /\ u = t + Cost(plan[n], f)
    BY <1>3, <2>1
  <2>6. Ledgered(x, S, T, t, m, plan, n - 1) /\ y = Commit(x, f, plan[n])
    BY <1>7, <1>9
  <2> HIDE DEF x, y, f, t, u
  <2>7. Ledgered(y, S, T, u, m, plan, n)
    BY <1>2, <1>3, <2>1, <2>3, <2>4, <2>5, <2>6, LedgeredNext
  <2>8. QED
    BY <2>1, <2>7 DEF y, u
<1>10. N \in A
  <2> HIDE DEF A
  <2>1. \A n \in 0..N : n \in A
    BY <1>1, <1>8, <1>9, Induction
  <2>2. QED
    BY <1>1, <2>1
<1>11. Ledgered(after[N], S, T, T, m, plan, N)
  BY <1>10 DEF T
<1>12. Account(after[N], S, 0) /\ after[N].used <= T
       /\ Cardinality(Pending(after[N].originals)) <= m + Tally(plan, "new", N) - Tally(plan, "expire", N)
  <2>1. T - T = 0
    BY <1>3
  <2>2. QED
    BY <1>11, <2>1 DEF Ledgered
<1>13. Sane(after[N], F)
  BY <1>1, <1>7 DEF Committed
<1>14. after[N].used <= Credit
  <2>1. after[N].used \in Int
    BY <1>12, <1>13, SumTypes
  <2>2. QED
    BY <1>3, <1>12, <2>1, LinkChargeType
<1>15. QED
  BY <1>12, <1>13, <1>14 DEF after, N, m

\* The groups that were decoded and wait for their Datagrams.
DecodedIds(list) == {id \in Pending(list) : list.map[id].decoded}

\* Every pending group pays for what it is, and the decoded ones are counted.
GroupBooks(k) ==
    /\ \A id \in Pending(k.groups) :
          k.groups.map[id].lease = IF k.groups.map[id].decoded THEN DecodedCharge ELSE GroupCharge
    /\ k.decodedGroups = Cardinality(DecodedIds(k.groups))
    /\ Cardinality(Pending(k.groups)) <= MaxPendingGroups

\* All credit is that of a group, of a Datagram being reassembled or of the reader.
Books(k, S) ==
    /\ Account(k, S, 0) /\ GroupBooks(k) /\ k.used <= Credit
    /\ Cardinality(Pending(k.originals)) <= MaxDatagrams

LEMMA GroupBooksSame ==
    ASSUME NEW k, NEW n, GroupBooks(k), n.groups = k.groups, n.decodedGroups = k.decodedGroups
    PROVE  GroupBooks(n)
  BY DEF GroupBooks

LEMMA BooksSame ==
    ASSUME NEW k, NEW S, Books(k, S), NEW n, n.groups = k.groups, n.decodedGroups = k.decodedGroups,
           n.originals = k.originals, n.out = k.out, n.used = k.used
    PROVE  Books(n, S)
<1>1. GroupBooks(n)
  BY GroupBooksSame DEF Books
<1>2. Reader(n, S) = Reader(k, S)
  BY DEF Reader
<1>3. Account(n, S, 0)
  BY <1>2 DEF Account, Books
<1>4. QED
  BY <1>1, <1>3 DEF Books

\* An admission, whether it succeeds, fails at once or fails half way.
LEMMA AddBooks ==
    ASSUME NEW F, NEW k, Sane(k, F), NEW fragments, Ascending(fragments), NEW S, Known(S, F), Books(k, S)
    PROVE  Books(AddGroup(k, fragments).k, S)
<1> DEFINE a == AddGroup(k, fragments)
           N == Len(fragments)
           plan == Planned(k, fragments)
           all == ReserveSteps(k.used, fragments, plan)
           reserved == all[N]
           start == [k EXCEPT !.used = reserved.used]
<1>1. fragments \in Seq(Fragments) /\ N \in Nat /\ DOMAIN fragments = 1..N
  BY DEF Ascending
<1>2. /\ Account(k, S, 0) /\ k.used <= Credit /\ GroupBooks(k)
      /\ Cardinality(Pending(k.originals)) <= MaxDatagrams
  BY DEF Books
<1>3. k.used \in Int /\ IsFiniteSet(Pending(k.originals)) /\ Cardinality(Pending(k.originals)) \in Nat
  BY <1>2, SumTypes
<1>4. \/ a.k = k
      \/ a.k = [k EXCEPT !.used = RolledBack(reserved)]
      \/ /\ Refused(plan) = {} /\ reserved.ok
         /\ Cardinality(Pending(k.originals)) + Cardinality({i \in DOMAIN plan : plan[i] = "new"})
              - Cardinality({i \in DOMAIN plan : plan[i] = "expire"}) <= MaxDatagrams
         /\ a.k = CommitSteps(start, fragments, plan)[N]
  BY <1>1, <1>3, AddCases, Zenon
<1>5. DOMAIN plan = 1..N
  BY <1>1 DEF Planned
<1>6. Aside(k, a.k)
  BY AddStep
<1>7. k \in Receivers
  BY SaneParts
<1>8. CASE a.k = k
  BY <1>8
<1>9. CASE a.k = [k EXCEPT !.used = RolledBack(reserved)]
  <2> HIDE DEF plan
  <2>1. RolledBack(reserved) = k.used
    BY <1>1, <1>2, <1>3, ReserveExact
  <2> HIDE DEF reserved
  <2>2. /\ a.k.groups = k.groups /\ a.k.decodedGroups = k.decodedGroups
        /\ a.k.originals = k.originals /\ a.k.out = k.out /\ a.k.used = k.used
    BY <1>7, <1>9, <2>1 DEF Receivers
  <2> HIDE DEF a
  <2>3. Books(a.k, S)
    BY <2>2, BooksSame
  <2>4. QED
    BY <2>3 DEF a
<1>10. CASE /\ Refused(plan) = {} /\ reserved.ok
            /\ Cardinality(Pending(k.originals)) + Cardinality({i \in DOMAIN plan : plan[i] = "new"})
                 - Cardinality({i \in DOMAIN plan : plan[i] = "expire"}) <= MaxDatagrams
            /\ a.k = CommitSteps(start, fragments, plan)[N]
  <2> DEFINE x == CommitSteps(start, fragments, plan)[N]
  <2>1. Reserved(k, fragments, plan, all, start)
    BY <1>10 DEF Reserved
  <2>2. Cardinality(Pending(k.originals)) + Tally(plan, "new", N) - Tally(plan, "expire", N) <= MaxDatagrams
    <3> HIDE DEF plan, N
    <3>1. QED
      BY <1>5, <1>10 DEF Tally
  <2>3. GroupBooks(a.k)
    BY <1>2, <1>6, GroupBooksSame DEF Aside
  <2>4. x = a.k
    BY <1>10
  <2> HIDE DEF plan, all, start, a
  <2>5. /\ Account(x, S, 0) /\ x.used <= Credit /\ Sane(x, F)
        /\ Cardinality(Pending(x.originals))
             <= Cardinality(Pending(k.originals)) + Tally(plan, "new", N) - Tally(plan, "expire", N)
    BY <1>2, <2>1, CommitExact
  <2> HIDE DEF x
  <2>6. Cardinality(Pending(x.originals)) <= MaxDatagrams
    <3>1. Cardinality(Pending(x.originals)) \in Nat
      BY <2>5, SumTypes
    <3>2. Tally(plan, "new", N) \in Nat /\ Tally(plan, "expire", N) \in Nat
      <4>1. CASE N = 0
        BY <4>1, TallyNone
      <4>2. CASE N # 0
        BY <1>1, <4>2, TallyNext
      <4>3. QED
        BY <4>1, <4>2
    <3>3. MaxDatagrams \in Int
      BY LimitsAssumption
    <3>4. QED
      BY <1>3, <2>2, <2>5, <3>1, <3>2, <3>3
  <2>7. QED
    BY <2>3, <2>4, <2>5, <2>6 DEF Books, a
<1>11. QED
  BY <1>4, <1>8, <1>9, <1>10

\* Sets of decoded groups are finite.
LEMMA DecodedFinite ==
    ASSUME NEW F, NEW k, Sane(k, F)
    PROVE  IsFiniteSet(DecodedIds(k.groups)) /\ Cardinality(DecodedIds(k.groups)) \in Nat
<1>1. IsFiniteSet(Pending(k.groups)) /\ DecodedIds(k.groups) \subseteq Pending(k.groups)
  BY HeadOf DEF DecodedIds
<1>2. QED
  BY <1>1, FS_Subset, FS_CardinalityType

\* A group ends: its credit goes back.
Freed(k, n, id) ==
    /\ n.groups = Unlink(k.groups, id) /\ n.originals = k.originals /\ n.out = k.out
    /\ n.used = k.used - k.groups.map[id].lease
    /\ n.decodedGroups = IF k.groups.map[id].decoded THEN k.decodedGroups - 1 ELSE k.decodedGroups

LEMMA FreedBooks ==
    ASSUME NEW F, NEW k, Sane(k, F), NEW id \in Pending(k.groups), NEW S, Books(k, S), NEW n, Freed(k, n, id)
    PROVE  Books(n, S)
<1>1. /\ Account(k, S, 0) /\ k.used <= Credit /\ GroupBooks(k)
      /\ Cardinality(Pending(k.originals)) <= MaxDatagrams
  BY DEF Books
<1>2. /\ LeaseSum(k.groups) \in Nat /\ ChargeSum(k.originals) \in Nat /\ HeldSum(Reader(k, S)) \in Nat
      /\ k.used \in Int
  BY <1>1, SumTypes
<1>3. k.groups \in Lists(GroupEntries) /\ Chained(k.groups)
  BY SaneParts
<1>4. /\ n.groups = Unlink(k.groups, id) /\ n.originals = k.originals /\ n.out = k.out
      /\ n.used = k.used - k.groups.map[id].lease
      /\ n.decodedGroups = IF k.groups.map[id].decoded THEN k.decodedGroups - 1 ELSE k.decodedGroups
  BY DEF Freed
<1>5. /\ LeaseSum(k.groups) = LeaseSum(n.groups) + k.groups.map[id].lease
      /\ LeaseSum(n.groups) \in Nat /\ k.groups.map[id].lease \in Nat
      /\ Cardinality(Pending(k.groups)) = Cardinality(Pending(n.groups)) + 1
      /\ Cardinality(Pending(n.groups)) \in Nat
  BY <1>3, <1>4, LeaseUnlink
<1>6. /\ Pending(n.groups) = Pending(k.groups) \ {id}
      /\ \A x \in Pending(k.groups) \ {id} : n.groups.map[x] = k.groups.map[x]
  BY <1>3, <1>4, UnlinkFacts, EntryTypes
<1>7. Account(n, S, 0)
  <2>1. Reader(n, S) = Reader(k, S)
    BY <1>4 DEF Reader
  <2>2. k.used = LeaseSum(k.groups) + ChargeSum(k.originals) + HeldSum(Reader(k, S)) + 0
    BY <1>1 DEF Account
  <2>3. n.used = LeaseSum(n.groups) + ChargeSum(k.originals) + HeldSum(Reader(k, S)) + 0
    BY <1>2, <1>4, <1>5, <2>2
  <2>4. Reader(n, S) \subseteq Holdings /\ IsFiniteSet(Reader(n, S)) /\ 0 \in Int
    BY <1>1, <2>1 DEF Account
  <2>5. QED
    BY <1>4, <2>1, <2>3, <2>4 DEF Account
<1>8. n.used <= Credit
  BY <1>1, <1>2, <1>4, <1>5, LinkChargeType
<1>9. GroupBooks(n)
  <2>1. \A x \in Pending(n.groups) :
           n.groups.map[x].lease = IF n.groups.map[x].decoded THEN DecodedCharge ELSE GroupCharge
    BY <1>1, <1>6 DEF GroupBooks
  <2>2. Cardinality(Pending(n.groups)) <= MaxPendingGroups
    <3>1. MaxPendingGroups \in Int
      BY LimitsAssumption
    <3>2. QED
      BY <1>1, <1>5, <3>1 DEF GroupBooks
  <2>3. n.decodedGroups = Cardinality(DecodedIds(n.groups))
    <3> DEFINE A == DecodedIds(k.groups)
               B == DecodedIds(n.groups)
    <3>1. k.decodedGroups = Cardinality(A)
      BY <1>1 DEF GroupBooks
    <3>2. B = A \ {id} /\ (id \in A <=> k.groups.map[id].decoded)
      BY <1>6 DEF DecodedIds
    <3>3. IsFiniteSet(A) /\ Cardinality(A) \in Nat
      BY DecodedFinite
    <3> HIDE DEF A, B
    <3>4. Cardinality(B) = IF id \in A THEN Cardinality(A) - 1 ELSE Cardinality(A)
      BY <3>2, <3>3, FS_RemoveElement
    <3>5. QED
      BY <1>4, <3>1, <3>2, <3>4 DEF B
  <2>4. QED
    BY <2>1, <2>2, <2>3 DEF GroupBooks
<1>10. QED
  BY <1>1, <1>4, <1>7, <1>8, <1>9 DEF Books

LEMMA EndedBooks ==
    ASSUME NEW F, NEW k, Sane(k, F), NEW id \in Pending(k.groups), NEW S, Books(k, S)
    PROVE  /\ Books(ReleaseGroup(k, id), S)
           /\ \A t \in {"completed", "expired"} : Books(Ended(k, id, t), S)
           /\ Books(ExpireGroup(k, id), S)
<1>1. Freed(k, ReleaseGroup(k, id), id)
  BY ReleaseFields DEF Freed
<1>2. Books(ReleaseGroup(k, id), S)
  BY <1>1, FreedBooks
<1>3. ASSUME NEW t \in {"completed", "expired"} PROVE Books(Ended(k, id, t), S)
  <2>1. Freed(k, Ended(k, id, t), id)
    BY EndedFields DEF Freed
  <2>2. QED
    BY <2>1, FreedBooks
<1>4. ExpireGroup(k, id) = Ended(k, id, "expired")
  BY DEF ExpireGroup, Ended
<1>5. QED
  BY <1>2, <1>3, <1>4

\* A group has another entry: one shard more, or its fragments.
LEMMA EnteredBooks ==
    ASSUME NEW F, NEW k, Sane(k, F), NEW id \in Pending(k.groups), NEW S, Books(k, S),
           NEW entry \in GroupEntries, entry.age = k.groups.map[id].age, entry.decoded => Decodes(id),
           NEW d \in Int, NEW u \in Int, u = k.used - k.groups.map[id].lease + entry.lease, u <= Credit,
           d = k.decodedGroups + (IF entry.decoded /\ ~k.groups.map[id].decoded THEN 1 ELSE 0),
           k.groups.map[id].decoded => entry.decoded,
           entry.lease = IF entry.decoded THEN DecodedCharge ELSE GroupCharge
    PROVE  Books(Entered(k, id, entry, d, u), S)
<1> DEFINE n == Entered(k, id, entry, d, u)
           old == k.groups.map[id]
<1>1. /\ Account(k, S, 0) /\ k.used <= Credit /\ GroupBooks(k)
      /\ Cardinality(Pending(k.originals)) <= MaxDatagrams
  BY DEF Books
<1>2. /\ LeaseSum(k.groups) \in Nat /\ ChargeSum(k.originals) \in Nat /\ HeldSum(Reader(k, S)) \in Nat
      /\ k.used \in Int /\ IsFiniteSet(Pending(k.groups))
  BY <1>1, SumTypes
<1>3. k.groups \in Lists(GroupEntries) /\ Chained(k.groups)
  BY SaneParts
<1>4. /\ Sane(n, F) /\ n.groups = Put(k.groups, id, entry) /\ n.decodedGroups = d /\ n.used = u
      /\ n.originals = k.originals /\ n.out = k.out
  BY EnteredStep
<1>5. /\ n.groups \in Lists(GroupEntries) /\ Pending(n.groups) = Pending(k.groups) /\ n.groups.map[id] = entry
      /\ \A x \in Pending(k.groups) \ {id} : n.groups.map[x] = k.groups.map[x]
  <2>1. Sane(n, F) /\ Changed(k, n, id, entry)
    BY EnteredStep
  <2> HIDE DEF n
  <2>2. QED
    BY <2>1, SaneParts DEF Changed
<1>6. entry.lease \in Nat /\ old.lease \in Nat /\ entry.decoded \in BOOLEAN /\ old.decoded \in BOOLEAN
  <2>1. old \in GroupEntries
    BY SaneParts
  <2> HIDE DEF old
  <2>2. QED
    BY <2>1 DEF GroupEntries
<1> HIDE DEF n
<1>7. /\ LeaseSum(n.groups) = LeaseSum(k.groups) - old.lease + entry.lease
      /\ LeaseSum(n.groups) \in Nat
  <2>1. \A x \in Pending(k.groups) \ {id} : n.groups.map[x].lease = k.groups.map[x].lease
    BY <1>5
  <2>2. QED
    BY <1>2, <1>3, <1>5, <2>1, LeasePut
<1>8. Account(n, S, 0)
  <2>1. Reader(n, S) = Reader(k, S)
    BY <1>4 DEF Reader
  <2>2. k.used = LeaseSum(k.groups) + ChargeSum(k.originals) + HeldSum(Reader(k, S)) + 0
    BY <1>1 DEF Account
  <2>3. n.used = LeaseSum(n.groups) + ChargeSum(k.originals) + HeldSum(Reader(k, S)) + 0
    <3>1. PICK l \in Int, c \in Int, h \in Int, o \in Int, e \in Int :
            /\ l = LeaseSum(k.groups) /\ c = ChargeSum(k.originals) /\ h = HeldSum(Reader(k, S))
            /\ o = old.lease /\ e = entry.lease
      BY <1>2, <1>6
    <3>2. n.used = l + c + h + 0 - o + e /\ LeaseSum(n.groups) = l - o + e
      BY <1>4, <1>7, <2>2, <3>1
    <3>3. QED
      BY <3>1, <3>2
  <2>4. Reader(n, S) \subseteq Holdings /\ IsFiniteSet(Reader(n, S)) /\ 0 \in Int
    BY <1>1, <2>1 DEF Account
  <2>5. QED
    BY <1>4, <2>1, <2>3, <2>4 DEF Account
<1>9. GroupBooks(n)
  <2>1. \A x \in Pending(n.groups) :
           n.groups.map[x].lease = IF n.groups.map[x].decoded THEN DecodedCharge ELSE GroupCharge
    BY <1>1, <1>5 DEF GroupBooks
  <2>2. Cardinality(Pending(n.groups)) <= MaxPendingGroups
    BY <1>1, <1>5 DEF GroupBooks
  <2>3. n.decodedGroups = Cardinality(DecodedIds(n.groups))
    <3> DEFINE A == DecodedIds(k.groups)
               B == DecodedIds(n.groups)
    <3>1. k.decodedGroups = Cardinality(A)
      BY <1>1 DEF GroupBooks
    <3>2. B = (IF entry.decoded THEN A \cup {id} ELSE A) /\ (id \in A <=> old.decoded)
      BY <1>5, <1>6 DEF DecodedIds
    <3>3. IsFiniteSet(A) /\ Cardinality(A) \in Nat
      BY DecodedFinite
    <3> HIDE DEF A, B
    <3>4. Cardinality(A \cup {id}) = IF id \in A THEN Cardinality(A) ELSE Cardinality(A) + 1
      BY <3>3, FS_AddElement
    <3>5. QED
      BY <1>4, <1>6, <3>1, <3>2, <3>3, <3>4 DEF B
  <2>4. QED
    BY <2>1, <2>2, <2>3 DEF GroupBooks
<1>10. QED
  BY <1>1, <1>4, <1>8, <1>9 DEF Books, n

\* A group begins with the credit that was there for it.
LEMMA NewGroupBooks ==
    ASSUME NEW F, NEW k, Sane(k, F), NEW id \in GroupIDs, id \notin Pending(k.groups),
           State(k.groupWindow, id) = "unseen", CanReserveGroup(k), NEW S, Books(k, S)
    PROVE  Books(NewGroup(k, id), S)
<1> DEFINE n == NewGroup(k, id)
<1>1. /\ Account(k, S, 0) /\ k.used <= Credit /\ GroupBooks(k)
      /\ Cardinality(Pending(k.originals)) <= MaxDatagrams
  BY DEF Books
<1>2. /\ LeaseSum(k.groups) \in Nat /\ ChargeSum(k.originals) \in Nat /\ HeldSum(Reader(k, S)) \in Nat
      /\ k.used \in Int /\ IsFiniteSet(Pending(k.groups)) /\ Cardinality(Pending(k.groups)) \in Nat
  BY <1>1, SumTypes
<1>3. k.groups \in Lists(GroupEntries) /\ Chained(k.groups)
  BY SaneParts
<1>4. /\ Sane(n, F) /\ Joined(k, n, id, FreshEntry) /\ n.decodedGroups = k.decodedGroups
      /\ n.used = k.used + GroupCharge /\ n.originals = k.originals /\ n.out = k.out
  BY NewGroupStep
<1> HIDE DEF n
<1>5. /\ n.groups \in Lists(GroupEntries) /\ Pending(n.groups) = Pending(k.groups) \cup {id}
      /\ n.groups.map[id] = FreshEntry
      /\ \A x \in Pending(k.groups) : n.groups.map[x] = k.groups.map[x]
  BY <1>4, SaneParts DEF Joined
<1>6. FreshEntry.lease = GroupCharge /\ FreshEntry.decoded = FALSE
  BY DEF FreshEntry
<1>7. /\ LeaseSum(n.groups) = LeaseSum(k.groups) + n.groups.map[id].lease
      /\ LeaseSum(n.groups) \in Nat
      /\ Cardinality(Pending(n.groups)) = Cardinality(Pending(k.groups)) + 1
  BY <1>2, <1>3, <1>5, LeaseLink
<1>8. Account(n, S, 0)
  <2>1. Reader(n, S) = Reader(k, S)
    BY <1>4 DEF Reader
  <2>2. k.used = LeaseSum(k.groups) + ChargeSum(k.originals) + HeldSum(Reader(k, S)) + 0
    BY <1>1 DEF Account
  <2>3. n.used = LeaseSum(n.groups) + ChargeSum(k.originals) + HeldSum(Reader(k, S)) + 0
    BY <1>2, <1>4, <1>5, <1>6, <1>7, <2>2, LinkChargeType
  <2>4. Reader(n, S) \subseteq Holdings /\ IsFiniteSet(Reader(n, S)) /\ 0 \in Int
    BY <1>1, <2>1 DEF Account
  <2>5. QED
    BY <1>4, <2>1, <2>3, <2>4 DEF Account
<1>9. GroupBooks(n)
  <2>1. \A x \in Pending(n.groups) :
           n.groups.map[x].lease = IF n.groups.map[x].decoded THEN DecodedCharge ELSE GroupCharge
    BY <1>1, <1>5, <1>6 DEF GroupBooks
  <2>2. Cardinality(Pending(n.groups)) <= MaxPendingGroups
    <3>1. MaxPendingGroups \in Int
      BY LimitsAssumption
    <3>2. QED
      BY <1>2, <1>7, <3>1 DEF CanReserveGroup
  <2>3. n.decodedGroups = Cardinality(DecodedIds(n.groups))
    <3>1. DecodedIds(n.groups) = DecodedIds(k.groups)
      BY <1>5, <1>6 DEF DecodedIds
    <3>2. QED
      BY <1>1, <1>4, <3>1 DEF GroupBooks
  <2>4. QED
    BY <2>1, <2>2, <2>3 DEF GroupBooks
<1>10. n.used <= Credit
  BY <1>4 DEF CanReserveGroup
<1>11. QED
  BY <1>1, <1>4, <1>8, <1>9, <1>10 DEF Books, n

LEMMA AdmitBooks ==
    ASSUME NEW F, NEW k, Sane(k, F), NEW id \in Pending(k.groups), Decodes(id), NEW S, Known(S, F), Books(k, S)
    PROVE  Books(AdmitOriginals(k, id).k, S)
<1> DEFINE a == AddGroup(k, Sent(id))
           r == AdmitOriginals(k, id)
<1>1. scenario \in Scenarios /\ id \in GroupIDs
  BY GroupEndTypes, SaneParts
<1>2. Ascending(Sent(id))
  BY <1>1, DecodedAscends
<1>3. Sane(a.k, F) /\ Aside(k, a.k) /\ a.err \in {"none", "full", "invalid"}
  BY <1>2, AddStep
<1>4. Books(a.k, S)
  BY <1>2, AddBooks
<1>5. r = CASE a.err = "full" -> [k |-> [a.k EXCEPT !.retryWait = TRUE], err |-> "none"]
            [] a.err = "invalid" -> [k |-> ExpireGroup(a.k, id), err |-> "invalid"]
            [] OTHER -> [k |-> Ended(a.k, id, "completed"), err |-> "none"]
  BY DEF AdmitOriginals, Ended
<1> HIDE DEF a, r
<1>6. id \in Pending(a.k.groups)
  BY <1>3 DEF Aside
<1>7. CASE a.err = "full"
  <2> DEFINE m == a.k
             n == [m EXCEPT !.retryWait = TRUE]
  <2>1. r.k = n
    BY <1>5, <1>7
  <2>2. m \in Receivers
    BY <1>3, SaneParts
  <2> HIDE DEF m
  <2>3. n.groups = m.groups /\ n.decodedGroups = m.decodedGroups
        /\ n.originals = m.originals /\ n.out = m.out /\ n.used = m.used
    BY <2>2 DEF Receivers
  <2> HIDE DEF n
  <2>4. Books(n, S)
    BY <1>4, <2>3, BooksSame DEF m
  <2>5. QED
    BY <2>1, <2>4 DEF r
<1>8. CASE a.err = "invalid"
  <2>1. r.k = ExpireGroup(a.k, id)
    BY <1>5, <1>8
  <2>2. QED
    BY <1>3, <1>4, <1>6, <2>1, EndedBooks DEF r
<1>9. CASE a.err = "none"
  <2>1. r.k = Ended(a.k, id, "completed")
    BY <1>5, <1>9
  <2>2. QED
    BY <1>3, <1>4, <1>6, <2>1, EndedBooks DEF r
<1>10. QED
  BY <1>3, <1>7, <1>8, <1>9

\* A group is decoded and needs less credit.
LEMMA DecodedBooks ==
    ASSUME NEW F, NEW k, Sane(k, F), NEW id \in Pending(k.groups), Decodes(id), ~k.groups.map[id].decoded,
           NEW S, Books(k, S)
    PROVE  Books(DecodedState(k, id), S)
<1> DEFINE e == DecodedEntry(k, id)
           d == k.decodedGroups + 1
           u == k.used - GroupCharge + DecodedCharge
<1>1. /\ e \in GroupEntries /\ e.age = k.groups.map[id].age /\ e.decoded /\ e.lease = DecodedCharge
  BY DecodedFacts
<1>2. d \in Int /\ u \in Int /\ k.used \in Int
  BY SaneParts, LinkChargeType
<1>3. k.groups.map[id].lease = GroupCharge
  BY DEF Books, GroupBooks
<1>4. DecodedCharge <= GroupCharge
  BY LimitsAssumption
<1>5. u <= Credit
  BY <1>2, <1>4, LinkChargeType DEF Books
<1>6. DecodedState(k, id) = Entered(k, id, e, d, u)
  BY DEF DecodedState
<1> HIDE DEF e
<1>7. /\ e.lease = IF e.decoded THEN DecodedCharge ELSE GroupCharge
      /\ d = k.decodedGroups + (IF e.decoded /\ ~k.groups.map[id].decoded THEN 1 ELSE 0)
      /\ u = k.used - k.groups.map[id].lease + e.lease
      /\ k.groups.map[id].decoded => e.decoded
  BY <1>1, <1>3
<1> HIDE DEF d, u
<1>8. Books(Entered(k, id, e, d, u), S)
  BY <1>1, <1>2, <1>5, <1>7, EnteredBooks
<1>9. QED
  BY <1>6, <1>8

LEMMA DecodeBooks ==
    ASSUME NEW F, NEW k, Sane(k, F), NEW id \in Pending(k.groups), ~k.groups.map[id].decoded,
           NEW S, Known(S, F), Books(k, S)
    PROVE  Books(Decode(k, id).k, S)
<1>1. CASE ~Decodes(id)
  <2>1. Decode(k, id).k = ExpireGroup(k, id)
    BY <1>1 DEF Decode
  <2>2. QED
    BY <2>1, EndedBooks
<1>2. CASE Decodes(id)
  <2> DEFINE m == DecodedState(k, id)
  <2>1. Sane(m, F) /\ id \in Pending(m.groups)
    BY <1>2, DecodedStateStep
  <2>2. Decode(k, id) = AdmitOriginals(m, id)
    BY <1>2, DecodeIs
  <2>3. Books(m, S)
    BY <1>2, DecodedBooks
  <2> HIDE DEF m
  <2>4. QED
    BY <1>2, <2>1, <2>2, <2>3, AdmitBooks
<1>3. QED
  BY <1>1, <1>2

LEMMA GrownBooks ==
    ASSUME NEW F, NEW k, Sane(k, F), NEW r \in Records, r.id \in Pending(k.groups), NEW S, Books(k, S)
    PROVE  /\ Books(GrownState(k, r), S)
           /\ GrownState(k, r).groups.map[r.id].decoded = k.groups.map[r.id].decoded
<1> DEFINE g == k.groups.map[r.id]
           e == GrownEntry(k, r)
           d == k.decodedGroups
           u == k.used
<1>1. e \in GroupEntries /\ e.age = g.age /\ e.decoded = g.decoded /\ e.lease = g.lease
  <2>1. g \in GroupEntries /\ scenario \in Scenarios
    BY SaneParts
  <2>2. r.shard \in Nat
    BY <2>1, ScenariosAssumption DEF Records, Shards
  <2>3. QED
    BY <2>1, <2>2 DEF GrownEntry, GroupEntries
<1>2. d \in Int /\ u \in Int /\ g \in GroupEntries
  BY SaneParts
<1>3. g.lease \in Nat /\ g.decoded \in BOOLEAN
  BY <1>2 DEF GroupEntries
<1>4. g.lease = IF g.decoded THEN DecodedCharge ELSE GroupCharge
  BY DEF Books, GroupBooks
<1>5. u <= Credit
  BY DEF Books
<1>6. g.decoded => Decodes(r.id)
  BY DEF Sane, GroupsSane
<1>7. GrownState(k, r) = Entered(k, r.id, e, d, u)
  BY DEF GrownState
<1> HIDE DEF e
<1>8. /\ e.lease = IF e.decoded THEN DecodedCharge ELSE GroupCharge
      /\ d = k.decodedGroups + (IF e.decoded /\ ~k.groups.map[r.id].decoded THEN 1 ELSE 0)
      /\ u = k.used - k.groups.map[r.id].lease + e.lease
      /\ k.groups.map[r.id].decoded => e.decoded
      /\ e.decoded => Decodes(r.id)
      /\ e.age = k.groups.map[r.id].age
  BY <1>1, <1>2, <1>3, <1>4, <1>6
<1> HIDE DEF d, u
<1>9. Books(Entered(k, r.id, e, d, u), S)
  BY <1>1, <1>2, <1>5, <1>8, EnteredBooks
<1>10. Entered(k, r.id, e, d, u).groups.map[r.id] = e
  <2>1. Changed(k, Entered(k, r.id, e, d, u), r.id, e)
    BY <1>1, <1>2, <1>8, EnteredStep
  <2>2. QED
    BY <2>1 DEF Changed
<1>11. QED
  BY <1>1, <1>7, <1>9, <1>10

LEMMA GatherBooks ==
    ASSUME NEW F, NEW k, Sane(k, F), NEW r \in Records, r.id \in Pending(k.groups),
           NEW S, Known(S, F), Books(k, S)
    PROVE  Books(Gather(k, r).k, S)
<1> DEFINE g == k.groups.map[r.id]
           m == GrownState(k, r)
           a == Gather(k, r)
           id == r.id
<1>1. /\ Sane(m, F) /\ id \in Pending(m.groups)
      /\ [k EXCEPT !.groups = Put(@, id, [g EXCEPT !.shards = g.shards \cup {r.shard}])] = m
  BY GrownStep
<1>2. Books(m, S) /\ m.groups.map[id].decoded = g.decoded
  BY GrownBooks
<1>3. g \in GroupEntries
  BY SaneParts
<1>4. g.decoded \in BOOLEAN
  BY <1>3 DEF GroupEntries
<1>5. a = CASE Due(g, GroupTimeout) -> [k |-> ExpireGroup(k, id), err |-> "none"]
            [] ~Due(g, GroupTimeout) /\ g.decoded -> AdmitOriginals(k, id)
            [] ~Due(g, GroupTimeout) /\ ~g.decoded /\ r.shard \in g.shards -> [k |-> k, err |-> "none"]
            [] OTHER -> IF Cardinality(m.groups.map[id].shards) < scenario.dataShards
                        THEN [k |-> m, err |-> "none"]
                        ELSE Decode(m, id)
  BY <1>1 DEF Gather
<1>6. g.decoded => Decodes(id)
  BY DEF Sane, GroupsSane
<1> HIDE DEF a, m, g
<1>7. CASE Due(g, GroupTimeout)
  <2>1. a.k = ExpireGroup(k, id)
    BY <1>5, <1>7
  <2>2. QED
    BY <2>1, EndedBooks DEF a
<1>8. CASE ~Due(g, GroupTimeout) /\ g.decoded
  <2>1. a = AdmitOriginals(k, id)
    BY <1>5, <1>8
  <2>2. QED
    BY <1>6, <1>8, <2>1, AdmitBooks DEF a
<1>9. CASE ~Due(g, GroupTimeout) /\ ~g.decoded /\ r.shard \in g.shards
  <2>1. a.k = k
    BY <1>5, <1>9
  <2>2. QED
    BY <2>1 DEF a
<1>10. CASE ~Due(g, GroupTimeout) /\ ~g.decoded /\ r.shard \notin g.shards
  <2>1. a.k = m \/ a = Decode(m, id)
    BY <1>5, <1>10
  <2>2. Books(Decode(m, id).k, S)
    BY <1>1, <1>2, <1>10, DecodeBooks
  <2>3. QED
    BY <1>2, <2>1, <2>2 DEF a
<1>11. QED
  BY <1>4, <1>7, <1>8, <1>9, <1>10

LEMMA RecordBooks ==
    ASSUME NEW F, NEW s \in Results, Sane(s.k, F), NEW r \in Records, NEW restricted,
           NEW S, Known(S, F), Books(s.k, S)
    PROVE  Books(ReceiveRecord(s, r, restricted).k, S)
<1> DEFINE a == ReceiveRecord(s, r, restricted)
           id == r.id
<1>1. [s EXCEPT !.err = "full"].k = s.k
  BY DEF Results
<1>2. id \in GroupIDs
  BY DEF Records
<1>3. a = CASE s.err # "none" -> s
            [] s.err = "none" /\ id \in Pending(s.k.groups) -> Gather(s.k, r)
            [] OTHER -> IF restricted \/ State(s.k.groupWindow, id) # "unseen" THEN s
                        ELSE IF ~CanReserveGroup(s.k) THEN [s EXCEPT !.err = "full"]
                        ELSE Gather(NewGroup(s.k, id), r)
  BY DEF ReceiveRecord
<1> HIDE DEF a
<1>4. CASE s.err # "none"
  BY <1>3, <1>4 DEF a
<1>5. CASE s.err = "none" /\ id \in Pending(s.k.groups)
  <2>1. a = Gather(s.k, r)
    BY <1>3, <1>5
  <2>2. QED
    BY <1>5, <2>1, GatherBooks DEF a
<1>6. CASE s.err = "none" /\ id \notin Pending(s.k.groups)
  <2>1. \/ a \in {s, [s EXCEPT !.err = "full"]}
        \/ State(s.k.groupWindow, id) = "unseen" /\ CanReserveGroup(s.k) /\ a = Gather(NewGroup(s.k, id), r)
    BY <1>3, <1>6
  <2>2. CASE a \in {s, [s EXCEPT !.err = "full"]}
    BY <1>1, <2>2 DEF a
  <2>3. CASE State(s.k.groupWindow, id) = "unseen" /\ CanReserveGroup(s.k) /\ a = Gather(NewGroup(s.k, id), r)
    <3> DEFINE m == NewGroup(s.k, id)
    <3>1. Sane(m, F) /\ id \in Pending(m.groups)
      BY <1>2, <1>6, <2>3, NewGroupStep
    <3>2. Books(m, S)
      BY <1>2, <1>6, <2>3, NewGroupBooks
    <3> HIDE DEF m
    <3>3. Books(Gather(m, r).k, S)
      BY <3>1, <3>2, GatherBooks
    <3>4. QED
      BY <2>3, <3>3 DEF m, a
  <2>4. QED
    BY <2>1, <2>2, <2>3
<1>7. QED
  BY <1>4, <1>5, <1>6

LEMMA ExpireBooks ==
    ASSUME NEW F, NEW k, Sane(k, F), NEW id \in Pending(k.originals), NEW S, Books(k, S)
    PROVE  Books(ExpireOriginal(k, id), S)
<1> DEFINE n == ExpireOriginal(k, id)
<1>1. /\ Account(k, S, 0) /\ k.used <= Credit /\ GroupBooks(k)
      /\ Cardinality(Pending(k.originals)) <= MaxDatagrams
  BY DEF Books
<1>2. Paid(k, n, S, 0, 0 - 1)
  BY <1>1, ExpireAccount
<1>3. n.groups = k.groups /\ n.decodedGroups = k.decodedGroups
  BY ExpireFields
<1>4. Sane(n, F)
  BY ExpireStep DEF Touched
<1> HIDE DEF n
<1>5. GroupBooks(n)
  BY <1>1, <1>3, GroupBooksSame
<1>6. /\ Account(n, S, 0) /\ n.used <= k.used
      /\ Cardinality(Pending(n.originals)) <= Cardinality(Pending(k.originals)) + (0 - 1)
  BY <1>2 DEF Paid
<1>7. /\ k.used \in Int /\ n.used \in Int
      /\ Cardinality(Pending(n.originals)) \in Nat /\ Cardinality(Pending(k.originals)) \in Nat
  <2>1. k.used \in Int /\ Cardinality(Pending(k.originals)) \in Nat
    BY <1>1, SumTypes
  <2>2. QED
    BY <1>4, <1>6, <2>1, SumTypes
<1>8. MaxDatagrams \in Int
  BY LimitsAssumption
<1>9. n.used <= Credit /\ Cardinality(Pending(n.originals)) <= MaxDatagrams
  BY <1>1, <1>6, <1>7, <1>8, LinkChargeType
<1>10. QED
  BY <1>5, <1>6, <1>9 DEF Books, n

\* Every loop keeps the books.
LEMMA RecordStepsBooks ==
    ASSUME NEW F, NEW k, Sane(k, F), NEW bundle \in Seq(Records), NEW restricted,
           NEW S, Known(S, F), Books(k, S)
    PROVE  Books(RecordSteps(k, bundle, restricted)[Len(bundle)].k, S)
<1> DEFINE N == Len(bundle)
           after == RecordSteps(k, bundle, restricted)
           A == {n \in 0..N : Books(after[n].k, S)}
<1>1. N \in Nat /\ \A n \in 1..N : bundle[n] \in Records
  OBVIOUS
<1>2. /\ after[0] = [k |-> k, err |-> "none"]
      /\ \A n \in 1..N : after[n] = ReceiveRecord(after[n - 1], bundle[n], restricted)
      /\ \A n \in 0..N : after[n] \in SaneResults(k, F)
  BY RecordRuns
<1> HIDE DEF N, after
<1>3. 0 \in A
  BY <1>1, <1>2
<1>4. ASSUME NEW n \in 1..N, n - 1 \in A PROVE n \in A
  <2>1. n - 1 \in 0..N /\ n \in 0..N
    BY <1>1
  <2>2. after[n - 1] \in Results /\ Sane(after[n - 1].k, F)
    BY <1>2, <2>1 DEF SaneResults
  <2>3. Books(after[n - 1].k, S)
    BY <1>4
  <2>4. Books(ReceiveRecord(after[n - 1], bundle[n], restricted).k, S)
    BY <1>1, <2>2, <2>3, RecordBooks
  <2>5. QED
    BY <1>2, <2>1, <2>4
<1>5. N \in A
  <2> HIDE DEF A
  <2>1. \A n \in 0..N : n \in A
    BY <1>1, <1>3, <1>4, Induction
  <2>2. QED
    BY <1>1, <2>1
<1>6. QED
  BY <1>5 DEF N, after

LEMMA RetryBooks ==
    ASSUME NEW F, NEW k, Sane(k, F), NEW order \in RetryOrders(k), NEW S, Known(S, F), Books(k, S)
    PROVE  Books(RetryGroups(k, order), S)
<1> DEFINE N == Len(order)
           after == RetrySteps(k, order)
           A == {n \in 0..N : Books(after[n].k, S)}
<1>0. GoodOrder(k, order)
  BY OrdersGood
<1>1. N \in Nat /\ DOMAIN order = 1..N
  BY <1>0 DEF GoodOrder
<1>2. /\ after[0] = [k |-> k, err |-> "none"]
      /\ \A n \in 1..N : after[n] = RetryStep(after[n - 1], order[n])
      /\ \A n \in 0..N : after[n] \in SaneResults(k, F) /\ Awaits(after[n].k, order, n)
  BY <1>0, RetryRuns
<1>7. RetryGroups(k, order) = after[N].k
  BY DEF RetryGroups
<1> HIDE DEF N, after
<1>3. 0 \in A
  BY <1>1, <1>2
<1>4. ASSUME NEW n \in 1..N, n - 1 \in A PROVE n \in A
  <2> DEFINE x == after[n - 1]
             id == order[n]
  <2>1. n - 1 \in 0..N /\ n \in 0..N /\ n > n - 1
    BY <1>1
  <2>2. Sane(x.k, F) /\ Awaits(x.k, order, n - 1)
    BY <1>2, <2>1 DEF SaneResults
  <2>3. id \in Pending(x.k.groups) /\ x.k.groups.map[id].decoded
    BY <1>1, <2>1, <2>2 DEF Awaits
  <2>4. Decodes(id)
    BY <2>2, <2>3 DEF Sane, GroupsSane
  <2>5. Books(x.k, S) /\ after[n] = RetryStep(x, id)
    BY <1>2, <1>4
  <2> HIDE DEF x, id
  <2>6. Books(AdmitOriginals(x.k, id).k, S)
    BY <2>2, <2>3, <2>4, <2>5, AdmitBooks
  <2>7. Books(after[n].k, S)
    BY <2>5, <2>6 DEF RetryStep
  <2>8. QED
    BY <2>1, <2>7
<1>5. N \in A
  <2> HIDE DEF A
  <2>1. \A n \in 0..N : n \in A
    BY <1>1, <1>3, <1>4, Induction
  <2>2. QED
    BY <1>1, <2>1
<1>6. QED
  BY <1>5, <1>7

LEMMA ExpireGroupsBooks ==
    ASSUME NEW F, NEW k, Sane(k, F), NEW S, Books(k, S)
    PROVE  Books(ExpireGroups(k), S)
<1> DEFINE N == Cardinality(Pending(k.groups))
<1>1. N \in Nat
  BY HeadOf
<1>2. PICK after : /\ after[0] = k /\ ExpireGroups(k) = after[N]
                   /\ \A n \in 1..N : after[n] = GroupExpiry(after[n - 1])
                   /\ \A n \in 0..N : after[n] \in SaneStates(k, F)
  BY ExpireGroupsRuns
<1> DEFINE A == {n \in 0..N : Books(after[n], S)}
<1> HIDE DEF N
<1>3. 0 \in A
  BY <1>1, <1>2
<1>4. ASSUME NEW n \in 1..N, n - 1 \in A PROVE n \in A
  <2> DEFINE x == after[n - 1]
             h == x.groups.head
  <2>1. n - 1 \in 0..N /\ n \in 0..N
    BY <1>1
  <2>2. Sane(x, F)
    BY <1>2, <2>1 DEF SaneStates
  <2>3. Books(x, S) /\ after[n] = GroupExpiry(x)
    BY <1>2, <1>4
  <2> HIDE DEF x
  <2>4. Books(GroupExpiry(x), S)
    <3>1. h # 0 => h \in Pending(x.groups)
      BY <2>2, HeadOf
    <3>2. h # 0 => Books(ExpireGroup(x, h), S)
      BY <2>2, <2>3, <3>1, EndedBooks
    <3>3. QED
      BY <2>3, <3>2 DEF GroupExpiry
  <2>5. QED
    BY <2>1, <2>3, <2>4
<1>5. N \in A
  <2> HIDE DEF A
  <2>1. \A n \in 0..N : n \in A
    BY <1>1, <1>3, <1>4, Induction
  <2>2. QED
    BY <1>1, <2>1
<1>6. QED
  BY <1>2, <1>5

LEMMA ExpireOriginalsBooks ==
    ASSUME NEW F, NEW k, Sane(k, F), NEW S, Books(k, S)
    PROVE  Books(ExpireOriginals(k), S)
<1> DEFINE N == Cardinality(Pending(k.originals))
<1>1. N \in Nat
  BY HeadOf
<1>2. PICK after : /\ after[0] = k /\ ExpireOriginals(k) = after[N]
                   /\ \A n \in 1..N : after[n] = OriginalExpiry(after[n - 1])
                   /\ \A n \in 0..N : after[n] \in SaneStates(k, F)
  BY ExpireOriginalsRuns
<1> DEFINE A == {n \in 0..N : Books(after[n], S)}
<1> HIDE DEF N
<1>3. 0 \in A
  BY <1>1, <1>2
<1>4. ASSUME NEW n \in 1..N, n - 1 \in A PROVE n \in A
  <2> DEFINE x == after[n - 1]
             h == x.originals.head
  <2>1. n - 1 \in 0..N /\ n \in 0..N
    BY <1>1
  <2>2. Sane(x, F)
    BY <1>2, <2>1 DEF SaneStates
  <2>3. Books(x, S) /\ after[n] = OriginalExpiry(x)
    BY <1>2, <1>4
  <2> HIDE DEF x
  <2>4. Books(OriginalExpiry(x), S)
    <3>1. h # 0 => h \in Pending(x.originals)
      BY <2>2, HeadOf
    <3>2. h # 0 => Books(ExpireOriginal(x, h), S)
      BY <2>2, <2>3, <3>1, ExpireBooks
    <3>3. QED
      BY <2>3, <3>2 DEF OriginalExpiry
  <2>5. QED
    BY <2>1, <2>3, <2>4
<1>5. N \in A
  <2> HIDE DEF A
  <2>1. \A n \in 0..N : n \in A
    BY <1>1, <1>3, <1>4, Induction
  <2>2. QED
    BY <1>1, <2>1
<1>6. QED
  BY <1>2, <1>5

\* A close leaves only what the reader holds.
LEMMA CloseOriginalsBooks ==
    ASSUME NEW F, NEW k, Sane(k, F), NEW S, Books(k, S)
    PROVE  Books(CloseOriginals(k), S)
<1> DEFINE N == Cardinality(Pending(k.originals))
<1>1. N \in Nat
  BY HeadOf
<1>2. PICK after : /\ after[0] = k /\ CloseOriginals(k) = after[N]
                   /\ \A n \in 1..N : after[n] = OriginalClosing(after[n - 1])
                   /\ \A n \in 0..N : after[n] \in SaneStates(k, F) /\ Cardinality(Pending(after[n].originals)) = N - n
  BY CloseOriginalsRuns
<1> DEFINE A == {n \in 0..N : Books(after[n], S)}
<1> HIDE DEF N
<1>3. 0 \in A
  BY <1>1, <1>2
<1>4. ASSUME NEW n \in 1..N, n - 1 \in A PROVE n \in A
  <2> DEFINE x == after[n - 1]
             h == x.originals.head
  <2>1. n - 1 \in 0..N /\ n \in 0..N /\ N - (n - 1) # 0
    BY <1>1
  <2>2. Sane(x, F) /\ Cardinality(Pending(x.originals)) # 0
    BY <1>2, <2>1 DEF SaneStates
  <2>3. Books(x, S) /\ after[n] = OriginalClosing(x)
    BY <1>2, <1>4
  <2> HIDE DEF x
  <2>4. h \in Pending(x.originals)
    BY <2>2, HeadOf
  <2>5. Books(ExpireOriginal(x, h), S)
    BY <2>2, <2>3, <2>4, ExpireBooks
  <2>6. QED
    BY <2>1, <2>3, <2>5 DEF OriginalClosing
<1>5. N \in A
  <2> HIDE DEF A
  <2>1. \A n \in 0..N : n \in A
    BY <1>1, <1>3, <1>4, Induction
  <2>2. QED
    BY <1>1, <2>1
<1>6. QED
  BY <1>2, <1>5

LEMMA CloseGroupsBooks ==
    ASSUME NEW F, NEW k, Sane(k, F), NEW S, Books(k, S)
    PROVE  Books(CloseGroups(k), S)
<1> DEFINE N == Cardinality(Pending(k.groups))
<1>1. N \in Nat
  BY HeadOf
<1>2. PICK after : /\ after[0] = k /\ CloseGroups(k) = after[N]
                   /\ \A n \in 1..N : after[n] = GroupClosing(after[n - 1])
                   /\ \A n \in 0..N : after[n] \in SaneStates(k, F) /\ Cardinality(Pending(after[n].groups)) = N - n
  BY CloseGroupsRuns
<1> DEFINE A == {n \in 0..N : Books(after[n], S)}
<1> HIDE DEF N
<1>3. 0 \in A
  BY <1>1, <1>2
<1>4. ASSUME NEW n \in 1..N, n - 1 \in A PROVE n \in A
  <2> DEFINE x == after[n - 1]
             h == x.groups.head
  <2>1. n - 1 \in 0..N /\ n \in 0..N /\ N - (n - 1) # 0
    BY <1>1
  <2>2. Sane(x, F) /\ Cardinality(Pending(x.groups)) # 0
    BY <1>2, <2>1 DEF SaneStates
  <2>3. Books(x, S) /\ after[n] = GroupClosing(x)
    BY <1>2, <1>4
  <2> HIDE DEF x
  <2>4. h \in Pending(x.groups)
    BY <2>2, HeadOf
  <2>5. Books(ReleaseGroup(x, h), S)
    BY <2>2, <2>3, <2>4, EndedBooks
  <2>6. QED
    BY <2>1, <2>3, <2>5 DEF GroupClosing
<1>5. N \in A
  <2> HIDE DEF A
  <2>1. \A n \in 0..N : n \in A
    BY <1>1, <1>3, <1>4, Induction
  <2>2. QED
    BY <1>1, <2>1
<1>6. QED
  BY <1>2, <1>5

\* The books do not say whether a delivery has returned yet.
LEMMA BooksMoved ==
    ASSUME NEW k, NEW S, Books(k, S), NEW n, n.groups = k.groups, n.decodedGroups = k.decodedGroups,
           n.originals = k.originals, n.used = k.used, NEW T, Reader(n, T) = Reader(k, S)
    PROVE  Books(n, T)
<1>1. GroupBooks(n)
  BY GroupBooksSame DEF Books
<1>2. Account(n, T, 0)
  BY DEF Account, Books
<1>3. QED
  BY <1>1, <1>2 DEF Books

LEMMA NothingHanded == ASSUME NEW k, k.out = <<>>, NEW S PROVE Reader(k, S) = S
<1>1. Range(k.out) = {}
  BY DEF Range
<1>2. QED
  BY <1>1 DEF Reader, Handed

\* The reader's Datagrams completed, and all credit is accounted for.
Credited == Known(held, fates) /\ Books(rx, held)

LEMMA KnownMore ==
    ASSUME NEW S, NEW F, Known(S, F), NEW G
    PROVE  Known(S, F \cup G)
  BY DEF Known, Ids

LEMMA CreditedReturn ==
    ASSUME Credited, NEW k, Sane(k, fates), Books(k, held), Return(k)
    PROVE  Credited'
<1> DEFINE n == [k EXCEPT !.out = <<>>, !.ended = {}]
<1>1. /\ n.out = <<>> /\ n.groups = k.groups /\ n.originals = k.originals
      /\ n.used = k.used /\ n.decodedGroups = k.decodedGroups
  BY SaneReturned
<1>2. rx' = n /\ fates' = fates \cup k.ended /\ held' = Reader(k, held)
  BY DEF Return, Reader, Handed
<1> HIDE DEF n
<1>3. Books(n, Reader(k, held))
  <2>1. Reader(n, Reader(k, held)) = Reader(k, held)
    BY <1>1, NothingHanded
  <2>2. QED
    BY <1>1, <2>1, BooksMoved
<1>4. Known(Reader(k, held), fates \cup k.ended)
  <2>1. SUFFICES ASSUME NEW h \in Reader(k, held) PROVE h.id \in Ids(fates \cup k.ended, "datagram", "completed")
    BY DEF Known
  <2>2. CASE h \in held
    BY <2>2 DEF Credited, Known, Ids
  <2>3. CASE h \notin held
    <3>1. PICK d \in Range(k.out) : h = [id |-> d.id, total |-> d.total]
      BY <2>3 DEF Reader, Handed
    <3>2. PICK i \in DOMAIN k.out : d = k.out[i]
      BY <3>1 DEF Range
    <3>3. d.id \in Ids(k.ended, "datagram", "completed")
      BY <3>2 DEF Sane, OutSane
    <3>4. QED
      BY <3>1, <3>3 DEF Ids
  <2>4. QED
    BY <2>2, <2>3
<1>5. QED
  BY <1>2, <1>3, <1>4 DEF Credited

LEMMA NoSums == LeaseSum(Empty) = 0 /\ ChargeSum(Empty) = 0 /\ HeldSum({}) = 0 /\ Pending(Empty) = {}
<1>1. Pending(Empty) = {}
  BY EmptyFacts
<1>2. QED
  BY <1>1, UnitsNone DEF LeaseSum, ChargeSum, HeldSum

LEMMA CreditedInit ==
    ASSUME Init
    PROVE  Credited
<1>1. /\ rx.groups = Empty /\ rx.originals = Empty /\ rx.out = <<>> /\ rx.used = 0 /\ rx.decodedGroups = 0
      /\ held = {}
  BY DEF Init
<1>2. Reader(rx, held) = {}
  BY <1>1, NothingHanded
<1>3. Cardinality({}) = 0 /\ IsFiniteSet({})
  BY FS_EmptySet
<1>4. Account(rx, held, 0)
  <2>1. LeaseSum(rx.groups) = 0 /\ ChargeSum(rx.originals) = 0 /\ HeldSum(Reader(rx, held)) = 0
    BY <1>1, <1>2, NoSums
  <2>2. Reader(rx, held) \subseteq Holdings /\ IsFiniteSet(Reader(rx, held))
    BY <1>2, <1>3
  <2>3. rx.used = 0 + 0 + 0 + 0
    BY <1>1
  <2>4. QED
    BY <2>1, <2>2, <2>3 DEF Account
<1>5. DecodedIds(rx.groups) = {} /\ Pending(rx.groups) = {} /\ Pending(rx.originals) = {}
  BY <1>1, NoSums DEF DecodedIds
<1>6. MaxPendingGroups \in Nat /\ MaxDatagrams \in Nat
  BY LimitsAssumption
<1>7. GroupBooks(rx)
  BY <1>1, <1>3, <1>5, <1>6 DEF GroupBooks
<1>8. Books(rx, held)
  BY <1>1, <1>3, <1>4, <1>5, <1>6, <1>7, LinkChargeType DEF Books
<1>9. QED
  BY <1>1, <1>8 DEF Credited, Known

LEMMA CreditedReceive ==
    ASSUME Inv, Credited, NEW bundle \in Bundles, NEW restricted \in BOOLEAN, ReceiveBundle(bundle, restricted)
    PROVE  Credited'
<1>0. PICK k : k = rx
  OBVIOUS
<1> DEFINE y == RecordSteps(k, bundle, restricted)[Len(bundle)].k
<1>1. Sane(k, fates) /\ Return(y)
  BY <1>0 DEF ReceiveBundle, Inv
<1>2. bundle \in Seq(Records)
  <2>1. PICK n \in 1..scenario.records : bundle \in [1..n -> Records]
    BY DEF Bundles
  <2>2. scenario.records \in Nat
    BY ScenariosAssumption DEF Inv
  <2>3. n \in Nat
    BY <2>2
  <2>4. bundle \in UNION {[1..m -> Records] : m \in Nat}
    BY <2>1, <2>3, Zenon
  <2>5. QED
    BY <2>4, SeqDef, Zenon
<1>3. Len(bundle) \in 0..Len(bundle)
  BY <1>2
<1>4. RecordSteps(k, bundle, restricted)[Len(bundle)] \in SaneResults(k, fates)
  BY <1>1, <1>2, <1>3, RecordRuns
<1>5. Sane(y, fates)
  BY <1>4 DEF SaneResults
<1>6. Known(held, fates) /\ Books(k, held)
  BY <1>0 DEF Credited
<1>7. Books(y, held)
  BY <1>1, <1>2, <1>6, RecordStepsBooks
<1> HIDE DEF y
<1>8. QED
  BY <1>1, <1>5, <1>7, CreditedReturn

LEMMA CreditedAdvance ==
    ASSUME Inv, Credited, Advance
    PROVE  Credited'
<1>0. PICK k : k = rx
  OBVIOUS
<1> DEFINE g == ExpireGroups(k)
           o == ExpireOriginals(g)
<1>1. Sane(k, fates) /\ Known(held, fates) /\ Books(k, held)
  BY <1>0 DEF Advance, Inv, Credited
<1>2. PICK order \in RetryOrders(o) : Return(RetryGroups(o, order))
  BY <1>0 DEF Advance
<1>3. Sane(g, fates)
  BY <1>1, ExpireSane DEF SaneStates
<1>4. Books(g, held)
  BY <1>1, ExpireGroupsBooks
<1> HIDE DEF g
<1>5. Sane(o, fates)
  BY <1>3, ExpireSane DEF SaneStates
<1>6. Books(o, held)
  BY <1>3, <1>4, ExpireOriginalsBooks
<1> HIDE DEF o
<1>7. Sane(RetryGroups(o, order), fates)
  BY <1>5, RetrySane
<1>8. Books(RetryGroups(o, order), held)
  BY <1>1, <1>5, <1>6, RetryBooks
<1>9. QED
  BY <1>2, <1>7, <1>8, CreditedReturn

LEMMA CreditedClose ==
    ASSUME Inv, Credited, Close
    PROVE  Credited'
<1>0. PICK r : r = rx
  OBVIOUS
<1> DEFINE o == CloseOriginals(r)
           k == CloseGroups(o)
           n == [k EXCEPT !.closed = TRUE, !.ended = {}, !.groupWindow = NewWindow(GroupSpan),
                          !.datagramWindow = NewWindow(DatagramSpan)]
<1>1. Sane(r, fates) /\ Known(held, fates) /\ Books(r, held)
  BY <1>0 DEF Close, Inv, Credited
<1>2. rx' = n /\ fates' = fates \cup k.ended /\ held' = held
  BY <1>0 DEF Close
<1>3. Sane(o, fates)
  BY <1>1, ExpireSane DEF SaneStates
<1>4. Books(o, held)
  BY <1>1, CloseOriginalsBooks
<1> HIDE DEF o
<1>5. Sane(k, fates)
  BY <1>3, ExpireSane DEF SaneStates
<1>6. Books(k, held)
  BY <1>3, <1>4, CloseGroupsBooks
<1> HIDE DEF k
<1>7. k \in Receivers
  BY <1>5, SaneParts
<1>8. /\ n.groups = k.groups /\ n.decodedGroups = k.decodedGroups /\ n.originals = k.originals
      /\ n.out = k.out /\ n.used = k.used
  <2> DEFINE a == NewWindow(GroupSpan)
             b == NewWindow(DatagramSpan)
  <2>1. n = [k EXCEPT !.closed = TRUE, !.ended = {}, !.groupWindow = a, !.datagramWindow = b]
    OBVIOUS
  <2> HIDE DEF a, b, n
  <2>2. QED
    BY <1>7, <2>1 DEF Receivers
<1> HIDE DEF n
<1>9. Books(n, held)
  BY <1>6, <1>8, BooksSame
<1>10. Known(held, fates \cup k.ended)
  BY <1>1, KnownMore
<1>11. QED
  BY <1>2, <1>9, <1>10 DEF Credited

\* As SumTypes, of a receive side that may be closed.
LEMMA ClosedSums ==
    ASSUME NEW k \in Receivers, Chained(k.groups), Chained(k.originals), NEW S, Account(k, S, 0)
    PROVE  /\ LeaseSum(k.groups) \in Nat /\ ChargeSum(k.originals) \in Nat /\ HeldSum(Reader(k, S)) \in Nat
           /\ k.used \in Int
           /\ IsFiniteSet(Pending(k.originals)) /\ IsFiniteSet(Pending(k.groups))
           /\ k.groups \in Lists(GroupEntries) /\ k.originals \in Lists(OriginalEntries)
<1>1. /\ k.originals \in Lists(OriginalEntries) /\ k.groups \in Lists(GroupEntries) /\ k.used \in Int
  BY ReceiverTypes
<1>2. IsFiniteSet(Pending(k.originals)) /\ IsFiniteSet(Pending(k.groups))
  BY <1>1, HeadFacts
<1>3. LeaseSum(k.groups) \in Nat
  <2>1. \A x \in Pending(k.groups) : Leases(k.groups)[x] \in Nat
    BY <1>1, LeaseTypes
  <2>2. QED
    BY <1>2, <2>1, UnitsFinite DEF LeaseSum
<1>4. ChargeSum(k.originals) \in Nat
  <2>1. \A x \in Pending(k.originals) : Charges(k.originals)[x] \in Nat
    BY <1>1, ChargeTypes
  <2>2. QED
    BY <1>2, <2>1, UnitsFinite DEF ChargeSum
<1>5. HeldSum(Reader(k, S)) \in Nat
  BY HeldType DEF Account
<1>6. QED
  BY <1>1, <1>2, <1>3, <1>4, <1>5

LEMMA CreditedRelease ==
    ASSUME Inv, Credited, NEW d \in held, Release(d)
    PROVE  Credited'
<1>0. PICK k : k = rx
  OBVIOUS
<1>9. PICK S : S = held
  OBVIOUS
<1> DEFINE u == k.used - d.total
           n == [k EXCEPT !.used = u]
           T == S \ {d}
<1>1. rx' = n /\ held' = T /\ fates' = fates
  BY <1>0, <1>9 DEF Release
<1>2. k \in Receivers /\ Chained(k.groups) /\ Chained(k.originals) /\ k.out = <<>>
  BY <1>0 DEF Inv
<1>3. Known(S, fates) /\ Books(k, S) /\ Account(k, S, 0)
  BY <1>0, <1>9 DEF Credited, Books
<1>4. /\ LeaseSum(k.groups) \in Nat /\ ChargeSum(k.originals) \in Nat /\ HeldSum(Reader(k, S)) \in Nat
      /\ k.used \in Int
  BY <1>2, <1>3, ClosedSums
<1>5. Reader(k, S) = S
  BY <1>2, NothingHanded
<1>6. S \subseteq Holdings /\ IsFiniteSet(S)
      /\ k.used = LeaseSum(k.groups) + ChargeSum(k.originals) + HeldSum(S) + 0
  BY <1>3, <1>5 DEF Account
<1>7. T \subseteq Holdings /\ IsFiniteSet(T) /\ d \in Holdings /\ d \notin T /\ T \cup {d} = S
  BY <1>6, <1>9, FS_Subset
<1> HIDE DEF T
<1>8. HeldSum(S) = HeldSum(T) + d.total /\ HeldSum(T) \in Nat /\ d.total \in Nat
  <2>1. HeldSum(T \cup {d}) = HeldSum(T) + d.total /\ HeldSum(T) \in Nat /\ d.total \in Nat
    BY <1>7, HeldAdd
  <2>2. QED
    BY <1>7, <2>1
<1>10. u \in Int
  BY <1>4, <1>8
<1>11. u = LeaseSum(k.groups) + ChargeSum(k.originals) + HeldSum(T) + 0 /\ u <= k.used
  BY <1>4, <1>6, <1>8
<1> HIDE DEF u
<1>12. /\ n.groups = k.groups /\ n.originals = k.originals /\ n.decodedGroups = k.decodedGroups
       /\ n.out = <<>> /\ n.used = u
  BY <1>2, <1>10 DEF Receivers
<1> HIDE DEF n
<1>13. Account(n, T, 0)
  <2>1. Reader(n, T) = T
    BY <1>12, NothingHanded
  <2>2. QED
    BY <1>7, <1>11, <1>12, <2>1 DEF Account
<1>14. GroupBooks(n)
  BY <1>3, <1>12, GroupBooksSame DEF Books
<1>15. Books(n, T)
  <2>1. n.used <= Credit
    BY <1>3, <1>4, <1>10, <1>11, <1>12, LinkChargeType DEF Books
  <2>2. QED
    BY <1>3, <1>12, <1>13, <1>14, <2>1 DEF Books
<1>16. Known(T, fates)
  BY <1>3 DEF Known, T
<1>17. QED
  BY <1>1, <1>15, <1>16 DEF Credited

LEMMA CreditedTick ==
    ASSUME Inv, Credited, Tick
    PROVE  Credited'
<1>0. PICK k : k = rx
  OBVIOUS
<1> DEFINE n == TickedOn(k)
<1>1. rx' = n /\ held' = held /\ fates' = fates
  BY <1>0 DEF Tick, TickedOn
<1>2. k \in Receivers /\ Chained(k.groups) /\ Chained(k.originals) /\ k.out = <<>>
  BY <1>0 DEF Inv
<1>3. Known(held, fates) /\ Books(k, held) /\ Account(k, held, 0) /\ GroupBooks(k)
  BY <1>0 DEF Credited, Books
<1>4. /\ LeaseSum(k.groups) \in Nat /\ ChargeSum(k.originals) \in Nat /\ HeldSum(Reader(k, held)) \in Nat
      /\ IsFiniteSet(Pending(k.originals)) /\ IsFiniteSet(Pending(k.groups))
      /\ k.groups \in Lists(GroupEntries) /\ k.originals \in Lists(OriginalEntries)
  BY <1>2, <1>3, ClosedSums
<1>5. /\ n \in Receivers /\ n.out = k.out /\ n.used = k.used /\ n.decodedGroups = k.decodedGroups
      /\ Pending(n.groups) = Pending(k.groups) /\ Pending(n.originals) = Pending(k.originals)
      /\ \A x \in Pending(k.groups) : /\ n.groups.map[x].decoded = k.groups.map[x].decoded
                                      /\ n.groups.map[x].lease = k.groups.map[x].lease
      /\ \A x \in Pending(k.originals) : n.originals.map[x].total = k.originals.map[x].total
  BY <1>2, TickFields
<1> HIDE DEF n
<1>6. n.groups \in Lists(GroupEntries) /\ n.originals \in Lists(OriginalEntries)
  BY <1>5, ReceiverTypes
<1>7. ChargeSum(n.originals) = ChargeSum(k.originals)
  BY <1>4, <1>5, <1>6, ChargePut
<1>8. LeaseSum(n.groups) = LeaseSum(k.groups)
  <2>1. \A x \in Pending(k.groups) : Leases(n.groups)[x] = Leases(k.groups)[x]
    BY <1>4, <1>5, <1>6, LeaseTypes
  <2>2. Units(Leases(n.groups), Pending(k.groups)) = Units(Leases(k.groups), Pending(k.groups))
    BY <2>1, UnitsSame
  <2>3. QED
    BY <1>5, <2>2 DEF LeaseSum
<1>9. Account(n, held, 0)
  <2>1. Reader(n, held) = Reader(k, held)
    BY <1>5 DEF Reader
  <2>2. QED
    BY <1>3, <1>5, <1>7, <1>8, <2>1 DEF Account
<1>10. GroupBooks(n)
  <2>1. DecodedIds(n.groups) = DecodedIds(k.groups)
    BY <1>5 DEF DecodedIds
  <2>2. QED
    BY <1>3, <1>5, <2>1 DEF GroupBooks
<1>11. Books(n, held)
  BY <1>3, <1>5, <1>9, <1>10 DEF Books
<1>12. QED
  BY <1>1, <1>3, <1>11 DEF Credited

LEMMA CreditedNext ==
    ASSUME Inv, Credited, [Next]_vars
    PROVE  Credited'
<1>1. CASE UNCHANGED vars
  BY <1>1 DEF vars, Credited
<1>2. CASE \E bundle \in Bundles, restricted \in BOOLEAN : ReceiveBundle(bundle, restricted)
  BY <1>2, CreditedReceive
<1>3. CASE Advance
  BY <1>3, CreditedAdvance
<1>4. CASE \E d \in held : Release(d)
  BY <1>4, CreditedRelease
<1>5. CASE Close
  BY <1>5, CreditedClose
<1>6. CASE Tick
  BY <1>6, CreditedTick
<1>7. QED
  BY <1>1, <1>2, <1>3, <1>4, <1>5, <1>6 DEF Next

----------------------------------------------------------------------------
(* What the books say                                                      *)

LEMMA LeaseFold ==
    ASSUME NEW list \in Lists(GroupEntries), IsFiniteSet(Pending(list))
    PROVE  MapThenSumSet(LAMBDA id : list.map[id].lease, Pending(list)) = LeaseSum(list)
<1> DEFINE w == Leases(list)
           X == Pending(list)
           P(g) == g = [s \in SUBSET X |-> IF s = {} THEN 0 ELSE
                       list.map[CHOOSE x \in s : TRUE].lease + g[s \ {CHOOSE x \in s : TRUE}]]
           f == CHOOSE g : P(g)
<1>1. MapThenSumSet(LAMBDA id : list.map[id].lease, X) = f[X]
  BY DEF MapThenSumSet, MapThenFoldSet
<1>2. \A id \in X : w[id] = list.map[id].lease /\ w[id] \in Nat
  BY LeaseTypes
<1>3. ASSUME NEW s \in SUBSET X, s # {}
      PROVE  w[CHOOSE x \in s : TRUE] = list.map[CHOOSE x \in s : TRUE].lease
  BY <1>2, <1>3
<1> HIDE DEF w
<1>4. \A g : P(g) <=> Adds(g, w, X)
  BY <1>3 DEF Adds
<1>5. \E g : Adds(g, w, X)
  BY <1>2, AddsExists
<1> HIDE DEF P
<1>6. Adds(f, w, X)
  BY <1>4, <1>5
<1> HIDE DEF f
<1>7. f[X] = Cardinality(Units(w, X))
  BY <1>2, <1>6, AddsUnits
<1>8. QED
  BY <1>1, <1>7 DEF w, LeaseSum

LEMMA ChargeFold ==
    ASSUME NEW list \in Lists(OriginalEntries), IsFiniteSet(Pending(list))
    PROVE  MapThenSumSet(LAMBDA id : list.map[id].total + LinkCharge, Pending(list)) = ChargeSum(list)
<1> DEFINE w == Charges(list)
           X == Pending(list)
           P(g) == g = [s \in SUBSET X |-> IF s = {} THEN 0 ELSE
                       (list.map[CHOOSE x \in s : TRUE].total + LinkCharge) + g[s \ {CHOOSE x \in s : TRUE}]]
           f == CHOOSE g : P(g)
<1>1. MapThenSumSet(LAMBDA id : list.map[id].total + LinkCharge, X) = f[X]
  BY DEF MapThenSumSet, MapThenFoldSet
<1>2. \A id \in X : w[id] = list.map[id].total + LinkCharge /\ w[id] \in Nat
  BY ChargeTypes
<1>3. ASSUME NEW s \in SUBSET X, s # {}
      PROVE  w[CHOOSE x \in s : TRUE] = list.map[CHOOSE x \in s : TRUE].total + LinkCharge
  BY <1>2, <1>3
<1> HIDE DEF w
<1>4. \A g : P(g) <=> Adds(g, w, X)
  BY <1>3 DEF Adds
<1>5. \E g : Adds(g, w, X)
  BY <1>2, AddsExists
<1> HIDE DEF P
<1>6. Adds(f, w, X)
  BY <1>4, <1>5
<1> HIDE DEF f
<1>7. f[X] = Cardinality(Units(w, X))
  BY <1>2, <1>6, AddsUnits
<1>8. QED
  BY <1>1, <1>7 DEF w, ChargeSum

LEMMA HeldFold ==
    ASSUME NEW X, X \subseteq Holdings, IsFiniteSet(X)
    PROVE  MapThenSumSet(LAMBDA d : d.total, X) = HeldSum(X)
<1> DEFINE w == Totals(X)
           P(g) == g = [s \in SUBSET X |-> IF s = {} THEN 0 ELSE
                       (CHOOSE x \in s : TRUE).total + g[s \ {CHOOSE x \in s : TRUE}]]
           f == CHOOSE g : P(g)
<1>1. MapThenSumSet(LAMBDA d : d.total, X) = f[X]
  BY DEF MapThenSumSet, MapThenFoldSet
<1>2. \A d \in X : w[d] = d.total /\ w[d] \in Nat
  BY DEF Totals, Holdings
<1>3. ASSUME NEW s \in SUBSET X, s # {}
      PROVE  w[CHOOSE x \in s : TRUE] = (CHOOSE x \in s : TRUE).total
  BY <1>2, <1>3
<1> HIDE DEF w
<1>4. \A g : P(g) <=> Adds(g, w, X)
  BY <1>3 DEF Adds
<1>5. \E g : Adds(g, w, X)
  BY <1>2, AddsExists
<1> HIDE DEF P
<1>6. Adds(f, w, X)
  BY <1>4, <1>5
<1> HIDE DEF f
<1>7. f[X] = Cardinality(Units(w, X))
  BY <1>2, <1>6, AddsUnits
<1>8. QED
  BY <1>1, <1>7 DEF w, HeldSum

\* What Threaded walks: from the head along the list.
Walks(list, n, f) ==
    f = [i \in 0..n |-> IF i = 0 THEN list.head
                        ELSE IF f[i - 1] \in Pending(list) THEN list.next[f[i - 1]] ELSE 0]

LEMMA WalkIs ==
    ASSUME NEW list, NEW n \in Nat, NEW q, Ordered(list, q, n)
    PROVE  /\ \E f : Walks(list, n, f)
           /\ \A f : Walks(list, n, f) => \A i \in 0..n : f[i] = IF i = n THEN 0 ELSE q[i + 1]
<1> DEFINE g == [i \in 0..n |-> IF i = n THEN 0 ELSE q[i + 1]]
<1>1. /\ \A i \in 1..n : q[i] \in Pending(list) /\ list.next[q[i]] = IF i = n THEN 0 ELSE q[i + 1]
      /\ list.head = IF n = 0 THEN 0 ELSE q[1]
  BY DEF Ordered
<1>2. g[0] = list.head
  BY <1>1
<1>3. ASSUME NEW i \in 1..n PROVE g[i - 1] = q[i] /\ g[i] = list.next[q[i]] /\ q[i] \in Pending(list)
  <2>1. i - 1 \in 0..n /\ i - 1 # n /\ (i - 1) + 1 = i /\ i \in 0..n
    OBVIOUS
  <2>2. QED
    BY <1>1, <2>1
<1>4. \A i \in 0..n : g[i] = IF i = n THEN 0 ELSE q[i + 1]
  OBVIOUS
<1>5. g = [i \in 0..n |-> g[i]]
  OBVIOUS
<1> HIDE DEF g
<1>6. Walks(list, n, g)
  <2>1. ASSUME NEW i \in 0..n
        PROVE  g[i] = IF i = 0 THEN list.head
                      ELSE IF g[i - 1] \in Pending(list) THEN list.next[g[i - 1]] ELSE 0
    <3>1. CASE i = 0
      BY <1>2, <3>1
    <3>2. CASE i # 0
      <4>1. i \in 1..n
        BY <3>2
      <4>2. QED
        BY <1>3, <3>2, <4>1
    <3>3. QED
      BY <3>1, <3>2
  <2>2. QED
    BY <1>5, <2>1 DEF Walks
<1>7. ASSUME NEW f, Walks(list, n, f) PROVE \A i \in 0..n : f[i] = g[i]
  <2> DEFINE A == {i \in 0..n : f[i] = g[i]}
  <2>1. /\ f[0] = list.head
        /\ \A i \in 1..n : f[i] = IF f[i - 1] \in Pending(list) THEN list.next[f[i - 1]] ELSE 0
    <3>1. \A i \in 0..n : f[i] = IF i = 0 THEN list.head
                                 ELSE IF f[i - 1] \in Pending(list) THEN list.next[f[i - 1]] ELSE 0
      BY <1>7 DEF Walks
    <3>2. 0 \in 0..n /\ \A i \in 1..n : i \in 0..n /\ i # 0
      OBVIOUS
    <3>3. QED
      BY <3>1, <3>2
  <2>2. 0 \in A
    BY <1>2, <2>1
  <2>3. ASSUME NEW i \in 1..n, i - 1 \in A PROVE i \in A
    <3>1. f[i - 1] = q[i]
      BY <1>3, <2>3
    <3>2. QED
      BY <1>3, <2>1, <3>1
  <2> HIDE DEF A
  <2>4. \A i \in 0..n : i \in A
    BY <2>2, <2>3, Induction
  <2>5. QED
    BY <2>4 DEF A
<1>8. QED
  BY <1>4, <1>6, <1>7

LEMMA ChainedThreads ==
    ASSUME NEW E, NEW list \in Lists(E), Chained(list)
    PROVE  Threaded(list)
<1>1. PICK n \in Nat : \E q : Ordered(list, q, n)
  BY DEF Chained
<1>2. PICK q : Ordered(list, q, n)
  BY <1>1
<1>3. Cardinality(Pending(list)) = n /\ Pending(list) \subseteq IDs
  BY <1>2, OrderCount, ListFacts
<1> DEFINE at == CHOOSE f : Walks(list, n, f)
<1>4. Walks(list, n, at)
  BY <1>2, WalkIs
<1>5. \A i \in 0..n : at[i] = IF i = n THEN 0 ELSE q[i + 1]
  BY <1>2, <1>4, WalkIs
<1>6. at = CHOOSE f : f = [i \in 0..n |-> IF i = 0 THEN list.head
                                          ELSE IF f[i - 1] \in Pending(list) THEN list.next[f[i - 1]] ELSE 0]
  BY DEF Walks
<1> HIDE DEF at
<1>7. /\ \A i \in 1..n : q[i] \in Pending(list) /\ list.next[q[i]] = IF i = n THEN 0 ELSE q[i + 1]
      /\ \A i \in 1..n : list.previous[q[i]] = IF i = 1 THEN 0 ELSE q[i - 1]
      /\ \A x \in Pending(list) : \E i \in 1..n : q[i] = x
      /\ \A i, j \in 1..n : i <= j => list.map[q[i]].age >= list.map[q[j]].age
      /\ list.tail = IF n = 0 THEN 0 ELSE q[n]
  BY <1>2 DEF Ordered
<1>8. at[n] = 0
  BY <1>5
<1>9. {at[i] : i \in 0..n} \ {0} = Pending(list)
  <2>1. ASSUME NEW x \in Pending(list) PROVE x \in {at[i] : i \in 0..n} \ {0}
    <3>1. PICK i \in 1..n : q[i] = x
      BY <1>7
    <3>2. i - 1 \in 0..n /\ i - 1 # n /\ (i - 1) + 1 = i
      OBVIOUS
    <3>3. at[i - 1] = x /\ x # 0
      BY <1>3, <1>5, <3>1, <3>2 DEF IDs
    <3>4. QED
      BY <3>2, <3>3
  <2>2. ASSUME NEW i \in 0..n, at[i] # 0 PROVE at[i] \in Pending(list)
    <3>1. i # n /\ i + 1 \in 1..n
      BY <1>5, <2>2
    <3>2. QED
      BY <1>5, <1>7, <3>1
  <2>3. QED
    BY <2>1, <2>2
<1>10. ASSUME NEW id \in Pending(list), list.next[id] # 0
       PROVE  list.previous[list.next[id]] = id /\ list.map[id].age >= list.map[list.next[id]].age
  <2>1. PICK i \in 1..n : q[i] = id
    BY <1>7
  <2>2. i # n /\ list.next[id] = q[i + 1]
    BY <1>7, <1>10, <2>1
  <2>3. i + 1 \in 1..n /\ i + 1 # 1 /\ (i + 1) - 1 = i /\ i <= i + 1
    BY <2>2
  <2>4. list.previous[q[i + 1]] = q[i]
    BY <1>7, <2>3
  <2>5. list.map[q[i]].age >= list.map[q[i + 1]].age
    BY <1>7, <2>3
  <2>6. QED
    BY <2>1, <2>2, <2>4, <2>5
<1>11. list.tail = IF n = 0 THEN 0 ELSE at[n - 1]
  <2>1. n # 0 => n - 1 \in 0..n /\ n - 1 # n /\ (n - 1) + 1 = n
    OBVIOUS
  <2>2. QED
    BY <1>5, <1>7, <2>1
<1>12. QED
  BY <1>3, <1>6, <1>8, <1>9, <1>10, <1>11 DEF Threaded

LEMMA RingCounts ==
    ASSUME Inv, NEW w \in {rx.groupWindow, rx.datagramWindow}
    PROVE  /\ w.completedCount = Cardinality(w.completed)
           /\ w.expiredCount = Cardinality(w.expired)
           /\ w.completed \cap w.expired = {}
<1>1. WindowOK(rx.groupWindow) /\ WindowOK(rx.datagramWindow)
  <2>1. CASE rx.closed
    BY <2>1, SpanType, NewWindowFacts DEF Inv, Forgotten
  <2>2. CASE ~rx.closed
    BY <2>2, SaneParts DEF Inv
  <2>3. QED
    BY <2>1, <2>2
<1>2. QED
  BY <1>1 DEF WindowOK

LEMMA InvBooks ==
    ASSUME Inv, Credited
    PROVE  BooksExact
<1>1. rx \in Receivers /\ Chained(rx.groups) /\ Chained(rx.originals) /\ rx.out = <<>> /\ rx.ended = {}
  BY DEF Inv
<1>2. Books(rx, held)
  BY DEF Credited
<1>3. /\ Account(rx, held, 0) /\ GroupBooks(rx) /\ rx.used <= Credit
      /\ Cardinality(Pending(rx.originals)) <= MaxDatagrams
  BY <1>2 DEF Books
<1>4. /\ LeaseSum(rx.groups) \in Nat /\ ChargeSum(rx.originals) \in Nat /\ HeldSum(Reader(rx, held)) \in Nat
      /\ rx.used \in Int
      /\ IsFiniteSet(Pending(rx.originals)) /\ IsFiniteSet(Pending(rx.groups))
      /\ rx.groups \in Lists(GroupEntries) /\ rx.originals \in Lists(OriginalEntries)
  BY <1>1, <1>3, ClosedSums
<1>5. Reader(rx, held) = held
  BY <1>1, NothingHanded
<1>6. held \subseteq Holdings /\ IsFiniteSet(held) /\ HeldSum(held) \in Nat
      /\ rx.used = LeaseSum(rx.groups) + ChargeSum(rx.originals) + HeldSum(held) + 0
  BY <1>3, <1>4, <1>5 DEF Account
<1>7. rx.used = LeaseSum(rx.groups) + ChargeSum(rx.originals) + HeldSum(held)
  BY <1>4, <1>6
<1>8. rx.used \in 0..Credit
  BY <1>3, <1>4, <1>6, <1>7, LinkChargeType
<1>9. /\ LeaseSum(rx.groups) = MapThenSumSet(LAMBDA id : rx.groups.map[id].lease, Pending(rx.groups))
      /\ ChargeSum(rx.originals)
           = MapThenSumSet(LAMBDA id : rx.originals.map[id].total + LinkCharge, Pending(rx.originals))
      /\ HeldSum(held) = MapThenSumSet(LAMBDA d : d.total, held)
  BY <1>4, <1>6, LeaseFold, ChargeFold, HeldFold
<1>10. rx.used = MapThenSumSet(LAMBDA id : rx.groups.map[id].lease, Pending(rx.groups))
                  + MapThenSumSet(LAMBDA id : rx.originals.map[id].total + LinkCharge, Pending(rx.originals))
                  + MapThenSumSet(LAMBDA d : d.total, held)
  BY <1>7, <1>9
<1>11. /\ rx.decodedGroups = Cardinality({id \in Pending(rx.groups) : rx.groups.map[id].decoded})
       /\ Cardinality(Pending(rx.groups)) <= MaxPendingGroups
  BY <1>3 DEF GroupBooks, DecodedIds
<1>12. rx.decodedGroups \in 0..MaxPendingGroups
  <2> DEFINE A == DecodedIds(rx.groups)
             B == Pending(rx.groups)
  <2>1. rx.decodedGroups = Cardinality(A) /\ A \subseteq B /\ IsFiniteSet(B) /\ Cardinality(B) <= MaxPendingGroups
    BY <1>3, <1>4 DEF GroupBooks, DecodedIds
  <2> HIDE DEF A, B
  <2>2. IsFiniteSet(A) /\ Cardinality(A) <= Cardinality(B)
    BY <2>1, FS_Subset
  <2>3. Cardinality(A) \in Nat /\ Cardinality(B) \in Nat
    BY <2>1, <2>2, FS_CardinalityType
  <2>4. MaxPendingGroups \in Int
    BY LimitsAssumption
  <2>5. QED
    BY <2>1, <2>2, <2>3, <2>4
<1>13. TypeOK
  BY <1>1, <1>3, <1>8, <1>11, <1>12 DEF TypeOK
<1>14. Threaded(rx.groups) /\ Threaded(rx.originals)
  BY <1>1, <1>4, ChainedThreads
<1>15. \A w \in {rx.groupWindow, rx.datagramWindow} :
          /\ w.completedCount = Cardinality(w.completed)
          /\ w.expiredCount = Cardinality(w.expired)
          /\ w.completed \cap w.expired = {}
  BY RingCounts
<1>16. QED
  BY <1>10, <1>11, <1>13, <1>14, <1>15, Zenon DEF BooksExact

\* In every reachable state every unit of the Session's credit is that of a
\* pending group, of a Datagram being reassembled or of one the reader holds,
\* also after an admission that failed half way and gave its reservations back;
\* the credit, the pending groups and the Datagrams stay within their limits,
\* and the count of decoded groups, the counts of both rings and the threads of
\* both lists are exact: whatever arrives, expires, is retried or released.
THEOREM CreditExact == Spec => []BooksExact
<1>1. Init => Inv /\ Credited
  BY InvInit, CreditedInit
<1>2. Inv /\ Credited /\ [Next]_vars => Inv' /\ Credited'
  BY InvNext, CreditedNext
<1>3. Inv /\ Credited => BooksExact
  BY InvBooks
<1>4. QED
  BY <1>1, <1>2, <1>3, PTL DEF Spec
=============================================================================
