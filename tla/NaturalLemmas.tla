--------------------------- MODULE NaturalLemmas ----------------------------
(***************************************************************************)
(* What Min and Max choose, and which cells of a ring positions fall on.   *)
(* Where a property of the numbers below n would be proved by induction,   *)
(* the other proofs take the least number without it by MinIs.             *)
(***************************************************************************)
EXTENDS Naturals, Integers, FiniteSetsExt, WellFoundedInduction, TLAPS

-----------------------------------------------------------------------------
(* Least and greatest numbers.                                             *)

LEMMA LessIsWellFounded ==
    IsWellFoundedOn({p \in Nat \X Nat : p[1] < p[2]}, Nat)
BY NatLessThanWellFounded DEF OpToRel

\* Min is the least element of a set of naturals.
LEMMA MinIs ==
    ASSUME NEW S, S \subseteq Nat, S # {}
    PROVE  Min(S) \in S /\ \A n \in S : Min(S) <= n
<1> DEFINE Less == {p \in Nat \X Nat : p[1] < p[2]}
<1>1. PICK m \in S : \A n \in S : ~(<<n, m>> \in Less)
  <2> HIDE DEF Less
  <2>1. IsWellFoundedOn(Less, Nat)
    BY LessIsWellFounded DEF Less
  <2> QED
    BY <2>1, WFMin
<1>2. ASSUME NEW n \in S
      PROVE  m <= n
  <2>1. ~(<<n, m>> \in Less)
    BY <1>1
  <2>2. <<n, m>> \in Nat \X Nat
    OBVIOUS
  <2>3. ~(n < m)
    BY <2>1, <2>2
  <2> QED
    BY <2>3
<1> QED
  BY <1>2 DEF Min

\* Max is the greatest element of a bounded set of naturals.
LEMMA MaxIs ==
    ASSUME NEW S, NEW n \in Nat, S \subseteq 1..n, S # {}
    PROVE  Max(S) \in S /\ \A m \in S : m <= Max(S)
<1> DEFINE T == {n - m : m \in S}
<1>1. \A m \in S : m \in Nat /\ m <= n
  OBVIOUS
<1>2. T \subseteq Nat /\ T # {}
  <2>1. ASSUME NEW t \in T
        PROVE  t \in Nat
    <3>1. PICK m \in S : t = n - m
      OBVIOUS
    <3> QED
      BY <3>1, <1>1
  <2> QED
    BY <2>1
<1>3. Min(T) \in T /\ \A t \in T : Min(T) <= t
  BY <1>2, MinIs
<1>4. PICK m \in S : Min(T) = n - m
  BY <1>3
<1>5. ASSUME NEW k \in S
      PROVE  m >= k
  <2>1. Min(T) <= n - k
    BY <1>3
  <2> QED
    BY <2>1, <1>1, <1>4
<1> QED
  BY <1>5 DEF Max

\* Shifting a set shifts its greatest element.
LEMMA MaxShift ==
    ASSUME NEW S, NEW n \in Nat, S \subseteq 1..n, S # {},
           NEW T, T \subseteq 1..(n + 1),
           \A i \in S : i + 1 \in T,
           \A i \in T : i = 1 \/ i - 1 \in S
    PROVE  Max(T) = Max(S) + 1
<1>1. Max(S) \in S /\ Max(S) \in 1..n /\ \A m \in S : m <= Max(S)
  BY MaxIs
<1>2. T # {} /\ n + 1 \in Nat
  BY <1>1
<1>3. Max(T) \in T /\ Max(T) \in 1..(n + 1) /\ \A m \in T : m <= Max(T)
  BY <1>2, MaxIs
<1>4. Max(S) + 1 <= Max(T)
  BY <1>1, <1>3
<1>5. Max(T) # 1
  BY <1>1, <1>3, <1>4
<1>6. Max(T) - 1 <= Max(S)
  BY <1>1, <1>3, <1>5
<1> QED
  BY <1>1, <1>3, <1>4, <1>6

-----------------------------------------------------------------------------
(* Positions in a ring of M cells.                                         *)

\* Two positions less than a turn of the ring apart have different cells.
LEMMA SameCell ==
    ASSUME NEW M \in Nat, M > 0, NEW p \in Nat, NEW q \in Nat,
           p <= q, q - p < M, p % M = q % M
    PROVE  p = q
<1> DEFINE a == p \div M
           b == q \div M
<1>1. a \in Nat /\ b \in Nat /\ p = M * a + (p % M) /\ q = M * b + (q % M)
  OBVIOUS
<1>2. p % M \in Nat
  OBVIOUS
<1> HIDE DEF a, b
<1>3. q - p = M * (b - a)
  BY <1>1, <1>2
<1>4. CASE b - a > 0
  <2>1. M * (b - a) >= M
    BY <1>1, <1>4
  <2> QED
    BY <2>1, <1>3
<1>5. CASE b - a <= 0
  <2>1. M * (b - a) <= 0
    BY <1>1, <1>5
  <2> QED
    BY <2>1, <1>3
<1> QED
  BY <1>1, <1>4, <1>5

\* The cell of a position at most a turn after l, counted from the cell of l.
LEMMA CellFrom ==
    ASSUME NEW M \in Nat, M > 0, NEW l \in Nat, NEW d \in 0..(M - 1)
    PROVE  (l + d) % M = IF (l % M) + d < M THEN (l % M) + d ELSE (l % M) + d - M
<1> DEFINE a == l \div M
<1>1. a \in Nat /\ l = M * a + (l % M) /\ l % M \in 0..(M - 1)
  OBVIOUS
<1>2. ASSUME NEW q \in Nat, NEW c \in 0..(M - 1)
      PROVE  (M * q + c) % M = c
  OBVIOUS
<1> HIDE DEF a
<1>3. CASE (l % M) + d < M
  <2>1. l + d = M * a + ((l % M) + d) /\ (l % M) + d \in 0..(M - 1)
    BY <1>1, <1>3
  <2> QED
    BY <2>1, <1>1, <1>2, <1>3
<1>4. CASE ~((l % M) + d < M)
  <2>1. M * (a + 1) = M * a + M
    BY <1>1
  <2>2. /\ l + d = M * (a + 1) + ((l % M) + d - M)
        /\ (l % M) + d - M \in 0..(M - 1)
    BY <2>1, <1>1, <1>4
  <2>3. a + 1 \in Nat
    BY <1>1
  <2> QED
    BY <2>2, <2>3, <1>2, <1>4
<1> QED
  BY <1>3, <1>4

-----------------------------------------------------------------------------
(* Recursive functions on the numbers up to n.  f[<<k, x>>] is the value   *)
(* at k from the value x at k - 1; R[k] holds the values possible at k.    *)

Follows(g, n, f, s0) ==
    g[0] = s0 /\ \A k \in 1..n : g[k] = f[<<k, g[k - 1]>>]

\* What each step keeps holds to the end.
LEMMA FoldStays ==
    ASSUME NEW n \in Nat, NEW R, NEW g, g[0] \in R[0],
           \A k \in 1..n : g[k - 1] \in R[k - 1] => g[k] \in R[k]
    PROVE  \A k \in 0..n : g[k] \in R[k]
<1> DEFINE Bad == {k \in 0..n : g[k] \notin R[k]}
<1>1. ASSUME Bad # {}
      PROVE  FALSE
  <2> DEFINE m == Min(Bad)
  <2>1. m \in Bad /\ \A k \in Bad : m <= k
    BY <1>1, MinIs
  <2> HIDE DEF m
  <2>2. m \in 0..n /\ g[m] \notin R[m] /\ m # 0
    BY <2>1
  <2>3. m \in 1..n /\ m - 1 \in 0..n /\ m - 1 < m
    BY <2>2
  <2>4. m - 1 \notin Bad
    BY <2>1, <2>3
  <2>5. g[m - 1] \in R[m - 1]
    BY <2>3, <2>4
  <2> QED
    BY <2>2, <2>3, <2>5
<1> QED
  BY <1>1

\* There is a function that follows f.
LEMMA FoldExists ==
    ASSUME NEW n \in Nat, NEW R, NEW f, NEW s0 \in R[0],
           \A k \in 1..n : \A x \in R[k - 1] : f[<<k, x>>] \in R[k]
    PROVE  \E g : DOMAIN g = 0..n /\ g = [k \in 0..n |-> g[k]] /\ Follows(g, n, f, s0)
<1> DEFINE Is(g, m) ==
              g = [k \in 0..m |-> g[k]] /\ Follows(g, m, f, s0)
                  /\ \A k \in 0..m : g[k] \in R[k]
           Bad == {m \in 0..n : ~ \E g : Is(g, m)}
<1>1. ASSUME Bad # {}
      PROVE  FALSE
  <2> DEFINE m == Min(Bad)
  <2>0. Bad \subseteq Nat
    OBVIOUS
  <2> HIDE DEF Bad
  <2>1. m \in Bad /\ \A k \in Bad : m <= k
    BY <1>1, <2>0, MinIs
  <2> USE DEF Bad
  <2> HIDE DEF m
  <2>2. m \in 0..n /\ ~ \E g : Is(g, m)
    BY <2>1
  <2>3. m # 0
    <3> DEFINE g == [k \in 0..0 |-> s0]
    <3>1. g[0] = s0 /\ \A k \in 0..0 : k = 0
      OBVIOUS
    <3>2. g = [k \in 0..0 |-> g[k]]
      OBVIOUS
    <3>3. \A k \in 1..0 : FALSE
      OBVIOUS
    <3> HIDE DEF g
    <3>4. Is(g, 0)
      BY <3>1, <3>2, <3>3 DEF Follows
    <3> QED
      BY <2>2, <3>4
  <2>4. m \in 1..n /\ m - 1 \in 0..n /\ m - 1 < m
    BY <2>2, <2>3
  <2>5. m - 1 \notin Bad
    BY <2>1, <2>4
  <2>6. \E g : Is(g, m - 1)
    BY <2>4, <2>5
  <2>7. PICK g : Is(g, m - 1)
    BY <2>6
  <2> DEFINE last == f[<<m, g[m - 1]>>]
             h == [k \in 0..m |-> IF k = m THEN last ELSE g[k]]
  <2>8. last \in R[m]
    <3>1. m - 1 \in 0..(m - 1)
      BY <2>4
    <3>2. g[m - 1] \in R[m - 1]
      BY <2>7, <3>1
    <3> QED
      BY <2>4, <3>2
  <2> HIDE DEF last
  <2>9. /\ h = [k \in 0..m |-> h[k]] /\ h[m] = last
        /\ \A k \in 0..(m - 1) : h[k] = g[k]
    BY <2>4
  <2>10. h[0] = s0
    BY <2>4, <2>7, <2>9 DEF Follows
  <2>11. ASSUME NEW k \in 1..m
         PROVE  h[k] = f[<<k, h[k - 1]>>]
    <3>1. k - 1 \in 0..(m - 1)
      BY <2>4
    <3>2. h[k - 1] = g[k - 1]
      BY <2>9, <3>1
    <3>3. CASE k = m
      BY <2>9, <3>2, <3>3 DEF last
    <3>4. CASE k # m
      <4>1. k \in 1..(m - 1) /\ k \in 0..(m - 1)
        BY <2>4, <3>4
      <4>2. g[k] = f[<<k, g[k - 1]>>]
        BY <2>7, <4>1 DEF Follows
      <4> QED
        BY <2>9, <3>2, <4>1, <4>2
    <3> QED
      BY <3>3, <3>4
  <2>12. ASSUME NEW k \in 0..m
         PROVE  h[k] \in R[k]
    <3>1. CASE k = m
      BY <2>8, <2>9, <3>1
    <3>2. CASE k # m
      <4>1. k \in 0..(m - 1)
        BY <2>4, <3>2
      <4> QED
        BY <2>7, <2>9, <4>1
    <3> QED
      BY <3>1, <3>2
  <2> HIDE DEF h
  <2>13. Is(h, m)
    BY <2>9, <2>10, <2>11, <2>12 DEF Follows
  <2> QED
    BY <2>2, <2>13
<1>2. n \notin Bad /\ n \in 0..n
  BY <1>1
<1>3. PICK g : Is(g, n)
  BY <1>2
<1> QED
  BY <1>3

\* What follows f is unique.
LEMMA FoldUnique ==
    ASSUME NEW n \in Nat, NEW f, NEW s0, NEW g, Follows(g, n, f, s0),
           NEW h, Follows(h, n, f, s0)
    PROVE  \A k \in 0..n : g[k] = h[k]
<1> DEFINE R == [k \in 0..n |-> {h[k]}]
<1>1. ASSUME NEW k \in 1..n, g[k - 1] \in R[k - 1]
      PROVE  g[k] \in R[k]
  <2>1. k - 1 \in 0..n /\ k \in 0..n
    OBVIOUS
  <2>2. g[k - 1] = h[k - 1]
    BY <1>1, <2>1
  <2> QED
    BY <2>1, <2>2 DEF Follows
<1>2. g[0] \in R[0]
  BY DEF Follows
<1>3. \A k \in 0..n : R[k] = {h[k]}
  OBVIOUS
<1> HIDE DEF R
<1>4. \A k \in 0..n : g[k] \in R[k]
  BY <1>1, <1>2, FoldStays
<1> QED
  BY <1>3, <1>4

\* There is one on all numbers.
StaysIn(f, S) == \A k \in Nat \ {0} : \A x \in S : f[<<k, x>>] \in S

FollowsOn(g, f, s0) == g[0] = s0 /\ \A k \in Nat \ {0} : g[k] = f[<<k, g[k - 1]>>]

LEMMA NatFoldExists ==
    ASSUME NEW S, NEW f, NEW s0 \in S, StaysIn(f, S)
    PROVE  \E g \in [Nat -> S] : FollowsOn(g, f, s0)
<1> DEFINE Is(g, n) == Follows(g, n, f, s0)
           part(n) == CHOOSE g : Is(g, n)
           g == [n \in Nat |-> part(n)[n]]
<1>1. ASSUME NEW n \in Nat
      PROVE  Is(part(n), n) /\ part(n)[n] \in S
  <2> DEFINE R == [k \in 0..n |-> S]
  <2>1. s0 \in R[0] /\ \A k \in 1..n : \A x \in R[k - 1] : f[<<k, x>>] \in R[k]
    BY DEF StaysIn
  <2>2. R[0] = S /\ R[n] = S
    OBVIOUS
  <2> HIDE DEF R
  <2>3. \E h : Is(h, n)
    BY <2>1, FoldExists
  <2>4. Is(part(n), n)
    BY <2>3
  <2> HIDE DEF part
  <2>5. \A k \in 0..n : part(n)[k] \in R[k]
    <3>1. part(n)[0] \in R[0]
      BY <2>1, <2>4 DEF Follows
    <3>2. \A k \in 1..n : part(n)[k - 1] \in R[k - 1] => part(n)[k] \in R[k]
      BY <2>1, <2>4 DEF Follows
    <3> QED
      BY <3>1, <3>2, FoldStays
  <2> QED
    BY <2>2, <2>4, <2>5
<1> HIDE DEF part
<1>2. g \in [Nat -> S]
  BY <1>1
<1>3. g[0] = s0
  BY <1>1 DEF Follows
<1>4. ASSUME NEW k \in Nat \ {0}
      PROVE  g[k] = f[<<k, g[k - 1]>>]
  <2>1. k \in Nat /\ k - 1 \in Nat /\ k - 1 \in 0..(k - 1) /\ k \in 1..k
    OBVIOUS
  <2>2. Follows(part(k), k - 1, f, s0)
    BY <1>1, <2>1 DEF Follows
  <2>3. part(k)[k - 1] = part(k - 1)[k - 1]
    BY <1>1, <2>1, <2>2, FoldUnique
  <2>4. part(k)[k] = f[<<k, part(k)[k - 1]>>]
    BY <1>1, <2>1 DEF Follows
  <2> QED
    BY <2>1, <2>3, <2>4
<1> HIDE DEF g
<1> QED
  BY <1>2, <1>3, <1>4 DEF FollowsOn


\* Induction, for what can be said with a set.
LEMMA NatAll ==
    ASSUME NEW S, 0 \in S, \A n \in Nat : n \in S => n + 1 \in S
    PROVE  Nat \subseteq S
<1> DEFINE Bad == {n \in Nat : n \notin S}
<1>1. ASSUME Bad # {}
      PROVE  FALSE
  <2> DEFINE m == Min(Bad)
  <2>1. m \in Bad /\ \A n \in Bad : m <= n
    BY <1>1, MinIs
  <2> HIDE DEF m
  <2>2. m # 0 /\ m \in Nat /\ m \notin S
    BY <2>1
  <2>3. m - 1 \in Nat /\ m - 1 \notin Bad /\ (m - 1) + 1 = m
    BY <2>1, <2>2
  <2>4. m - 1 \in S
    BY <2>3
  <2> QED
    BY <2>2, <2>3, <2>4
<1> QED
  BY <1>1
=============================================================================
