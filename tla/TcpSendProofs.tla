--------------------------- MODULE TcpSendProofs ----------------------------
(***************************************************************************)
(* What the sending half guarantees for every size of its queue, of its    *)
(* segments and of its congestion window, under acknowledgements and       *)
(* timeouts in any order.                                                  *)
(***************************************************************************)
EXTENDS TcpSend, NaturalLemmas, SequenceTheorems, Integers, TLAPS

-----------------------------------------------------------------------------
(* Arithmetic of a burst.                                                  *)

LEMMA LeastIs ==
    ASSUME NEW a \in Int, NEW b \in Int
    PROVE  /\ Least(a, b) \in {a, b} /\ Least(a, b) <= a /\ Least(a, b) <= b
           /\ Least(a, b) \in Int
BY DEF Least

LEMMA GreatestIs ==
    ASSUME NEW a \in Nat, NEW b \in Nat
    PROVE  Greatest(a, b) \in Nat /\ Greatest(a, b) >= a /\ Greatest(a, b) >= b
           /\ Greatest(a, b) \in {a, b}
BY DEF Greatest

LEMMA TimesGrows ==
    ASSUME NEW m \in Nat, NEW j \in Nat, NEW k \in Nat, j <= k
    PROVE  /\ j * m \in Nat /\ k * m \in Nat /\ j * m <= k * m
           /\ (k + 1) * m = k * m + m
<1>1. /\ j * m \in Nat /\ k * m \in Nat /\ (k - j) * m \in Nat
  OBVIOUS
<1>2. k * m = j * m + (k - j) * m
  OBVIOUS
<1>3. (k + 1) * m = k * m + m
  OBVIOUS
<1> QED
  BY <1>1, <1>2, <1>3

\* The segments a room of r bytes is cut into: all but the last are full.
LEMMA CutIs ==
    ASSUME NEW m \in Nat, m > 0, NEW r \in Nat, NEW k \in Nat, k >= 1,
           k <= (r + m - 1) \div m
    PROVE  (k - 1) * m < r /\ k * m = (k - 1) * m + m
<1> DEFINE q == (r + m - 1) \div m
<1>1. q \in Nat /\ q * m <= r + m - 1
  OBVIOUS
<1> HIDE DEF q
<1>2. k * m <= q * m /\ k * m \in Nat
  BY <1>1, TimesGrows DEF q
<1>3. k - 1 \in Nat /\ (k - 1) * m \in Nat /\ k * m = (k - 1) * m + m
  <2>1. k - 1 \in Nat /\ (k - 1) + 1 = k
    OBVIOUS
  <2>2. (k - 1) * m \in Nat /\ ((k - 1) + 1) * m = (k - 1) * m + m
    BY <2>1, TimesGrows
  <2> QED
    BY <2>1, <2>2
<1> QED
  BY <1>1, <1>2, <1>3

LEMMA Behind ==
    ASSUME NEW n \in Nat, NEW m \in Nat, NEW k \in Nat,
           1 <= k, k <= n + m, k \notin 1..n
    PROVE  \E i \in 1..m : k = n + i
<1>1. k - n \in 1..m /\ k = n + (k - n)
  OBVIOUS
<1> QED
  BY <1>1

-----------------------------------------------------------------------------
(* Filling the window.                                                     *)

LEMMA FieldsAre ==
    ASSUME NEW s \in SendWindow
    PROVE  /\ s.seq_front \in Nat /\ s.seq_back \in Nat /\ s.buf_back \in Nat
           /\ s.cwnd \in Nat /\ s.rwnd \in Nat
           /\ s.wnd \in Seq(Nat) /\ Len(s.wnd) \in Nat
           /\ \A k \in 1..Len(s.wnd) : s.wnd[k] \in Nat
<1>1. /\ s.seq_front \in Nat /\ s.seq_back \in Nat /\ s.buf_back \in Nat
      /\ s.cwnd \in 0..(CwndMod - 1) /\ s.rwnd \in 0..(BufferSize - 1)
      /\ s.wnd \in Seq(Nat)
  BY DEF SendWindow
<1>2. s.cwnd \in Nat /\ s.rwnd \in Nat
  BY <1>1, BufferAssumption, CwndAssumption
<1>3. Len(s.wnd) \in Nat /\ \A k \in 1..Len(s.wnd) : s.wnd[k] \in Nat
  BY <1>1
<1> QED
  BY <1>1, <1>2, <1>3

LEMMA RoomIs ==
    ASSUME NEW s \in SendWindow
    PROVE  /\ Room(s) \in Nat
           /\ Room(s) > 0 => Len(s.wnd) < s.cwnd
           /\ s.seq_back <= s.buf_back => Room(s) <= s.buf_back - s.seq_back
           /\ Room(s) = 0 /\ Len(s.wnd) < s.cwnd /\ s.seq_front = s.seq_back
                /\ s.seq_back < s.buf_back
              => s.rwnd = 0
<1>1. /\ s.seq_front \in Nat /\ s.seq_back \in Nat /\ s.buf_back \in Nat
      /\ s.cwnd \in Nat /\ s.rwnd \in Nat /\ Len(s.wnd) \in Nat
  BY FieldsAre
<1> DEFINE f == s.seq_front
           b == s.seq_back
           e == s.buf_back
           w == s.rwnd
           c == s.cwnd
           n == Len(s.wnd)
           left == w - (b - f)
<1>2. f \in Nat /\ b \in Nat /\ e \in Nat /\ w \in Nat /\ c \in Nat /\ n \in Nat
  BY <1>1
<1>3. Room(s) = IF n >= c \/ b < f \/ w < b - f THEN 0
                ELSE IF e < b THEN left ELSE Least(e - b, left)
  BY DEF Room
<1> HIDE DEF f, b, e, w, c, n
<1>4. CASE n >= c \/ b < f \/ w < b - f
  <2>1. Room(s) = 0
    BY <1>3, <1>4
  <2>2. n < c /\ f = b => FALSE
    BY <1>2, <1>4
  <2> QED
    BY <1>2, <2>1, <2>2 DEF f, b, e, w, c, n
<1>5. CASE ~(n >= c \/ b < f \/ w < b - f)
  <2>1. n < c /\ f <= b /\ left \in Nat
    BY <1>2, <1>5
  <2>2. Room(s) = IF e < b THEN left ELSE Least(e - b, left)
    BY <1>3, <1>5
  <2>3. b <= e => Room(s) = Least(e - b, left) /\ e - b \in Nat
    BY <1>2, <2>2
  <2>4. b <= e => Room(s) \in Nat /\ Room(s) <= e - b
                  /\ (Room(s) = 0 /\ f = b /\ b < e => w = 0)
    BY <1>2, <2>1, <2>3 DEF Least
  <2>5. e < b => Room(s) \in Nat
    BY <1>2, <2>1, <2>2
  <2> QED
    BY <1>2, <2>1, <2>4, <2>5 DEF f, b, e, w, c, n
<1> QED
  BY <1>4, <1>5

LEMMA BurstIs ==
    ASSUME NEW s \in SendWindow
    PROVE  /\ Burst(s) \in Nat
           /\ Burst(s) > 0 <=> Room(s) > 0
           /\ Burst(s) > 0 => Len(s.wnd) + Burst(s) <= s.cwnd
           /\ Burst(s) > 0 => Burst(s) <= (Room(s) + SegmentSize - 1) \div SegmentSize
<1> DEFINE m == SegmentSize
           r == Room(s)
           q == (r + m - 1) \div m
<1>1. m \in Nat /\ m > 0 /\ r \in Nat /\ (r > 0 => Len(s.wnd) < s.cwnd)
  BY SegmentAssumption, RoomIs
<1>2. s.cwnd \in Nat /\ Len(s.wnd) \in Nat
  BY FieldsAre
<1> HIDE DEF m, r
<1>3. ASSUME r > 0
      PROVE  q \in Nat /\ q >= 1
  <2>1. r + m - 1 >= m /\ r + m - 1 \in Nat
    BY <1>1, <1>3
  <2> QED
    BY <1>1, <2>1
<1> HIDE DEF q
<1>4. Burst(s) = IF r = 0 THEN 0 ELSE Least(q, s.cwnd - Len(s.wnd))
  BY DEF Burst, m, r, q
<1> QED
  BY <1>1, <1>2, <1>3, <1>4 DEF Least, m, r, q

LEMMA BurstEndIs ==
    ASSUME NEW s \in SendWindow
    PROVE  /\ \A k \in Nat : BurstEnd(s, k) \in Nat /\ BurstEnd(s, k) <= Room(s)
           /\ BurstEnd(s, 0) = 0
           /\ \A k \in 1..Burst(s) : /\ BurstEnd(s, k - 1) < BurstEnd(s, k)
                                     /\ BurstEnd(s, k) <= BurstEnd(s, k - 1) + SegmentSize
           /\ \A j, k \in Nat : j <= k => BurstEnd(s, j) <= BurstEnd(s, k)
<1> DEFINE m == SegmentSize
           r == Room(s)
<1>1. m \in Nat /\ m > 0 /\ r \in Nat
  BY SegmentAssumption, RoomIs
<1> HIDE DEF m, r
<1>2. \A k \in Nat : BurstEnd(s, k) = Least(k * m, r) /\ k * m \in Nat
  BY <1>1, TimesGrows DEF BurstEnd, m, r
<1>3. \A k \in Nat : BurstEnd(s, k) \in Nat /\ BurstEnd(s, k) <= r
  BY <1>1, <1>2 DEF Least
<1>4. 0 * m = 0
  BY <1>1
<1>5. ASSUME NEW k \in 1..Burst(s)
      PROVE  /\ BurstEnd(s, k - 1) < BurstEnd(s, k)
             /\ BurstEnd(s, k) <= BurstEnd(s, k - 1) + m
  <2>1. k \in Nat /\ k >= 1 /\ k - 1 \in Nat /\ k <= (r + m - 1) \div m
    <3>1. Burst(s) \in Nat /\ (Burst(s) > 0 => Burst(s) <= (r + m - 1) \div m)
      BY BurstIs DEF m, r
    <3>2. k \in Nat /\ k >= 1 /\ k <= Burst(s) /\ (r + m - 1) \div m \in Int
      BY <1>1, <3>1
    <3> QED
      BY <3>1, <3>2
  <2>2. (k - 1) * m < r /\ k * m = (k - 1) * m + m
    BY <1>1, <2>1, CutIs
  <2>3. /\ BurstEnd(s, k) = Least(k * m, r) /\ k * m \in Nat
        /\ BurstEnd(s, k - 1) = Least((k - 1) * m, r) /\ (k - 1) * m \in Nat
    BY <1>2, <2>1
  <2> DEFINE x == (k - 1) * m
             y == k * m
  <2> HIDE DEF x, y
  <2>4. x \in Nat /\ y \in Nat /\ x < r /\ y = x + m
    BY <2>2, <2>3 DEF x, y
  <2>5. BurstEnd(s, k) = Least(y, r) /\ BurstEnd(s, k - 1) = Least(x, r)
    BY <2>3 DEF x, y
  <2> QED
    BY <1>1, <2>4, <2>5 DEF Least
<1>6. ASSUME NEW j \in Nat, NEW k \in Nat, j <= k
      PROVE  BurstEnd(s, j) <= BurstEnd(s, k)
  <2> DEFINE x == j * m
             y == k * m
  <2>1. x \in Nat /\ y \in Nat /\ x <= y
    BY <1>1, <1>6, TimesGrows
  <2>2. BurstEnd(s, j) = Least(x, r) /\ BurstEnd(s, k) = Least(y, r)
    BY <1>2
  <2> HIDE DEF x, y
  <2> QED
    BY <1>1, <2>1, <2>2 DEF Least
<1> QED
  BY <1>1, <1>2, <1>3, <1>4, <1>5, <1>6 DEF Least, m, r

\* Filling the window appends the segments of the burst after the last one.
LEMMA GrowIs ==
    ASSUME NEW s \in SendWindow
    PROVE  LET g == GrowSend(s) IN
           /\ g \in SendWindow
           /\ g.seq_back = s.seq_back + BurstEnd(s, Burst(s))
           /\ Len(g.wnd) = Len(s.wnd) + Burst(s)
           /\ \A k \in 1..Len(s.wnd) : g.wnd[k] = s.wnd[k]
           /\ \A k \in 1..Burst(s) :
                 g.wnd[Len(s.wnd) + k] = LastEnd(s) + BurstEnd(s, k)
<1> DEFINE more == [k \in 1..Burst(s) |-> LastEnd(s) + BurstEnd(s, k)]
           back == s.seq_back + BurstEnd(s, Burst(s))
<1>1. s.wnd \in Seq(Nat) /\ s.seq_front \in Nat /\ s.seq_back \in Nat
  BY FieldsAre
<1>2. LastEnd(s) \in Nat
  BY <1>1 DEF LastEnd
<1>3. Burst(s) \in Nat /\ \A k \in Nat : BurstEnd(s, k) \in Nat
  BY BurstIs, BurstEndIs
<1>4. more \in Seq(Nat) /\ Len(more) = Burst(s)
  <2>1. \A k \in 1..Burst(s) : LastEnd(s) + BurstEnd(s, k) \in Nat
    <3>1. \A k \in 1..Burst(s) : BurstEnd(s, k) \in Nat
      BY <1>3
    <3> QED
      BY <1>2, <3>1
  <2> DEFINE n == Burst(s)
  <2>2. n \in Nat
    BY <1>3
  <2>3. more \in [1..n -> Nat]
    BY <2>1
  <2> HIDE DEF more, n
  <2>4. more \in Seq(Nat) /\ Len(more) = n
    BY <2>2, <2>3
  <2> QED
    BY <2>4 DEF n
<1>5. back \in Nat
  <2>1. BurstEnd(s, Burst(s)) \in Nat
    BY <1>3
  <2> QED
    BY <1>1, <2>1
<1>6. GrowSend(s) = [s EXCEPT !.wnd = s.wnd \o more, !.seq_back = back]
  BY DEF GrowSend
<1>7. \A k \in 1..Burst(s) : more[k] = LastEnd(s) + BurstEnd(s, k)
  OBVIOUS
<1> HIDE DEF more, back
<1>8. /\ s.wnd \o more \in Seq(Nat)
      /\ Len(s.wnd \o more) = Len(s.wnd) + Burst(s)
      /\ \A k \in 1..Len(s.wnd) : (s.wnd \o more)[k] = s.wnd[k]
      /\ \A k \in 1..Burst(s) : (s.wnd \o more)[Len(s.wnd) + k] = more[k]
  <2>1. /\ s.wnd \o more \in Seq(Nat)
        /\ Len(s.wnd \o more) = Len(s.wnd) + Len(more)
        /\ \A i \in 1..(Len(s.wnd) + Len(more)) :
              (s.wnd \o more)[i] = IF i <= Len(s.wnd) THEN s.wnd[i]
                                  ELSE more[i - Len(s.wnd)]
    BY <1>1, <1>4, ConcatProperties
  <2>2. Len(s.wnd) \in Nat /\ Len(more) \in Nat
    BY <1>1, <1>4
  <2>3. \A k \in 1..Len(s.wnd) : k \in 1..(Len(s.wnd) + Len(more)) /\ k <= Len(s.wnd)
    BY <2>2
  <2>4. \A k \in 1..Len(more) : /\ Len(s.wnd) + k \in 1..(Len(s.wnd) + Len(more))
                               /\ ~(Len(s.wnd) + k <= Len(s.wnd))
                               /\ (Len(s.wnd) + k) - Len(s.wnd) = k
    BY <2>2
  <2> QED
    BY <1>4, <2>1, <2>3, <2>4
<1>9. GrowSend(s) \in SendWindow /\ GrowSend(s).wnd = s.wnd \o more
      /\ GrowSend(s).seq_back = back
  BY <1>5, <1>6, <1>8 DEF SendWindow
<1> QED
  BY <1>6, <1>7, <1>8, <1>9 DEF back

\* What GrowSend leaves alone.
LEMMA GrowKeeps ==
    ASSUME NEW s \in SendWindow
    PROVE  LET g == GrowSend(s) IN
           /\ g.seq_front = s.seq_front /\ g.buf_back = s.buf_back
           /\ g.rwnd = s.rwnd /\ g.cwnd = s.cwnd /\ g.wait = s.wait
           /\ g.timer = s.timer /\ g.fin = s.fin
BY DEF GrowSend, SendWindow

\* The ends of the segments in flight never go back.
Ascends(s) ==
    \A k \in 1..Len(s.wnd) :
        /\ s.seq_front <= s.wnd[k]
        /\ \A j \in 1..k : s.wnd[j] <= s.wnd[k]

\* No segment is longer than SegmentSize, and only the first may be empty.
Cut(s) ==
    \A k \in 1..Len(s.wnd) :
        /\ s.wnd[k] - SegStart(s, k) <= SegmentSize
        /\ IF k = 1 THEN SegStart(s, k) <= s.wnd[k]
                    ELSE SegStart(s, k) < s.wnd[k]

InOrder(s) == Ascends(s) /\ Cut(s)

LEMMA LastEndIs ==
    ASSUME NEW s \in SendWindow
    PROVE  /\ LastEnd(s) \in Nat
           /\ s.wnd = <<>> => LastEnd(s) = s.seq_front
           /\ s.wnd # <<>> => Len(s.wnd) \in 1..Len(s.wnd) /\ LastEnd(s) = s.wnd[Len(s.wnd)]
           /\ InOrder(s) => /\ s.seq_front <= LastEnd(s)
                            /\ \A k \in 1..Len(s.wnd) : s.wnd[k] <= LastEnd(s)
<1>1. s.wnd \in Seq(Nat) /\ s.seq_front \in Nat
  BY FieldsAre
<1>2. CASE s.wnd = <<>>
  BY <1>1, <1>2 DEF LastEnd
<1>3. CASE s.wnd # <<>>
  <2>1. Len(s.wnd) \in Nat /\ Len(s.wnd) \in 1..Len(s.wnd)
    BY <1>1, <1>3
  <2>2. LastEnd(s) = s.wnd[Len(s.wnd)] /\ LastEnd(s) \in Nat
    BY <1>1, <1>3, <2>1 DEF LastEnd
  <2> QED
    BY <1>3, <2>1, <2>2 DEF InOrder, Ascends
<1> QED
  BY <1>2, <1>3

LEMMA GrowInOrder ==
    ASSUME NEW s \in SendWindow, InOrder(s)
    PROVE  InOrder(GrowSend(s))
<1> DEFINE g == GrowSend(s)
           n == Len(s.wnd)
           m == Burst(s)
           e == LastEnd(s)
<1>1. /\ Len(g.wnd) = n + m
      /\ \A k \in 1..n : g.wnd[k] = s.wnd[k]
      /\ \A k \in 1..m : g.wnd[n + k] = e + BurstEnd(s, k)
  BY GrowIs
<1>2. g.seq_front = s.seq_front
  BY GrowKeeps
<1>3. /\ m \in Nat
      /\ \A k \in Nat : BurstEnd(s, k) \in Nat
      /\ BurstEnd(s, 0) = 0
      /\ \A j, k \in Nat : j <= k => BurstEnd(s, j) <= BurstEnd(s, k)
      /\ \A k \in 1..m : /\ BurstEnd(s, k - 1) < BurstEnd(s, k)
                         /\ BurstEnd(s, k) <= BurstEnd(s, k - 1) + SegmentSize
  BY BurstIs, BurstEndIs
<1>4. /\ n \in Nat /\ s.seq_front \in Nat /\ s.wnd \in Seq(Nat)
      /\ \A k \in 1..n : s.wnd[k] \in Nat
  BY FieldsAre
<1>5. e \in Nat /\ s.seq_front <= e /\ \A k \in 1..n : s.wnd[k] <= e
  BY LastEndIs
<1>7. (s.wnd = <<>> => e = s.seq_front) /\ (s.wnd # <<>> => e = s.wnd[n])
  BY LastEndIs
<1> HIDE DEF g, n, m, e
<1>6. ASSUME NEW k \in 1..(n + m)
      PROVE  /\ g.seq_front <= g.wnd[k]
             /\ \A j \in 1..k : g.wnd[j] <= g.wnd[k]
  <2>1. CASE k \in 1..n
    <3>1. \A j \in 1..k : j \in 1..n
      BY <1>4, <2>1
    <3> QED
      BY <1>1, <1>2, <2>1, <3>1 DEF InOrder, Ascends, n
  <2>2. CASE k \notin 1..n
    <3>1. PICK i \in 1..m : k = n + i
      <4>1. k \in Nat /\ 1 <= k /\ k <= n + m
        BY <1>3, <1>4
      <4> QED
        BY <1>3, <1>4, <2>2, <4>1, Behind
    <3>2. g.wnd[k] = e + BurstEnd(s, i) /\ BurstEnd(s, i) \in Nat
      <4>1. g.wnd[n + i] = e + BurstEnd(s, i)
        BY <1>1
      <4>2. i \in Nat
        BY <1>3
      <4> QED
        BY <1>3, <3>1, <4>1, <4>2
    <3>3. g.seq_front <= g.wnd[k]
      BY <1>2, <1>4, <1>5, <3>2
    <3>4. ASSUME NEW j \in 1..k
          PROVE  g.wnd[j] <= g.wnd[k]
      <4>1. CASE j \in 1..n
        <5>1. g.wnd[j] = s.wnd[j] /\ s.wnd[j] \in Nat /\ s.wnd[j] <= e
          BY <1>1, <1>4, <1>5, <4>1
        <5> QED
          BY <1>5, <3>2, <5>1
      <4>2. CASE j \notin 1..n
        <5>1. PICK h \in 1..m : j = n + h
          <6>1. j \in Nat /\ 1 <= j /\ j <= n + m
            BY <1>3, <1>4, <3>1
          <6> QED
            BY <1>3, <1>4, <4>2, <6>1, Behind
        <5>2. h <= i /\ h \in Nat /\ i \in Nat
          BY <1>3, <1>4, <5>1, <3>1
        <5>3. BurstEnd(s, h) <= BurstEnd(s, i) /\ BurstEnd(s, h) \in Nat
          BY <1>3, <5>2
        <5> QED
          BY <1>1, <1>5, <3>2, <5>1, <5>3
      <4> QED
        BY <4>1, <4>2
    <3> QED
      BY <3>3, <3>4
  <2> QED
    BY <2>1, <2>2
<1>8. ASSUME NEW k \in 1..(n + m)
      PROVE  /\ g.wnd[k] - SegStart(g, k) <= SegmentSize
             /\ IF k = 1 THEN SegStart(g, k) <= g.wnd[k]
                         ELSE SegStart(g, k) < g.wnd[k]
  <2>1. CASE k \in 1..n
    <3>1. g.wnd[k] = s.wnd[k]
      BY <1>1, <2>1
    <3>2. SegStart(g, k) = SegStart(s, k)
      <4>1. k # 1 => k - 1 \in 1..n
        BY <1>4, <2>1
      <4> QED
        BY <1>1, <1>2, <4>1 DEF SegStart
    <3> QED
      BY <2>1, <3>1, <3>2 DEF InOrder, Cut, n
  <2>2. CASE k \notin 1..n
    <3>1. PICK i \in 1..m : k = n + i
      <4>1. k - n \in 1..m /\ k = n + (k - n)
        BY <1>3, <1>4, <2>2
      <4> QED
        BY <4>1
    <3>2. i \in Nat /\ i >= 1 /\ i - 1 \in Nat
      BY <1>3
    <3>3. g.wnd[k] = e + BurstEnd(s, i)
      BY <1>1, <3>1
    <3>4. SegStart(g, k) = e + BurstEnd(s, i - 1)
      <4>1. CASE k = 1
        <5>1. n = 0 /\ i = 1
          BY <1>4, <3>1, <3>2, <4>1
        <5>2. e = s.seq_front
          BY <1>4, <1>7, <5>1 DEF n
        <5>3. i - 1 = 0
          BY <5>1
        <5>4. SegStart(g, k) = e
          BY <1>2, <4>1, <5>2 DEF SegStart
        <5> QED
          BY <1>3, <1>5, <5>3, <5>4
      <4>2. CASE k # 1 /\ i = 1
        <5>1. k - 1 = n /\ n \in 1..n /\ s.wnd # <<>>
          BY <1>4, <3>1, <4>2 DEF n
        <5>2. SegStart(g, k) = e
          BY <1>1, <1>7, <4>2, <5>1 DEF SegStart
        <5>3. i - 1 = 0
          BY <4>2
        <5> QED
          BY <1>3, <1>5, <5>2, <5>3
      <4>3. CASE i # 1
        <5>1. i - 1 \in 1..m /\ k - 1 = n + (i - 1) /\ k # 1
          BY <1>3, <1>4, <3>1, <3>2, <4>3
        <5> QED
          BY <1>1, <5>1 DEF SegStart
      <4> QED
        BY <4>1, <4>2, <4>3
    <3>5. BurstEnd(s, i - 1) \in Nat /\ BurstEnd(s, i) \in Nat
      BY <1>3, <3>2
    <3>6. /\ BurstEnd(s, i - 1) < BurstEnd(s, i)
          /\ BurstEnd(s, i) <= BurstEnd(s, i - 1) + SegmentSize
      BY <1>3
    <3>7. SegmentSize \in Nat
      BY SegmentAssumption
    <3> QED
      BY <1>5, <3>3, <3>4, <3>5, <3>6, <3>7
  <2> QED
    BY <2>1, <2>2
<1>9. Ascends(g)
  BY <1>1, <1>6 DEF Ascends
<1>10. Cut(g)
  BY <1>1, <1>8 DEF Cut
<1> QED
  BY <1>9, <1>10 DEF InOrder, g

\* The segments in flight end where what counts as sent ends, and there are
\* no more of them than cwnd: with Cut, SegmentsTile of any window.
Tiles(s) ==
    /\ LastEnd(s) = s.seq_back
    /\ Len(s.wnd) <= s.cwnd

LEMMA StartsInOrder ==
    ASSUME NEW s \in SendWindow, InOrder(s), NEW k \in 1..Len(s.wnd)
    PROVE  SegStart(s, k) \in Nat /\ s.seq_front <= SegStart(s, k)
<1>1. s.seq_front \in Nat /\ \A j \in 1..Len(s.wnd) : s.wnd[j] \in Nat
  BY FieldsAre
<1>2. CASE k = 1
  BY <1>1, <1>2 DEF SegStart
<1>3. CASE k # 1
  <2>1. k - 1 \in 1..Len(s.wnd)
    BY <1>3
  <2>2. SegStart(s, k) = s.wnd[k - 1]
    BY <1>3 DEF SegStart
  <2> QED
    BY <1>1, <2>1, <2>2 DEF InOrder, Ascends
<1> QED
  BY <1>2, <1>3

LEMMA GrowLastEnd ==
    ASSUME NEW s \in SendWindow
    PROVE  LastEnd(GrowSend(s)) = LastEnd(s) + BurstEnd(s, Burst(s))
<1> DEFINE g == GrowSend(s)
           n == Len(s.wnd)
           m == Burst(s)
           e == LastEnd(s)
<1>1. /\ g \in SendWindow
      /\ Len(g.wnd) = n + m
      /\ \A k \in 1..n : g.wnd[k] = s.wnd[k]
      /\ \A k \in 1..m : g.wnd[n + k] = e + BurstEnd(s, k)
  BY GrowIs
<1>2. g.seq_front = s.seq_front
  BY GrowKeeps
<1>3. m \in Nat /\ BurstEnd(s, 0) = 0
  BY BurstIs, BurstEndIs
<1>4. n \in Nat /\ s.wnd \in Seq(Nat) /\ g.wnd \in Seq(Nat)
  BY <1>1, FieldsAre
<1>5. /\ e \in Nat
      /\ s.wnd = <<>> => e = s.seq_front
      /\ s.wnd # <<>> => n \in 1..n /\ e = s.wnd[n]
      /\ g.wnd = <<>> => LastEnd(g) = g.seq_front
      /\ g.wnd # <<>> => LastEnd(g) = g.wnd[Len(g.wnd)]
  BY <1>1, LastEndIs
<1> HIDE DEF g, n, m, e
<1>6. CASE m = 0
  <2>1. CASE s.wnd = <<>>
    <3>1. Len(g.wnd) = 0 /\ g.wnd = <<>>
      BY <1>1, <1>4, <1>6, <2>1 DEF n
    <3> QED
      BY <1>2, <1>3, <1>5, <1>6, <2>1, <3>1 DEF g, m, e
  <2>2. CASE s.wnd # <<>>
    <3>1. Len(g.wnd) = n /\ n \in 1..n /\ g.wnd # <<>>
      BY <1>1, <1>4, <1>5, <1>6, <2>2
    <3> QED
      BY <1>1, <1>3, <1>5, <1>6, <2>2, <3>1 DEF g, m, e
  <2> QED
    BY <2>1, <2>2
<1>7. CASE m # 0
  <2>1. m \in 1..m /\ g.wnd # <<>>
    BY <1>1, <1>3, <1>4, <1>7
  <2> QED
    BY <1>1, <1>5, <2>1 DEF g, m, e
<1> QED
  BY <1>6, <1>7

LEMMA GrowTiles ==
    ASSUME NEW s \in SendWindow, Tiles(s)
    PROVE  Tiles(GrowSend(s))
<1> DEFINE g == GrowSend(s)
           m == Burst(s)
<1>1. /\ Len(g.wnd) = Len(s.wnd) + m
      /\ g.seq_back = s.seq_back + BurstEnd(s, m)
      /\ g.cwnd = s.cwnd
  BY GrowIs, GrowKeeps
<1>2. m \in Nat /\ (m > 0 => Len(s.wnd) + m <= s.cwnd)
  BY BurstIs
<1>3. Len(s.wnd) \in Nat /\ s.cwnd \in Nat
  BY FieldsAre
<1>4. LastEnd(g) = g.seq_back
  BY <1>1, GrowLastEnd DEF Tiles
<1> HIDE DEF g, m
<1>5. Len(g.wnd) <= g.cwnd
  BY <1>1, <1>2, <1>3 DEF Tiles
<1> QED
  BY <1>4, <1>5 DEF Tiles, g

-----------------------------------------------------------------------------
(* Taking an acknowledgement in.                                           *)

LEMMA PoppedIs ==
    ASSUME NEW s \in SendWindow, NEW n \in 0..Len(s.wnd)
    PROVE  LET p == Popped(s, n) IN
           /\ p \in SendWindow
           /\ Len(p.wnd) = Len(s.wnd) - n
           /\ \A k \in 1..(Len(s.wnd) - n) : p.wnd[k] = s.wnd[n + k]
           /\ p.seq_front = IF n = 0 THEN s.seq_front ELSE s.wnd[n]
<1>1. s.wnd \in Seq(Nat) /\ s.seq_front \in Nat /\ Len(s.wnd) \in Nat
  BY FieldsAre
<1>2. CASE n = 0
  <2>1. Popped(s, n) = s
    BY <1>2 DEF Popped
  <2>2. \A k \in 1..Len(s.wnd) : n + k = k /\ Len(s.wnd) - n = Len(s.wnd)
    BY <1>1, <1>2
  <2>3. Len(s.wnd) = Len(s.wnd) - n
    BY <1>1, <1>2
  <2> QED
    BY <1>2, <2>1, <2>2, <2>3
<1>3. CASE n # 0
  <2> DEFINE rest == SubSeq(s.wnd, n + 1, Len(s.wnd))
             front == s.wnd[n]
  <2>1. Popped(s, n) = [s EXCEPT !.seq_front = front, !.wnd = rest]
    BY <1>3 DEF Popped
  <2>2. n \in 1..Len(s.wnd) /\ n \in Int /\ n + 1 \in Int /\ Len(s.wnd) \in Int
    BY <1>1, <1>3
  <2>3. front \in Nat
    BY <1>1, <2>2
  <2>4. \A i \in (n + 1)..Len(s.wnd) : s.wnd[i] \in Nat
    BY <1>1, <2>2
  <2>5. /\ rest \in Seq(Nat)
        /\ Len(rest) = IF n + 1 <= Len(s.wnd) THEN Len(s.wnd) - (n + 1) + 1 ELSE 0
        /\ \A i \in 1..(Len(s.wnd) - (n + 1) + 1) : rest[i] = s.wnd[(n + 1) + i - 1]
    BY <2>2, <2>4, SubSeqProperties
  <2> HIDE DEF rest, front
  <2>6. Len(rest) = Len(s.wnd) - n
    BY <1>1, <2>2, <2>5
  <2>7. \A k \in 1..(Len(s.wnd) - n) : rest[k] = s.wnd[n + k]
    <3>1. \A k \in 1..(Len(s.wnd) - n) : /\ k \in 1..(Len(s.wnd) - (n + 1) + 1)
                                         /\ (n + 1) + k - 1 = n + k
      BY <1>1, <2>2
    <3> QED
      BY <2>5, <3>1
  <2>8. /\ Popped(s, n) \in SendWindow
        /\ Popped(s, n).wnd = rest /\ Popped(s, n).seq_front = front
    BY <2>1, <2>3, <2>5 DEF SendWindow
  <2> QED
    BY <1>3, <2>1, <2>6, <2>7, <2>8 DEF front
<1> QED
  BY <1>2, <1>3

LEMMA PoppedKeeps ==
    ASSUME NEW s \in SendWindow, NEW n \in 0..Len(s.wnd)
    PROVE  LET p == Popped(s, n) IN
           /\ p.seq_back = s.seq_back /\ p.buf_back = s.buf_back
           /\ p.rwnd = s.rwnd /\ p.cwnd = s.cwnd /\ p.wait = s.wait
           /\ p.timer = s.timer /\ p.fin = s.fin
BY DEF Popped, SendWindow

LEMMA PoppedStarts ==
    ASSUME NEW s \in SendWindow, NEW n \in 0..Len(s.wnd),
           NEW k \in 1..(Len(s.wnd) - n)
    PROVE  SegStart(Popped(s, n), k) = SegStart(s, n + k)
<1> DEFINE p == Popped(s, n)
<1>1. /\ \A j \in 1..(Len(s.wnd) - n) : p.wnd[j] = s.wnd[n + j]
      /\ p.seq_front = IF n = 0 THEN s.seq_front ELSE s.wnd[n]
  BY PoppedIs
<1>2. Len(s.wnd) \in Nat
  BY DEF SendWindow
<1> HIDE DEF p
<1>3. CASE k = 1
  <2>1. n # 0 => n + k # 1 /\ (n + k) - 1 = n
    BY <1>2, <1>3
  <2>2. n = 0 => n + k = 1
    BY <1>3
  <2> QED
    BY <1>1, <1>3, <2>1, <2>2 DEF SegStart, p
<1>4. CASE k # 1
  <2>1. k - 1 \in 1..(Len(s.wnd) - n) /\ n + k # 1 /\ n + (k - 1) = (n + k) - 1
    BY <1>2, <1>4
  <2> QED
    BY <1>1, <1>4, <2>1 DEF SegStart, p
<1> QED
  BY <1>3, <1>4

LEMMA PoppedInOrder ==
    ASSUME NEW s \in SendWindow, NEW n \in 0..Len(s.wnd), InOrder(s)
    PROVE  LET p == Popped(s, n) IN
           /\ InOrder(p)
           /\ s.seq_front <= p.seq_front
           /\ LastEnd(p) = LastEnd(s)
<1> DEFINE p == Popped(s, n)
<1>1. /\ p \in SendWindow
      /\ Len(p.wnd) = Len(s.wnd) - n
      /\ \A k \in 1..(Len(s.wnd) - n) : p.wnd[k] = s.wnd[n + k]
      /\ p.seq_front = IF n = 0 THEN s.seq_front ELSE s.wnd[n]
  BY PoppedIs
<1>2. /\ Len(s.wnd) \in Nat /\ s.seq_front \in Nat /\ s.wnd \in Seq(Nat)
      /\ \A k \in 1..Len(s.wnd) : s.wnd[k] \in Nat
  BY FieldsAre
<1> HIDE DEF p
<1>3. n # 0 => n \in 1..Len(s.wnd)
  BY <1>2
<1>4. ASSUME NEW k \in 1..(Len(s.wnd) - n)
      PROVE  /\ p.seq_front <= p.wnd[k]
             /\ \A j \in 1..k : p.wnd[j] <= p.wnd[k]
  <2>1. /\ n + k \in 1..Len(s.wnd)
        /\ n # 0 => n \in 1..(n + k)
        /\ \A j \in 1..k : n + j \in 1..(n + k) /\ j \in 1..(Len(s.wnd) - n)
    BY <1>2
  <2>2. s.seq_front <= s.wnd[n + k] /\ \A j \in 1..(n + k) : s.wnd[j] <= s.wnd[n + k]
    BY <2>1 DEF InOrder, Ascends
  <2> QED
    BY <1>1, <2>1, <2>2
<1>5. s.seq_front <= p.seq_front
  BY <1>1, <1>2, <1>3 DEF InOrder, Ascends
<1>6. LastEnd(p) = LastEnd(s)
  <2>1. /\ s.wnd = <<>> => LastEnd(s) = s.seq_front
        /\ s.wnd # <<>> => LastEnd(s) = s.wnd[Len(s.wnd)]
        /\ p.wnd = <<>> => LastEnd(p) = p.seq_front
        /\ p.wnd # <<>> => LastEnd(p) = p.wnd[Len(p.wnd)]
    BY <1>1, LastEndIs
  <2>2. p.wnd \in Seq(Nat)
    BY <1>1 DEF SendWindow
  <2>3. CASE n = Len(s.wnd)
    <3>1. p.wnd = <<>>
      BY <1>1, <1>2, <2>2, <2>3
    <3>2. n = 0 <=> s.wnd = <<>>
      BY <1>2, <2>3
    <3> QED
      BY <1>1, <2>1, <2>3, <3>1, <3>2
  <2>4. CASE n # Len(s.wnd)
    <3>1. Len(p.wnd) \in 1..(Len(s.wnd) - n) /\ n + Len(p.wnd) = Len(s.wnd)
          /\ Len(s.wnd) # 0 /\ Len(p.wnd) # 0
      BY <1>1, <1>2, <2>4
    <3>2. p.wnd # <<>> /\ s.wnd # <<>>
      BY <3>1
    <3> QED
      BY <1>1, <2>1, <3>1, <3>2
  <2> QED
    BY <2>3, <2>4
<1>7. \A k \in 1..(Len(s.wnd) - n) : SegStart(p, k) = SegStart(s, n + k)
  BY PoppedStarts DEF p
<1>8. ASSUME NEW k \in 1..(Len(s.wnd) - n)
      PROVE  /\ p.wnd[k] - SegStart(p, k) <= SegmentSize
             /\ IF k = 1 THEN SegStart(p, k) <= p.wnd[k]
                         ELSE SegStart(p, k) < p.wnd[k]
  <2>1. n + k \in 1..Len(s.wnd) /\ (k # 1 => n + k # 1)
    BY <1>2
  <2>2. /\ s.wnd[n + k] - SegStart(s, n + k) <= SegmentSize
        /\ IF n + k = 1 THEN SegStart(s, n + k) <= s.wnd[n + k]
                        ELSE SegStart(s, n + k) < s.wnd[n + k]
    BY <2>1 DEF InOrder, Cut
  <2>3. s.wnd[n + k] \in Nat /\ SegStart(s, n + k) \in Nat
    BY <1>2, <2>1, StartsInOrder
  <2>4. p.wnd[k] = s.wnd[n + k] /\ SegStart(p, k) = SegStart(s, n + k)
    BY <1>1, <1>7
  <2> QED
    BY <2>1, <2>2, <2>3, <2>4
<1>9. Ascends(p)
  BY <1>1, <1>4 DEF Ascends
<1>10. Cut(p)
  BY <1>1, <1>8 DEF Cut
<1> QED
  BY <1>5, <1>6, <1>9, <1>10 DEF InOrder, p

LEMMA PoppedTiles ==
    ASSUME NEW s \in SendWindow, NEW n \in 0..Len(s.wnd), InOrder(s), Tiles(s)
    PROVE  Tiles(Popped(s, n))
<1> DEFINE p == Popped(s, n)
<1>1. Len(p.wnd) = Len(s.wnd) - n
  BY PoppedIs
<1>2. Len(s.wnd) \in Nat /\ s.cwnd \in Nat
  BY FieldsAre
<1>3. LastEnd(p) = p.seq_back /\ p.cwnd = s.cwnd
  BY PoppedInOrder, PoppedKeeps DEF Tiles
<1> HIDE DEF p
<1>4. Len(p.wnd) <= p.cwnd
  BY <1>1, <1>2, <1>3 DEF Tiles
<1> QED
  BY <1>3, <1>4 DEF Tiles, p

\* When a segment stays, the acknowledgement is not past its first byte.
LEMMA StopsBefore ==
    ASSUME NEW s \in SendWindow, NEW n \in 0..Len(s.wnd), NEW ack \in Nat,
           InOrder(s), PopsExactly(s, ack, n), n < Len(s.wnd)
    PROVE  ack <= Popped(s, n).seq_front
<1>1. n + 1 \in 1..Len(s.wnd) /\ 1 \in 1..(Len(s.wnd) - n)
  BY DEF SendWindow
<1>2. ~(ack > SegStart(s, n + 1))
  BY DEF PopsExactly
<1>3. SegStart(s, n + 1) \in Nat
  BY <1>1, StartsInOrder
<1>4. SegStart(Popped(s, n), 1) = SegStart(s, n + 1)
  BY <1>1, PoppedStarts
<1>5. SegStart(Popped(s, n), 1) = Popped(s, n).seq_front
  BY DEF SegStart
<1> QED
  BY <1>2, <1>3, <1>4, <1>5

\* ack is not inside a segment in flight: what it says of each is all or
\* nothing.
Whole(s, ack) ==
    \A k \in 1..Len(s.wnd) : ~ (SegStart(s, k) < ack /\ ack < s.wnd[k])

\* A segment goes when its first byte is acknowledged, so that less than a
\* segment goes that is not acknowledged, and none of it when the
\* acknowledgement is inside no segment.
LEMMA PoppedReach ==
    ASSUME NEW s \in SendWindow, NEW n \in 0..Len(s.wnd), NEW ack \in Nat,
           InOrder(s), PopsExactly(s, ack, n)
    PROVE  LET front == Greatest(ack, Popped(s, n).seq_front) IN
           /\ front = s.seq_front \/ front < ack + SegmentSize
           /\ Whole(s, ack) => front = Greatest(ack, s.seq_front)
<1> DEFINE f == Popped(s, n).seq_front
<1>1. f = IF n = 0 THEN s.seq_front ELSE s.wnd[n]
  BY PoppedIs
<1>2. s.seq_front <= f
  BY PoppedInOrder
<1>3. /\ s.seq_front \in Nat /\ SegmentSize \in Nat /\ SegmentSize > 0
      /\ n \in Nat /\ (n # 0 => n \in 1..Len(s.wnd))
      /\ \A k \in 1..Len(s.wnd) : s.wnd[k] \in Nat
  BY FieldsAre, SegmentAssumption
<1>4. f \in Nat
  BY <1>1, <1>3
<1> HIDE DEF f
<1>5. \/ f = s.seq_front
      \/ f < ack + SegmentSize /\ (Whole(s, ack) => f <= ack)
  <2>1. CASE n = 0
    BY <1>1, <2>1
  <2>2. CASE n # 0
    <3>1. n \in 1..Len(s.wnd) /\ n \in 1..n /\ f = s.wnd[n]
      BY <1>1, <1>3, <2>2
    <3>2. SegStart(s, n) \in Nat
      BY <3>1, StartsInOrder
    <3>3. /\ s.wnd[n] - SegStart(s, n) <= SegmentSize
          /\ IF n = 1 THEN SegStart(s, n) <= s.wnd[n] ELSE SegStart(s, n) < s.wnd[n]
      BY <3>1 DEF InOrder, Cut
    <3>4. SegStart(s, n) = s.wnd[n] \/ ack > SegStart(s, n)
      BY <3>1 DEF PopsExactly
    <3>5. CASE SegStart(s, n) = s.wnd[n]
      <4>1. n = 1
        BY <1>3, <3>1, <3>2, <3>3, <3>5
      <4>2. SegStart(s, n) = s.seq_front
        BY <4>1 DEF SegStart
      <4> QED
        BY <3>1, <3>5, <4>2
    <3>6. CASE ack > SegStart(s, n)
      <4>1. f < ack + SegmentSize
        BY <1>3, <1>4, <3>1, <3>2, <3>3, <3>6
      <4>2. Whole(s, ack) => f <= ack
        BY <1>4, <3>1, <3>2, <3>6 DEF Whole
      <4> QED
        BY <4>1, <4>2
    <3> QED
      BY <3>4, <3>5, <3>6
  <2> QED
    BY <2>1, <2>2
<1>6. /\ Greatest(ack, f) = s.seq_front \/ Greatest(ack, f) < ack + SegmentSize
      /\ Whole(s, ack) => Greatest(ack, f) = Greatest(ack, s.seq_front)
  <2>1. PICK a \in Nat, b \in Nat, m \in Nat \ {0} :
           a = f /\ b = s.seq_front /\ m = SegmentSize
    BY <1>3, <1>4
  <2>2. Greatest(ack, a) = b \/ Greatest(ack, a) < ack + m
    BY <1>5, <2>1 DEF Greatest
  <2>3. a <= ack => Greatest(ack, a) = ack /\ Greatest(ack, b) = ack
    BY <1>2, <2>1 DEF Greatest
  <2>4. Whole(s, ack) => Greatest(ack, a) = Greatest(ack, b)
    BY <1>5, <2>1, <2>3
  <2> QED
    BY <2>1, <2>2, <2>4
<1> QED
  BY <1>6 DEF f

\* The window after an acknowledgement, before anything else is done with it.
Acked(s, n, ack, w) == Jumped(Advertised(Popped(s, n), w), ack)

LEMMA AckedIs ==
    ASSUME NEW s \in SendWindow, NEW n \in 0..Len(s.wnd),
           NEW ack \in Nat, NEW w \in 0..(BufferSize - 1),
           InOrder(s), PopsExactly(s, ack, n)
    PROVE  LET t == Acked(s, n, ack, w) IN
           /\ t \in SendWindow /\ InOrder(t)
           /\ t.wnd = Popped(s, n).wnd
           /\ t.seq_front = Greatest(ack, Popped(s, n).seq_front)
           /\ t.seq_back = IF t.seq_front = Popped(s, n).seq_front THEN s.seq_back
                           ELSE Greatest(s.seq_back, ack)
           /\ t.seq_front = Popped(s, n).seq_front \/ Popped(s, n).wnd = <<>>
           /\ s.seq_front <= t.seq_front
           /\ t.buf_back = s.buf_back /\ t.wait = s.wait /\ t.cwnd = s.cwnd
           /\ t.rwnd = w
           /\ t.timer = IF w = 0 THEN "armed" ELSE s.timer
<1> DEFINE p == Popped(s, n)
           a == Advertised(p, w)
           t == Acked(s, n, ack, w)
<1>1. p \in SendWindow /\ Len(p.wnd) = Len(s.wnd) - n
  BY PoppedIs
<1>2. InOrder(p) /\ s.seq_front <= p.seq_front
  BY PoppedInOrder
<1>3. /\ p.seq_back = s.seq_back /\ p.buf_back = s.buf_back /\ p.wait = s.wait
      /\ p.cwnd = s.cwnd /\ p.timer = s.timer
  BY PoppedKeeps
<1>4. n < Len(s.wnd) => ack <= p.seq_front
  BY StopsBefore
<1>5. Len(s.wnd) \in Nat /\ s.seq_front \in Nat /\ s.seq_back \in Nat
  BY FieldsAre
<1>6. t = Jumped(Advertised(p, w), ack)
  BY DEF Acked
<1> HIDE DEF p, t
<1>7. p.seq_front \in Nat /\ p.seq_back \in Nat /\ p.wnd \in Seq(Nat)
  BY <1>1, FieldsAre
<1>8. /\ a \in SendWindow /\ a.wnd = p.wnd /\ a.seq_front = p.seq_front
      /\ a.seq_back = p.seq_back /\ a.buf_back = p.buf_back
      /\ a.wait = p.wait /\ a.cwnd = p.cwnd /\ a.rwnd = w
      /\ a.timer = IF w = 0 THEN "armed" ELSE p.timer
  BY <1>1 DEF Advertised, SendWindow
<1> HIDE DEF a
<1>9. CASE ack > p.seq_front
  <2> DEFINE back == Greatest(a.seq_back, ack)
  <2>1. t = [a EXCEPT !.seq_front = ack, !.seq_back = back]
    BY <1>6, <1>8, <1>9 DEF Jumped, a
  <2>2. back \in Nat
    BY <1>7, <1>8, GreatestIs
  <2> HIDE DEF back
  <2>3. /\ t \in SendWindow /\ t.wnd = p.wnd /\ t.seq_front = ack /\ t.seq_back = back
        /\ t.buf_back = a.buf_back /\ t.wait = a.wait /\ t.cwnd = a.cwnd
        /\ t.rwnd = a.rwnd /\ t.timer = a.timer
    BY <1>8, <2>1, <2>2 DEF SendWindow
  <2>4. Len(p.wnd) = 0 /\ p.wnd = <<>>
    BY <1>1, <1>4, <1>5, <1>7, <1>9
  <2>5. InOrder(t)
    BY <2>3, <2>4 DEF InOrder, Ascends, Cut
  <2>6. ack = Greatest(ack, p.seq_front) /\ s.seq_front <= ack /\ ack # p.seq_front
    BY <1>2, <1>5, <1>7, <1>9 DEF Greatest
  <2> QED
    BY <1>3, <1>8, <2>3, <2>4, <2>5, <2>6 DEF p, t, back
<1>10. CASE ~(ack > p.seq_front)
  <2>1. t = a
    BY <1>6, <1>8, <1>10 DEF Jumped, a
  <2>2. p.seq_front = Greatest(ack, p.seq_front)
    BY <1>7, <1>10 DEF Greatest
  <2>3. InOrder(t)
    BY <1>2, <1>8, <2>1 DEF InOrder, Ascends, Cut, SegStart
  <2> QED
    BY <1>2, <1>3, <1>8, <2>1, <2>2, <2>3 DEF p, t
<1> QED
  BY <1>9, <1>10

-----------------------------------------------------------------------------
(* Flattening.                                                             *)

\* f concatenates the sequences of ss, one after the other.
Joins(ss, f) ==
    \A i \in 1..Len(ss) : f[i] = IF i = 1 THEN ss[i] ELSE f[i - 1] \o ss[i]

\* FlattenSeq concatenates: its recursive function exists, and what it gives
\* is a sequence of the same elements.
LEMMA FlattenJoins ==
    ASSUME NEW S, NEW ss \in Seq(Seq(S))
    PROVE  \E f \in [1..Len(ss) -> Seq(S)] :
              /\ Joins(ss, f)
              /\ FlattenSeq(ss) = IF ss = <<>> THEN <<>> ELSE f[Len(ss)]
<1> DEFINE n == Len(ss)
           JoinsTo(g, m) ==
              \A i \in 1..m : g[i] = IF i = 1 THEN ss[i] ELSE g[i - 1] \o ss[i]
           Can(m) == \E g \in [1..m -> Seq(S)] : JoinsTo(g, m)
           Cannot == {m \in 0..n : ~Can(m)}
<1>1. n \in Nat /\ \A i \in 1..n : ss[i] \in Seq(S)
  OBVIOUS
<1> HIDE DEF n
<1>2. ASSUME Cannot # {}
      PROVE  FALSE
  <2> DEFINE m == Min(Cannot)
  <2>1. Cannot \subseteq Nat
    BY <1>1
  <2>2. m \in Cannot /\ \A j \in Cannot : m <= j
    BY <1>2, <2>1, MinIs
  <2> HIDE DEF m
  <2>3. m \in 0..n /\ ~Can(m)
    BY <2>2
  <2>4. m # 0
    <3> DEFINE g == [i \in 1..0 |-> <<>>]
    <3>1. g \in [1..0 -> Seq(S)] /\ JoinsTo(g, 0)
      OBVIOUS
    <3>2. Can(0)
      BY <3>1
    <3> QED
      BY <2>3, <3>2
  <2>5. m \in Nat /\ m \in 1..n /\ m - 1 \in 0..n
    BY <1>1, <2>3, <2>4
  <2>6. m - 1 \notin Cannot
    BY <2>2, <2>5
  <2>7. Can(m - 1)
    BY <2>5, <2>6
  <2>8. PICK g \in [1..(m - 1) -> Seq(S)] : JoinsTo(g, m - 1)
    BY <2>7
  <2> DEFINE last == IF m = 1 THEN ss[m] ELSE g[m - 1] \o ss[m]
             h == [i \in 1..m |-> IF i = m THEN last ELSE g[i]]
  <2>9. last \in Seq(S)
    <3>1. ss[m] \in Seq(S)
      BY <1>1, <2>5
    <3>2. m # 1 => m - 1 \in 1..(m - 1)
      BY <2>5
    <3>3. m # 1 => g[m - 1] \in Seq(S)
      BY <3>2
    <3> QED
      BY <3>1, <3>3, ConcatProperties
  <2> HIDE DEF last
  <2>10. h \in [1..m -> Seq(S)]
    <3>1. \A i \in 1..m : i # m => i \in 1..(m - 1)
      BY <2>5
    <3> QED
      BY <2>9, <3>1
  <2>11. ASSUME NEW i \in 1..m
         PROVE  h[i] = IF i = 1 THEN ss[i] ELSE h[i - 1] \o ss[i]
    <3>1. i # 1 => i - 1 \in 1..m /\ i - 1 # m
      BY <2>5
    <3>2. i # 1 => h[i - 1] = g[i - 1]
      BY <3>1
    <3>3. CASE i = m
      BY <3>2, <3>3 DEF last
    <3>4. CASE i # m
      <4>1. i \in 1..(m - 1)
        BY <2>5, <3>4
      <4>2. h[i] = g[i]
        BY <3>4
      <4> QED
        BY <2>8, <3>2, <4>1, <4>2
    <3> QED
      BY <3>3, <3>4
  <2> HIDE DEF h
  <2>12. JoinsTo(h, m)
    BY <2>11
  <2>13. Can(m)
    BY <2>10, <2>12
  <2> QED
    BY <2>3, <2>13
<1>3. PICK f \in [1..n -> Seq(S)] : JoinsTo(f, n)
  <2>1. n \in 0..n
    BY <1>1
  <2>2. Can(n)
    <3>1. Cannot = {}
      BY <1>2
    <3> QED
      BY <2>1, <3>1
  <2> QED
    BY <2>2
<1> DEFINE Body(g) == [i \in 1..n |-> IF i = 1 THEN ss[i] ELSE g[i - 1] \o ss[i]]
           flat == CHOOSE g : g = Body(g)
<1>4. f = Body(f)
  BY <1>3
<1>5. flat = Body(flat)
  BY <1>4
<1> HIDE DEF flat
<1>6. \A i \in 1..n : flat[i] = IF i = 1 THEN ss[i] ELSE flat[i - 1] \o ss[i]
  BY <1>5
<1> DEFINE Odd == {i \in 1..n : flat[i] \notin Seq(S)}
<1>7. ASSUME Odd # {}
      PROVE  FALSE
  <2> DEFINE m == Min(Odd)
  <2>1. Odd \subseteq Nat
    BY <1>1
  <2>2. m \in Odd /\ \A j \in Odd : m <= j
    BY <1>7, <2>1, MinIs
  <2> HIDE DEF m
  <2>3. m \in 1..n /\ flat[m] \notin Seq(S) /\ ss[m] \in Seq(S)
    BY <1>1, <2>2
  <2>4. CASE m = 1
    BY <1>6, <2>3, <2>4
  <2>5. CASE m # 1
    <3>1. m - 1 \in 1..n /\ ~(m <= m - 1)
      BY <1>1, <2>3, <2>5
    <3>2. flat[m - 1] \in Seq(S)
      BY <2>2, <3>1
    <3>3. flat[m] = flat[m - 1] \o ss[m]
      BY <1>6, <2>3, <2>5
    <3> QED
      BY <2>3, <3>2, <3>3, ConcatProperties
  <2> QED
    BY <2>4, <2>5
<1>8. flat \in [1..n -> Seq(S)]
  <2>1. flat = Body(flat)
    BY <1>5
  <2>2. \A i \in 1..n : flat[i] \in Seq(S)
    BY <1>7
  <2> QED
    BY <2>1, <2>2
<1>9. FlattenSeq(ss) = IF ss = <<>> THEN <<>> ELSE flat[n]
  <2>1. CASE n = 0
    <3>1. FlattenSeq(ss) = ss /\ ss = <<>>
      BY <2>1 DEF FlattenSeq, n
    <3> QED
      BY <3>1
  <2>2. CASE n # 0
    <3>1. FlattenSeq(ss) = flat[n]
      BY <2>2 DEF FlattenSeq, flat, n
    <3>2. ss # <<>>
      BY <2>2 DEF n
    <3> QED
      BY <3>1, <3>2
  <2> QED
    BY <2>1, <2>2
<1>10. Joins(ss, flat)
  BY <1>6 DEF Joins, n
<1> QED
  BY <1>8, <1>9, <1>10 DEF n

LEMMA FlattenIs ==
    ASSUME NEW S, NEW ss \in Seq(Seq(S))
    PROVE  FlattenSeq(ss) \in Seq(S)
<1>1. PICK f \in [1..Len(ss) -> Seq(S)] :
         FlattenSeq(ss) = IF ss = <<>> THEN <<>> ELSE f[Len(ss)]
  BY FlattenJoins
<1>2. ss # <<>> => Len(ss) \in 1..Len(ss)
  OBVIOUS
<1> QED
  BY <1>1, <1>2

LEMMA FlattenNone == FlattenSeq(<<>>) = <<>>
<1>1. <<>> \in Seq(Seq({}))
  OBVIOUS
<1> QED
  BY <1>1, FlattenJoins

\* tt begins with all of ss.
Continues(tt, ss) ==
    /\ Len(ss) \in Nat /\ Len(tt) \in Nat /\ Len(ss) <= Len(tt)
    /\ \A i \in 1..Len(ss) : tt[i] = ss[i]

SameUpTo(f, g, n) == \A i \in 1..n : g[i] = f[i]

\* Joining goes the same way through two sequences that begin alike.
LEMMA JoinsAlike ==
    \A ss, tt, f, g : Joins(ss, f) /\ Joins(tt, g) /\ Continues(tt, ss)
                         => SameUpTo(f, g, Len(ss))
<1> SUFFICES ASSUME NEW ss, NEW tt, NEW f, NEW g, Joins(ss, f), Joins(tt, g),
                    Continues(tt, ss)
             PROVE  SameUpTo(f, g, Len(ss))
  OBVIOUS
<1> SUFFICES \A i \in 1..Len(ss) : g[i] = f[i]
  BY DEF SameUpTo
<1> USE DEF Continues
<1> DEFINE Odd == {i \in 1..Len(ss) : g[i] # f[i]}
<1> SUFFICES ASSUME Odd # {}
             PROVE  FALSE
  OBVIOUS
<1> DEFINE i == Min(Odd)
<1>1. Odd \subseteq Nat
  OBVIOUS
<1>2. i \in Odd /\ \A j \in Odd : i <= j
  BY <1>1, MinIs
<1> HIDE DEF i
<1>3. i \in 1..Len(ss) /\ g[i] # f[i] /\ i \in 1..Len(tt)
  BY <1>2
<1>4. /\ f[i] = IF i = 1 THEN ss[i] ELSE f[i - 1] \o ss[i]
      /\ g[i] = IF i = 1 THEN tt[i] ELSE g[i - 1] \o tt[i]
  BY <1>3 DEF Joins
<1>5. i # 1 => g[i - 1] = f[i - 1]
  <2>1. i # 1 => i - 1 \in 1..Len(ss) /\ ~(i <= i - 1)
    BY <1>3
  <2> QED
    BY <1>2, <2>1
<1> QED
  BY <1>3, <1>4, <1>5

LEMMA FlattenAppend ==
    ASSUME NEW S, NEW ss \in Seq(Seq(S)), NEW x \in Seq(S)
    PROVE  FlattenSeq(Append(ss, x)) = FlattenSeq(ss) \o x
<1> DEFINE tt == Append(ss, x)
           n == Len(ss)
<1>1. /\ tt \in Seq(Seq(S)) /\ Len(tt) = n + 1 /\ n \in Nat
      /\ \A i \in 1..n : tt[i] = ss[i]
      /\ tt[n + 1] = x /\ tt # <<>>
  OBVIOUS
<1>2. PICK f \in [1..n -> Seq(S)] :
         Joins(ss, f) /\ FlattenSeq(ss) = IF ss = <<>> THEN <<>> ELSE f[n]
  BY FlattenJoins
<1>3. n = 0 <=> ss = <<>>
  OBVIOUS
<1> HIDE DEF tt, n
<1>4. PICK g \in [1..Len(tt) -> Seq(S)] :
         Joins(tt, g) /\ FlattenSeq(tt) = IF tt = <<>> THEN <<>> ELSE g[Len(tt)]
  BY <1>1, FlattenJoins
<1>5. \A i \in 1..n : g[i] = f[i]
  <2>1. Continues(tt, ss)
    BY <1>1 DEF n, Continues
  <2>2. SameUpTo(f, g, Len(ss))
    BY <1>2, <1>4, <2>1, JoinsAlike, Zenon
  <2> QED
    BY <2>2 DEF n, SameUpTo

<1>6. g[n + 1] = IF n + 1 = 1 THEN x ELSE g[n] \o x
  <2>1. n + 1 \in 1..Len(tt) /\ (n + 1) - 1 = n
    BY <1>1
  <2> QED
    BY <1>1, <1>4, <2>1 DEF Joins
<1>7. CASE n = 0
  <2>1. FlattenSeq(tt) = x /\ FlattenSeq(ss) = <<>>
    BY <1>1, <1>2, <1>3, <1>4, <1>6, <1>7
  <2> QED
    BY <2>1 DEF tt
<1>8. CASE n # 0
  <2>1. n \in 1..n /\ n + 1 # 1
    BY <1>1, <1>8
  <2> QED
    BY <1>1, <1>2, <1>3, <1>4, <1>5, <1>6, <1>8, <2>1 DEF tt
<1> QED
  BY <1>7, <1>8

LEMMA SliceGrows ==
    ASSUME NEW T, NEW ss \in Seq(T), NEW h \in 1..(Len(ss) + 1),
           NEW j \in Nat, h <= j + 1, j < Len(ss)
    PROVE  /\ SubSeq(ss, h, j) \in Seq(T)
           /\ SubSeq(ss, h, j + 1) = Append(SubSeq(ss, h, j), ss[j + 1])
<1> DEFINE a == SubSeq(ss, h, j)
           b == SubSeq(ss, h, j + 1)
           n == j + 1 - h
<1>1. Len(ss) \in Nat /\ \A i \in h..(j + 1) : ss[i] \in T
  OBVIOUS
<1>2. /\ a \in Seq(T) /\ Len(a) = n
      /\ \A i \in 1..n : a[i] = ss[h + i - 1]
  <2>1. h \in Int /\ j \in Int /\ \A i \in h..j : ss[i] \in T
    BY <1>1
  <2>2. /\ a \in Seq(T)
        /\ Len(a) = IF h <= j THEN j - h + 1 ELSE 0
        /\ \A i \in 1..(j - h + 1) : a[i] = ss[h + i - 1]
    BY <2>1, SubSeqProperties
  <2> QED
    BY <2>2
<1>3. /\ b \in Seq(T) /\ Len(b) = n + 1
      /\ \A i \in 1..(n + 1) : b[i] = ss[h + i - 1]
  <2>1. h \in Int /\ j + 1 \in Int
    OBVIOUS
  <2>2. /\ b \in Seq(T)
        /\ Len(b) = IF h <= j + 1 THEN (j + 1) - h + 1 ELSE 0
        /\ \A i \in 1..((j + 1) - h + 1) : b[i] = ss[h + i - 1]
    BY <1>1, <2>1, SubSeqProperties
  <2> QED
    BY <2>2
<1>4. n \in Nat /\ h + (n + 1) - 1 = j + 1 /\ ss[j + 1] \in T
  BY <1>1
<1> HIDE DEF a, b, n
<1>5. b = Append(a, ss[j + 1])
  <2>1. /\ Append(a, ss[j + 1]) \in Seq(T) /\ Len(Append(a, ss[j + 1])) = n + 1
        /\ \A i \in 1..(n + 1) : Append(a, ss[j + 1])[i] = ss[h + i - 1]
    BY <1>2, <1>4
  <2> QED
    BY <1>3, <1>4, <2>1
<1> QED
  BY <1>2, <1>5 DEF a, b

\* Flattening loses no byte and adds none, wherever the sequence is cut.
LEMMA FlattenSplit ==
    ASSUME NEW S, NEW ss \in Seq(Seq(S)), NEW k \in 0..Len(ss)
    PROVE  Len(FlattenSeq(ss)) = Len(FlattenSeq(SubSeq(ss, 1, k)))
                               + Len(FlattenSeq(SubSeq(ss, k + 1, Len(ss))))
<1> DEFINE n == Len(ss)
           pre(j) == SubSeq(ss, 1, j)
           rest(j) == SubSeq(ss, k + 1, j)
           size(tt) == Len(FlattenSeq(tt))
           Odd == {j \in k..n : size(pre(j)) # size(pre(k)) + size(rest(j))}
<1>1. n \in Nat /\ k \in Nat /\ k <= n /\ \A i \in 1..n : ss[i] \in Seq(S)
  OBVIOUS
<1>2. pre(n) = ss
  <2>1. 1 \in Int /\ n \in Int /\ \A i \in 1..n : ss[i] \in Seq(S)
    BY <1>1
  <2>2. /\ pre(n) \in Seq(Seq(S))
        /\ Len(pre(n)) = IF 1 <= n THEN n - 1 + 1 ELSE 0
        /\ \A i \in 1..(n - 1 + 1) : pre(n)[i] = ss[1 + i - 1]
    BY <2>1, SubSeqProperties
  <2> HIDE DEF pre
  <2>3. Len(pre(n)) = n /\ \A i \in 1..n : pre(n)[i] = ss[i]
    BY <1>1, <2>2
  <2> QED
    BY <2>2, <2>3
<1>3. rest(k) = <<>>
  BY <1>1
<1>4. ASSUME NEW j \in Nat, j < n
      PROVE  /\ pre(j) \in Seq(Seq(S)) /\ ss[j + 1] \in Seq(S)
             /\ size(pre(j + 1)) = size(pre(j)) + Len(ss[j + 1])
             /\ size(pre(j)) \in Nat /\ Len(ss[j + 1]) \in Nat
             /\ k <= j => /\ size(rest(j + 1)) = size(rest(j)) + Len(ss[j + 1])
                          /\ size(rest(j)) \in Nat
  <2>1. j + 1 \in 1..n /\ ss[j + 1] \in Seq(S) /\ Len(ss[j + 1]) \in Nat
    BY <1>1, <1>4
  <2>2. pre(j) \in Seq(Seq(S)) /\ pre(j + 1) = Append(pre(j), ss[j + 1])
    <3>1. 1 \in 1..(Len(ss) + 1) /\ 1 <= j + 1 /\ j < Len(ss)
      BY <1>1, <1>4
    <3> QED
      BY <3>1, SliceGrows
  <2>3. ASSUME k <= j
        PROVE  rest(j) \in Seq(Seq(S)) /\ rest(j + 1) = Append(rest(j), ss[j + 1])
    <3>1. k + 1 \in 1..(Len(ss) + 1) /\ k + 1 <= j + 1 /\ j < Len(ss)
      BY <1>1, <1>4, <2>3
    <3> QED
      BY <3>1, SliceGrows
  <2> HIDE DEF pre, rest
  <2>4. ASSUME NEW tt \in Seq(Seq(S))
        PROVE  /\ size(Append(tt, ss[j + 1])) = size(tt) + Len(ss[j + 1])
               /\ size(tt) \in Nat
    <3>1. FlattenSeq(tt) \in Seq(S)
      BY FlattenIs
    <3>2. FlattenSeq(Append(tt, ss[j + 1])) = FlattenSeq(tt) \o ss[j + 1]
      BY <2>1, FlattenAppend
    <3> QED
      BY <2>1, <3>1, <3>2, ConcatProperties
  <2> HIDE DEF size
  <2> QED
    BY <2>1, <2>2, <2>3, <2>4
<1>5. ASSUME Odd # {}
      PROVE  FALSE
  <2> DEFINE j == Min(Odd)
  <2>1. Odd \subseteq Nat
    BY <1>1
  <2> HIDE DEF size, pre, rest, n
  <2>2. j \in Odd /\ \A i \in Odd : j <= i
    BY <1>5, <2>1, MinIs
  <2> HIDE DEF j
  <2>3. j \in k..n /\ size(pre(j)) # size(pre(k)) + size(rest(j))
    BY <2>2
  <2>4. CASE j = k
    <3>1. size(rest(k)) = 0
      BY <1>3, FlattenNone DEF size
    <3>2. size(pre(k)) \in Nat
      <4>1. CASE k < n
        BY <1>1, <1>4, <4>1
      <4>2. CASE k = n
        <5>1. FlattenSeq(ss) \in Seq(S)
          BY FlattenIs
        <5> QED
          BY <1>2, <4>2, <5>1 DEF size
      <4> QED
        BY <1>1, <4>1, <4>2
    <3> QED
      BY <2>3, <2>4, <3>1, <3>2
  <2>5. CASE j # k
    <3>1. j - 1 \in Nat /\ j - 1 < n /\ k <= j - 1 /\ j - 1 \in k..n
          /\ (j - 1) + 1 = j /\ ~(j <= j - 1)
      BY <1>1, <2>3, <2>5
    <3>2. j - 1 \notin Odd
      BY <2>2, <3>1
    <3>3. size(pre(j - 1)) = size(pre(k)) + size(rest(j - 1))
      BY <3>1, <3>2
    <3>4. /\ size(pre(j)) = size(pre(j - 1)) + Len(ss[j])
          /\ size(rest(j)) = size(rest(j - 1)) + Len(ss[j])
          /\ size(pre(j - 1)) \in Nat /\ size(rest(j - 1)) \in Nat /\ Len(ss[j]) \in Nat
      BY <1>4, <3>1
    <3>5. size(pre(k)) \in Nat
      BY <1>1, <1>4, <3>1
    <3> QED
      BY <2>3, <3>3, <3>4, <3>5
  <2> QED
    BY <2>4, <2>5
<1>6. n \in k..n
  BY <1>1
<1> HIDE DEF pre, rest
<1>7. size(pre(n)) = size(pre(k)) + size(rest(n))
  BY <1>5, <1>6
<1> QED
  BY <1>2, <1>7 DEF pre, rest

-----------------------------------------------------------------------------
(* What a window is always like, and what it is like until cwnd wraps.     *)

\* QueueHolds, of any window.
Ordered(s) ==
    /\ s.seq_front <= s.seq_back /\ s.seq_back <= s.buf_back
    /\ s.buf_back - s.seq_front < BufferSize

Steady(s) == Ordered(s) /\ Tiles(s) /\ 1 <= s.cwnd

LEMMA AckedSteady ==
    ASSUME NEW s \in SendWindow, NEW n \in 0..Len(s.wnd),
           NEW ack \in Nat, NEW w \in 0..(BufferSize - 1),
           InOrder(s), PopsExactly(s, ack, n),
           Steady(s), ack <= s.buf_back
    PROVE  Steady(Acked(s, n, ack, w))
<1> DEFINE p == Popped(s, n)
           t == Acked(s, n, ack, w)
<1>1. /\ t \in SendWindow
      /\ t.wnd = p.wnd
      /\ t.seq_front = Greatest(ack, p.seq_front)
      /\ t.seq_back = IF t.seq_front = p.seq_front THEN s.seq_back
                      ELSE Greatest(s.seq_back, ack)
      /\ t.seq_front = p.seq_front \/ p.wnd = <<>>
      /\ s.seq_front <= t.seq_front
      /\ t.buf_back = s.buf_back /\ t.cwnd = s.cwnd
  BY AckedIs
<1>2. /\ p \in SendWindow /\ InOrder(p) /\ Tiles(p)
      /\ p.seq_back = s.seq_back /\ p.cwnd = s.cwnd
  BY PoppedIs, PoppedInOrder, PoppedTiles, PoppedKeeps DEF Steady
<1>3. p.seq_front <= LastEnd(p) /\ (p.wnd = <<>> => LastEnd(p) = p.seq_front)
  BY <1>2, LastEndIs
<1> HIDE DEF p, t
<1>4. LastEnd(p) = p.seq_back
  BY <1>2 DEF Tiles
<1>5. /\ s.seq_front \in Nat /\ s.seq_back \in Nat /\ s.buf_back \in Nat
      /\ BufferSize \in Nat
  BY BufferAssumption, FieldsAre
<1>6. p.seq_front \in Nat /\ t.seq_front \in Nat /\ t.seq_back \in Nat
  BY <1>1, <1>2, FieldsAre
<1>7. CASE t.seq_front = p.seq_front
  <2>1. t.seq_back = s.seq_back
    BY <1>1, <1>7
  <2>2. Tiles(t)
    <3>1. LastEnd(t) = LastEnd(p)
      BY <1>1, <1>7 DEF LastEnd
    <3> QED
      BY <1>1, <1>2, <1>4, <2>1, <3>1 DEF Tiles
  <2>3. Ordered(t)
    BY <1>1, <1>2, <1>3, <1>4, <1>5, <1>6, <1>7, <2>1 DEF Steady, Ordered
  <2> QED
    BY <1>1, <2>2, <2>3 DEF Steady, t
<1>8. CASE t.seq_front # p.seq_front
  <2>1. p.wnd = <<>> /\ t.wnd = <<>> /\ LastEnd(t) = t.seq_front
    BY <1>1, <1>8 DEF LastEnd
  <2>2. p.seq_front = s.seq_back
    BY <1>2, <1>3, <1>4, <2>1
  <2>3. t.seq_front = ack /\ ack > s.seq_back
    BY <1>1, <1>5, <1>6, <1>8, <2>2 DEF Greatest
  <2>4. t.seq_back = ack
    BY <1>1, <1>5, <1>8, <2>3 DEF Greatest
  <2>5. Tiles(t)
    <3>1. Len(t.wnd) = 0 /\ 0 <= t.cwnd
      BY <1>1, <2>1, CwndAssumption DEF SendWindow
    <3> QED
      BY <2>1, <2>3, <2>4, <3>1 DEF Tiles
  <2>6. Ordered(t)
    <3>1. /\ t.buf_back = s.buf_back /\ s.seq_front <= t.seq_front
          /\ s.buf_back - s.seq_front < BufferSize
      BY <1>1 DEF Steady, Ordered
    <3> QED
      BY <1>5, <2>3, <2>4, <3>1 DEF Ordered
  <2> QED

    BY <1>1, <2>5, <2>6 DEF Steady, t
<1> QED
  BY <1>7, <1>8

\* Filling the window keeps it steady, and leaves it empty with something to
\* send only when the peer has closed its window.
LEMMA GrowSteady ==
    ASSUME NEW s \in SendWindow, Steady(s)
    PROVE  LET g == GrowSend(s) IN
           /\ Steady(g)
           /\ g.wnd = <<>> /\ g.seq_front < g.buf_back => g.rwnd = 0
<1> DEFINE g == GrowSend(s)
           m == Burst(s)
<1>1. /\ g \in SendWindow /\ g.seq_back = s.seq_back + BurstEnd(s, m)
      /\ Len(g.wnd) = Len(s.wnd) + m
  BY GrowIs
<1>2. /\ g.seq_front = s.seq_front /\ g.buf_back = s.buf_back
      /\ g.cwnd = s.cwnd /\ g.rwnd = s.rwnd
  BY GrowKeeps
<1>3. Tiles(g)
  BY GrowTiles DEF Steady
<1>4. /\ m \in Nat /\ BurstEnd(s, m) \in Nat /\ BurstEnd(s, m) <= Room(s)
      /\ Room(s) \in Nat /\ Room(s) <= s.buf_back - s.seq_back
      /\ (m > 0 <=> Room(s) > 0)
  BY BurstIs, BurstEndIs, RoomIs DEF Steady, Ordered
<1>5. /\ s.seq_front \in Nat /\ s.seq_back \in Nat /\ s.buf_back \in Nat
      /\ s.cwnd \in Nat /\ s.wnd \in Seq(Nat) /\ Len(s.wnd) \in Nat
  BY FieldsAre
<1> HIDE DEF g, m
<1>6. Ordered(g)
  BY <1>1, <1>2, <1>4, <1>5 DEF Steady, Ordered
<1>7. ASSUME g.wnd = <<>>, g.seq_front < g.buf_back
      PROVE  g.rwnd = 0
  <2>1. m = 0 /\ Len(s.wnd) = 0
    BY <1>1, <1>4, <1>5, <1>7
  <2>2. s.wnd = <<>> /\ Len(s.wnd) < s.cwnd /\ Room(s) = 0
    BY <1>4, <1>5, <2>1 DEF Steady
  <2>3. s.seq_front = s.seq_back
    BY <2>2, LastEndIs DEF Steady, Tiles
  <2> QED
    BY <1>2, <1>7, <2>2, <2>3, RoomIs
<1> QED
  BY <1>2, <1>3, <1>6, <1>7 DEF Steady, g

\* Growing cwnd changes nothing else, and shrinks it only by wrapping.
LEMMA CwndIs ==
    ASSUME NEW s \in SendWindow
    PROVE  LET c == [CwndGrown(s) EXCEPT !.fails = 0] IN
           /\ c \in SendWindow
           /\ c.wnd = s.wnd /\ c.seq_front = s.seq_front /\ c.seq_back = s.seq_back
           /\ c.buf_back = s.buf_back /\ c.rwnd = s.rwnd /\ c.wait = s.wait
           /\ c.timer = s.timer /\ c.fin = s.fin
<1> DEFINE next == (s.cwnd + 1) % CwndMod
           c == CwndGrown(s)
           Same(t) == /\ t \in SendWindow
                      /\ t.wnd = s.wnd /\ t.seq_front = s.seq_front
                      /\ t.seq_back = s.seq_back /\ t.buf_back = s.buf_back
                      /\ t.rwnd = s.rwnd /\ t.wait = s.wait
                      /\ t.timer = s.timer /\ t.fin = s.fin
<1>1. s.cwnd \in Nat /\ s.succs \in Nat /\ s.cwnd < CwndMod /\ CwndMod \in Nat
  BY CwndAssumption DEF SendWindow
<1>2. next \in 0..(CwndMod - 1)
  BY <1>1, CwndAssumption
<1> HIDE DEF next, c
<1>3. ASSUME s.cwnd <= s.c_threshold
      PROVE  Same(c)
  <2>1. c = [s EXCEPT !.cwnd = next]
    BY <1>3 DEF CwndGrown, next, c
  <2> QED
    BY <1>2, <2>1 DEF SendWindow
<1>4. ASSUME ~(s.cwnd <= s.c_threshold), s.succs + 1 >= s.cwnd
      PROVE  Same(c)
  <2>1. c = [s EXCEPT !.cwnd = next, !.succs = 0]
    BY <1>4 DEF CwndGrown, next, c
  <2>2. 0 \in 0..(CwndMod - 1)
    BY CwndAssumption
  <2> QED
    BY <1>2, <2>1, <2>2 DEF SendWindow
<1>5. ASSUME ~(s.cwnd <= s.c_threshold), ~(s.succs + 1 >= s.cwnd)
      PROVE  Same(c)
  <2> DEFINE more == s.succs + 1
  <2>1. c = [s EXCEPT !.succs = more]
    BY <1>5 DEF CwndGrown, c
  <2>2. more \in 0..(CwndMod - 1)
    BY <1>1, <1>5
  <2> HIDE DEF more
  <2> QED
    BY <2>1, <2>2 DEF SendWindow
<1>6. Same(c)
  BY <1>3, <1>4, <1>5
<1> DEFINE d == [c EXCEPT !.fails = 0]
<1>7. Same(d)
  <2>1. c \in SendWindow /\ 0 \in 0..FailLimit
    BY <1>6 DEF FailLimit
  <2>2. /\ d \in SendWindow
        /\ d.wnd = c.wnd /\ d.seq_front = c.seq_front
        /\ d.seq_back = c.seq_back /\ d.buf_back = c.buf_back
        /\ d.rwnd = c.rwnd /\ d.wait = c.wait
        /\ d.timer = c.timer /\ d.fin = c.fin
    BY <2>1 DEF SendWindow
  <2> HIDE DEF d
  <2> QED
    BY <1>6, <2>2
<1> QED
  BY <1>7 DEF c

-----------------------------------------------------------------------------
(* Bytes and packets.                                                      *)

Packet == [seq : Nat, payload : Seq(Byte)]

LEMMA FromWndIs ==
    ASSUME NEW b \in Buffer, NEW l \in Nat, NEW h \in Nat
    PROVE  PacketFromWnd(b, l, h) \in Packet
<1> DEFINE cell(k) == IF l % BufferSize = h % BufferSize THEN Unwritten
                      ELSE b[(l + k - 1) % BufferSize]
<1>1. ASSUME NEW k \in 1..(h - l)
      PROVE  cell(k) \in Byte
  <2>1. l + k - 1 \in Nat
    OBVIOUS
  <2>2. (l + k - 1) % BufferSize \in 0..(BufferSize - 1)
    BY <2>1, BufferAssumption
  <2> QED
    BY <2>2 DEF Buffer, Byte
<1>2. PICK n \in Nat : 1..(h - l) = 1..n
  <2>1. CASE l <= h
    <3>1. h - l \in Nat
      BY <2>1
    <3> QED
      BY <3>1
  <2>2. CASE h < l
    <3>1. 1..(h - l) = 1..0
      BY <2>2
    <3> QED
      BY <3>1
  <2> QED
    BY <2>1, <2>2
<1> HIDE DEF cell
<1>3. [k \in 1..(h - l) |-> cell(k)] \in Seq(Byte)
  BY <1>1, <1>2
<1> QED
  BY <1>3 DEF PacketFromWnd, FromWnd, Packet, cell

LEMMA ToWndIs ==
    ASSUME NEW b \in Buffer, NEW bytes \in Seq(Nat), NEW l \in Nat
    PROVE  ToWnd(b, bytes, l) \in Buffer
<1>1. CASE l % BufferSize = (l + Len(bytes)) % BufferSize
  BY <1>1 DEF ToWnd
<1>2. CASE ~(l % BufferSize = (l + Len(bytes)) % BufferSize)
  <2> DEFINE at(c) == ((c + BufferSize - (l % BufferSize)) % BufferSize) + 1
             cell(c) == IF at(c) <= Len(bytes) THEN bytes[at(c)] ELSE b[c]
  <2>1. ASSUME NEW c \in 0..(BufferSize - 1)
        PROVE  cell(c) \in Byte
    <3> DEFINE x == c + BufferSize - (l % BufferSize)
    <3>1. l % BufferSize \in 0..(BufferSize - 1) /\ BufferSize \in Nat
      BY BufferAssumption
    <3>2. x \in Nat
      BY <3>1
    <3> HIDE DEF x
    <3>3. x % BufferSize \in Nat
      BY <3>2, BufferAssumption
    <3>4. at(c) \in Nat /\ at(c) >= 1
      BY <3>3 DEF x
    <3> HIDE DEF at
    <3>5. at(c) <= Len(bytes) => at(c) \in 1..Len(bytes)
      BY <3>4
    <3>6. at(c) <= Len(bytes) => bytes[at(c)] \in Nat
      BY <3>5
    <3> QED
      BY <3>6 DEF Buffer, Byte
  <2>2. ToWnd(b, bytes, l) = [c \in 0..(BufferSize - 1) |-> cell(c)]
    BY <1>2 DEF ToWnd
  <2> HIDE DEF cell
  <2> QED
    BY <2>1, <2>2 DEF Buffer
<1> QED
  BY <1>1, <1>2

\* The round queue b holds the bytes f..e-1 of the stream.
Keeps(b, f, e) == \A p \in f..(e - 1) : b[p % BufferSize] = p

\* Bytes that come in the stream from position l on.
From(bytes, l) == \A j \in 1..Len(bytes) : bytes[j] = l + j - 1

\* A packet carries the bytes of its positions, when the queue b holds those
\* of f..e-1 and they take less than a turn of it.
LEMMA FromWndTrue ==
    ASSUME NEW b \in Buffer, NEW f \in Nat, NEW e \in Nat, e - f < BufferSize,
           Keeps(b, f, e),
           NEW l \in Nat, NEW h \in Nat, f <= l, l <= h, h <= e
    PROVE  From(FromWnd(b, l, h), l)
<1> DEFINE bytes == FromWnd(b, l, h)
           n == h - l
           cell(k) == IF l % BufferSize = h % BufferSize THEN Unwritten
                      ELSE b[(l + k - 1) % BufferSize]
<1>1. n \in Nat /\ BufferSize \in Nat /\ BufferSize > 0
  BY BufferAssumption
<1>2. bytes = [k \in 1..n |-> cell(k)]
  BY DEF FromWnd
<1>3. Len(bytes) = n /\ \A k \in 1..n : bytes[k] = cell(k)
  <2> HIDE DEF n, cell, bytes
  <2> QED
    BY <1>1, <1>2
<1>4. ASSUME NEW k \in 1..n
      PROVE  bytes[k] = l + k - 1
  <2>1. h - l < BufferSize /\ l # h /\ l + k - 1 \in f..(e - 1)
    <3> HIDE DEF bytes, cell
    <3>1. k \in Nat /\ 1 <= k /\ k <= h - l
      BY <1>1
    <3> QED
      BY <1>1, <3>1
  <2>2. l % BufferSize # h % BufferSize
    BY <1>1, <2>1, SameCell
  <2>3. cell(k) = b[(l + k - 1) % BufferSize]
    BY <2>2
  <2>4. b[(l + k - 1) % BufferSize] = l + k - 1
    BY <2>1 DEF Keeps
  <2> HIDE DEF cell, bytes, n
  <2> QED
    BY <1>3, <2>3, <2>4
<1> HIDE DEF cell, n
<1> QED
  BY <1>3, <1>4 DEF From

\* Storing bytes behind those of f..l-1 overwrites none of them, when all of
\* them take less than a turn.
LEMMA ToWndCarries ==
    ASSUME NEW b \in Buffer, NEW bytes \in Seq(Nat), NEW f \in Nat, NEW l \in Nat,
           f <= l, l + Len(bytes) - f < BufferSize,
           Keeps(b, f, l), From(bytes, l)
    PROVE  Keeps(ToWnd(b, bytes, l), f, l + Len(bytes))
<1> SUFFICES \A p \in f..(l + Len(bytes) - 1) : ToWnd(b, bytes, l)[p % BufferSize] = p
  BY DEF Keeps
<1>5. /\ \A p \in f..(l - 1) : b[p % BufferSize] = p
      /\ \A i \in 1..Len(bytes) : bytes[i] = l + i - 1
  BY DEF Keeps, From
<1>1. PICK B \in Nat, n \in Nat : B = BufferSize /\ n = Len(bytes) /\ B > 0
  BY BufferAssumption
<1>2. l + n - f < B /\ n < B
  BY <1>1
<1>3. CASE l % B = (l + n) % B
  <2>1. ToWnd(b, bytes, l) = b
    BY <1>1, <1>3 DEF ToWnd
  <2>2. l <= l + n /\ (l + n) - l < B /\ l + n \in Nat
    BY <1>1, <1>2
  <2>3. l = l + n
    BY <1>1, <1>3, <2>2, SameCell
  <2>4. l + Len(bytes) - 1 = l - 1
    BY <1>1, <2>3
  <2> QED
    BY <1>5, <2>1, <2>4
<1>4. CASE l % B # (l + n) % B
  <2> DEFINE a == l % B
             at(c) == ((c + B - a) % B) + 1
  <2>1. ToWnd(b, bytes, l)
           = [c \in 0..(B - 1) |-> IF at(c) <= n THEN bytes[at(c)] ELSE b[c]]
    BY <1>1, <1>4 DEF ToWnd
  <2>2. a \in 0..(B - 1)
    BY <1>1
  <2> DEFINE Turned(q, d, x) == x % B = IF (q % B) + d < B THEN (q % B) + d
                                        ELSE (q % B) + d - B
  <2>5. \A q \in Nat, d \in 0..(B - 1) : Turned(q, d, q + d)
    BY <1>1, CellFrom
  <2>3. ASSUME NEW d \in 0..(B - 1)
        PROVE  d % B = d /\ (d + B) % B = d
    <3>1. 0 % B = 0 /\ B % B = 0 /\ 0 + d = d /\ B + d = d + B
      BY <1>1
    <3>2. (0 + d) % B = d /\ (B + d) % B = d
      BY <1>1, <3>1, CellFrom
    <3> QED
      BY <3>1, <3>2
  <2>4. ASSUME NEW p \in f..(l + n - 1)
        PROVE  ToWnd(b, bytes, l)[p % B] = p
    <3> DEFINE c == p % B
    <3>1. c \in 0..(B - 1) /\ p \in Nat
      BY <1>1
    <3>2. ToWnd(b, bytes, l)[c] = IF at(c) <= n THEN bytes[at(c)] ELSE b[c]
      BY <2>1, <3>1
    <3>3. CASE p >= l
      <4> DEFINE d == p - l
      <4>1. d \in 0..(B - 1) /\ d < n /\ l + d = p
        BY <1>2, <3>1, <3>3
      <4>2. c = IF a + d < B THEN a + d ELSE a + d - B
        <5>1. Turned(l, d, p)
          <6> HIDE DEF Turned, d, c, a
          <6> QED
            BY <2>5, <4>1
        <5> QED
          BY <5>1
      <4> HIDE DEF c, a, d
      <4>3. c + B - a = d + B \/ c + B - a = d
        BY <1>1, <2>2, <3>1, <4>1, <4>2
      <4>4. (c + B - a) % B = d
        BY <2>3, <4>1, <4>3
      <4>5. at(c) = d + 1 /\ d + 1 \in 1..n
        BY <4>1, <4>4
      <4> HIDE DEF at
      <4>6. bytes[d + 1] = l + (d + 1) - 1
        BY <1>1, <1>5, <4>5
      <4>7. l + (d + 1) - 1 = p /\ d + 1 <= n
        BY <3>1, <4>1
      <4>8. ToWnd(b, bytes, l)[c] = p
        BY <3>2, <4>5, <4>6, <4>7
      <4> QED
        BY <4>8 DEF c
    <3>4. CASE p < l
      <4> DEFINE d == l - p
      <4>1. d \in 0..(B - 1) /\ d >= 1 /\ d < B - n /\ p + d = l
        BY <1>2, <3>1, <3>4
      <4>2. a = IF c + d < B THEN c + d ELSE c + d - B
        <5>1. Turned(p, d, l)
          <6> HIDE DEF Turned, d, c, a
          <6> QED
            BY <2>5, <3>1, <4>1
        <5> QED
          BY <5>1

      <4> HIDE DEF c, a, d
      <4>3. c + B - a = B - d \/ c + B - a = (B - d) + B
        BY <1>1, <2>2, <3>1, <4>1, <4>2
      <4>4. (c + B - a) % B = B - d
        <5>1. B - d \in 0..(B - 1)
          BY <1>1, <4>1
        <5> QED
          BY <2>3, <4>3, <5>1
      <4>5. ~(at(c) <= n)
        BY <1>1, <4>1, <4>4
      <4>6. b[c] = p
        BY <1>1, <1>5, <3>1, <3>4 DEF c
      <4>7. ToWnd(b, bytes, l)[c] = p
        BY <3>2, <4>5, <4>6
      <4> QED
        BY <4>7 DEF c
    <3> QED
      BY <3>1, <3>3, <3>4
  <2> QED
    BY <1>1, <2>4
<1> QED
  BY <1>3, <1>4

LEMMA BurstPacketsIs ==
    ASSUME NEW s \in SendWindow, NEW b \in Buffer
    PROVE  BurstPackets(s, b) \in Seq(Packet)
<1> DEFINE low(k) == s.seq_back + BurstEnd(s, k - 1)
           high(k) == s.seq_back + BurstEnd(s, k)
<1>1. ASSUME NEW k \in 1..Burst(s)
      PROVE  PacketFromWnd(b, low(k), high(k)) \in Packet
  <2>1. k \in Nat /\ k - 1 \in Nat
    BY BurstIs
  <2>2. BurstEnd(s, k) \in Nat /\ BurstEnd(s, k - 1) \in Nat
    BY <2>1, BurstEndIs
  <2>3. s.seq_back \in Nat
    BY FieldsAre
  <2>4. low(k) \in Nat /\ high(k) \in Nat
    BY <2>2, <2>3
  <2> HIDE DEF low, high
  <2> QED
    BY <2>4, FromWndIs
<1>2. BurstPackets(s, b) = [k \in 1..Burst(s) |-> PacketFromWnd(b, low(k), high(k))]
  BY DEF BurstPackets
<1>3. Burst(s) \in Nat
  BY BurstIs
<1> HIDE DEF low, high
<1> QED
  BY <1>1, <1>2, <1>3

-----------------------------------------------------------------------------
(* Sending again.                                                          *)

\* Windows that differ in what InOrder and Steady do not speak of.
Alike(s, t) ==
    /\ t.seq_front = s.seq_front /\ t.seq_back = s.seq_back
    /\ t.buf_back = s.buf_back /\ t.wnd = s.wnd /\ t.cwnd = s.cwnd

LEMMA AlikeIs ==
    ASSUME NEW s, NEW t, Alike(s, t)
    PROVE  /\ InOrder(s) => InOrder(t)
           /\ Steady(s) => Steady(t)
           /\ MaxBuffer(t) = MaxBuffer(s)
<1>1. LastEnd(t) = LastEnd(s) /\ \A k : SegStart(t, k) = SegStart(s, k)
  BY DEF Alike, LastEnd, SegStart
<1>2. Tiles(s) => Tiles(t)
  BY <1>1 DEF Alike, Tiles
<1>3. Ordered(s) => Ordered(t)
  BY DEF Alike, Ordered
<1>4. InOrder(s) => InOrder(t)
  BY <1>1 DEF Alike, InOrder, Ascends, Cut
<1> QED
  BY <1>2, <1>3, <1>4 DEF Alike, Steady, MaxBuffer

LEMMA SingleIs ==
    ASSUME NEW q \in Seq(Nat), Len(q) = 1
    PROVE  q = <<q[1]>>
OBVIOUS

LEMMA CollapseIs ==
    ASSUME NEW s \in SendWindow, s.wnd # <<>>
    PROVE  LET c == Collapse(s) IN
           /\ c \in SendWindow
           /\ c.wnd \in {s.wnd, <<s.wnd[1]>>}
           /\ c.seq_front = s.seq_front /\ c.buf_back = s.buf_back
           /\ c.rwnd = s.rwnd /\ c.wait = s.wait /\ c.fin = s.fin
           /\ Len(s.wnd) <= s.cwnd => c.cwnd = 1 /\ c.wnd = <<s.wnd[1]>>
<1>1. s.wnd \in Seq(Nat) /\ s.cwnd \in 0..(CwndMod - 1) /\ Len(s.wnd) \in Nat
  BY DEF SendWindow
<1> DEFINE n == Len(s.wnd)
<1>2. n \in Nat /\ n >= 1 /\ s.wnd[1] \in Nat
  BY <1>1
<1> HIDE DEF n
<1>3. CASE s.cwnd >= Len(s.wnd) /\ s.cwnd > 1
  <2> DEFINE half == s.cwnd \div 2
             first == SubSeq(s.wnd, 1, Least(1, Len(s.wnd)))
  <2>1. half \in 0..(CwndMod - 1)
    BY <1>1, CwndAssumption
  <2>2. first = <<s.wnd[1]>>
    <3>1. Least(1, n) = 1
      BY <1>2 DEF Least
    <3>2. first = SubSeq(s.wnd, 1, 1)
      BY <3>1 DEF n
    <3>3. 1 \in 1..Len(s.wnd)
      BY <1>2 DEF n
    <3>4. /\ Len(SubSeq(s.wnd, 1, 1)) = 1 /\ SubSeq(s.wnd, 1, 1) \in Seq(Nat)
          /\ SubSeq(s.wnd, 1, 1)[1] = s.wnd[1]
      BY <1>1, <3>3
    <3> HIDE DEF first
    <3>5. first \in Seq(Nat) /\ Len(first) = 1 /\ first[1] = s.wnd[1]
      BY <3>2, <3>4
    <3>6. first = <<first[1]>>
      BY <3>5, SingleIs
    <3> QED
      BY <3>5, <3>6
  <2>3. Collapse(s) = [s EXCEPT !.c_threshold = half, !.cwnd = 1, !.wnd = first]
    BY <1>3 DEF Collapse
  <2>4. 1 \in 0..(CwndMod - 1) /\ first \in Seq(Nat)
    <3>1. <<s.wnd[1]>> \in Seq(Nat)
      BY <1>2
    <3> HIDE DEF first
    <3> QED
      BY <2>2, <3>1, CwndAssumption
  <2> HIDE DEF half, first
  <2>5. /\ Collapse(s) \in SendWindow
        /\ Collapse(s).wnd = first /\ Collapse(s).cwnd = 1
        /\ Collapse(s).seq_front = s.seq_front /\ Collapse(s).buf_back = s.buf_back
        /\ Collapse(s).rwnd = s.rwnd /\ Collapse(s).wait = s.wait
        /\ Collapse(s).fin = s.fin
    BY <2>1, <2>3, <2>4 DEF SendWindow
  <2> QED
    BY <2>2, <2>5
<1>4. CASE ~(s.cwnd >= Len(s.wnd) /\ s.cwnd > 1)
  <2>1. Collapse(s) = s
    BY <1>4 DEF Collapse
  <2>2. ASSUME Len(s.wnd) <= s.cwnd
        PROVE  s.cwnd = 1 /\ s.wnd = <<s.wnd[1]>>
    <3>1. s.cwnd = 1 /\ n = 1
      <4>1. n <= s.cwnd /\ ~(s.cwnd >= n /\ s.cwnd > 1) /\ s.cwnd \in Nat
        BY <1>1, <1>4, <2>2, CwndAssumption DEF n
      <4> QED
        BY <1>2, <4>1
    <3>2. Len(s.wnd) = 1
      BY <3>1 DEF n
    <3> QED
      BY <1>1, <3>1, <3>2
  <2> QED
    BY <2>1, <2>2
<1> QED
  BY <1>3, <1>4

LEMMA ResendIs ==
    ASSUME NEW s \in SendWindow, s.wnd # <<>>, InOrder(s)
    PROVE  LET r == Resend(s) IN
           /\ r \in SendWindow /\ InOrder(r)
           /\ r.seq_front = s.seq_front /\ r.buf_back = s.buf_back
           /\ r.rwnd = s.rwnd /\ r.wait = s.wait /\ r.fin = s.fin
           /\ r.timer = "armed"
           /\ s.wnd[1] \in Nat
           /\ r.seq_back = s.wnd[1] /\ s.seq_front <= s.wnd[1]
           /\ Steady(s) => Steady(r) /\ r.seq_back <= s.seq_back
<1> DEFINE c == Collapse(s)
           r == Resend(s)
           first == s.wnd[1]
<1>1. /\ c \in SendWindow
      /\ c.wnd \in {s.wnd, <<first>>}
      /\ c.seq_front = s.seq_front /\ c.buf_back = s.buf_back
      /\ c.rwnd = s.rwnd /\ c.wait = s.wait /\ c.fin = s.fin
      /\ Len(s.wnd) <= s.cwnd => c.cwnd = 1 /\ c.wnd = <<first>>
  BY CollapseIs
<1>2. /\ s.wnd \in Seq(Nat) /\ s.seq_front \in Nat /\ s.seq_back \in Nat
      /\ s.buf_back \in Nat /\ BufferSize \in Nat /\ SegmentSize \in Nat
  BY BufferAssumption, SegmentAssumption, FieldsAre
<1>3. 1 \in 1..Len(s.wnd) /\ first \in Nat
  BY <1>2
<1>4. r = [c EXCEPT !.seq_back = first, !.timer = "armed"]
  BY DEF Resend
<1> HIDE DEF c, r, first
<1>5. /\ r \in SendWindow /\ r.wnd = c.wnd /\ r.cwnd = c.cwnd
      /\ r.seq_front = c.seq_front /\ r.buf_back = c.buf_back
      /\ r.seq_back = first
      /\ r.rwnd = c.rwnd /\ r.wait = c.wait /\ r.fin = c.fin /\ r.timer = "armed"
  BY <1>1, <1>3, <1>4 DEF SendWindow
<1>6. s.seq_front <= first /\ first - s.seq_front <= SegmentSize
  <2>1. SegStart(s, 1) = s.seq_front
    BY DEF SegStart
  <2> QED
    BY <1>3, <2>1 DEF InOrder, Ascends, Cut, first
<1>7. InOrder(r)
  <2>1. CASE c.wnd = s.wnd
    BY <1>1, <1>5, <2>1 DEF InOrder, Ascends, Cut, SegStart
  <2>2. CASE c.wnd = <<first>>
    <3>1. /\ Len(r.wnd) = 1 /\ 1..1 = {1} /\ r.wnd[1] = first
          /\ SegStart(r, 1) = s.seq_front
      BY <1>1, <1>5, <2>2 DEF SegStart
    <3> QED
      BY <1>1, <1>3, <1>5, <1>6, <3>1 DEF InOrder, Ascends, Cut
  <2> QED
    BY <1>1, <2>1, <2>2
<1>8. ASSUME Steady(s)
      PROVE  Steady(r) /\ r.seq_back <= s.seq_back
  <2>1. r.cwnd = 1 /\ r.wnd = <<first>>
    BY <1>1, <1>5, <1>8 DEF Steady, Tiles
  <2>3. first <= s.seq_back
    BY <1>3, <1>8, LastEndIs DEF Steady, Tiles, first
  <2>4. Ordered(r)
    BY <1>1, <1>2, <1>3, <1>5, <1>6, <1>8, <2>3 DEF Steady, Ordered
  <2>5. Tiles(r)
    <3>1. Len(r.wnd) = 1 /\ r.wnd[1] = first /\ r.wnd # <<>>
      BY <2>1
    <3>2. LastEnd(r) = first
      BY <3>1 DEF LastEnd
    <3>3. Len(r.wnd) <= r.cwnd
      BY <2>1, <3>1
    <3> QED
      BY <1>5, <3>2, <3>3 DEF Tiles
  <2> QED
    BY <1>5, <2>1, <2>3, <2>4, <2>5 DEF Steady
<1> QED
  BY <1>1, <1>3, <1>5, <1>6, <1>7, <1>8 DEF r, first

-----------------------------------------------------------------------------
(* Buffering what the application asks to send.                            *)

\* Bytes added behind what is buffered.
LEMMA LongerIs ==
    ASSUME NEW s \in SendWindow, NEW t \in SendWindow, NEW n \in Nat,
           t.seq_front = s.seq_front, t.seq_back = s.seq_back,
           t.wnd = s.wnd, t.cwnd = s.cwnd, t.buf_back = s.buf_back + n
    PROVE  /\ InOrder(s) => InOrder(t)
           /\ Steady(s) /\ n <= MaxBuffer(s) => Steady(t)
           /\ MaxBuffer(s) \in Int /\ MaxBuffer(t) = MaxBuffer(s) - n
<1>1. LastEnd(t) = LastEnd(s) /\ \A k : SegStart(t, k) = SegStart(s, k)
  BY DEF LastEnd, SegStart
<1>2. Tiles(s) => Tiles(t)
  BY <1>1 DEF Tiles
<1>3. /\ s.seq_front \in Nat /\ s.seq_back \in Nat /\ s.buf_back \in Nat
      /\ BufferSize \in Nat
  BY BufferAssumption, FieldsAre
<1>4. MaxBuffer(s) \in Int /\ MaxBuffer(t) = MaxBuffer(s) - n
  BY <1>3 DEF MaxBuffer
<1>5. Ordered(s) /\ n <= MaxBuffer(s) => Ordered(t)
  BY <1>3 DEF Ordered, MaxBuffer
<1>6. InOrder(s) => InOrder(t)
  BY <1>1 DEF InOrder, Ascends, Cut
<1> QED
  BY <1>2, <1>4, <1>5, <1>6 DEF Steady

LEMMA BufferedIs ==
    ASSUME NEW s \in SendWindow, NEW bytes \in Seq(Nat)
    PROVE  LET t == Buffered(s, bytes) IN
           /\ t \in SendWindow
           /\ t.seq_front = s.seq_front /\ t.seq_back = s.seq_back
           /\ t.wnd = s.wnd /\ t.cwnd = s.cwnd
           /\ t.buf_back = s.buf_back + Len(bytes)
           /\ t.rwnd = s.rwnd /\ t.wait = s.wait /\ t.timer = s.timer /\ t.fin = s.fin
<1> DEFINE back == s.buf_back + Len(bytes)
<1>1. back \in Nat
  BY DEF SendWindow
<1>2. Buffered(s, bytes) = [s EXCEPT !.buf_back = back]
  BY DEF Buffered
<1> HIDE DEF back
<1>3. LET t == Buffered(s, bytes) IN
      /\ t \in SendWindow
      /\ t.seq_front = s.seq_front /\ t.seq_back = s.seq_back
      /\ t.wnd = s.wnd /\ t.cwnd = s.cwnd
      /\ t.buf_back = back
      /\ t.rwnd = s.rwnd /\ t.wait = s.wait /\ t.timer = s.timer /\ t.fin = s.fin
  BY <1>1, <1>2 DEF SendWindow
<1> QED
  BY <1>3 DEF back

-----------------------------------------------------------------------------
(* The invariant.                                                          *)

\* WaitsForRoom, of any window.
Waits(s) == s.wait # <<>> => Len(Head(s.wait)) > MaxBuffer(s)

\* The timer is set where an answer is needed to go on.
Armed(s) ==
    /\ s.rwnd = 0 => s.timer = "armed"
    /\ s.seq_front < s.buf_back => s.timer = "armed"

\* sent, the end of everything ever sent, stays between what the window
\* counts as sent and what is buffered: no acknowledgement is past it.
Reach(s, end) == Steady(s) /\ s.seq_back <= end /\ end <= s.buf_back

SendInv ==
    /\ SendTypeOK
    /\ InOrder(swnd)
    /\ Waits(swnd)
    /\ ~ wrapped => Reach(swnd, sent) /\ (sock = "Established" => Armed(swnd))

\* Neither end of the queue moves back, nor do the histories.
Onward ==
    /\ swnd'.seq_front >= swnd.seq_front /\ swnd'.buf_back >= swnd.buf_back
    /\ sent' >= sent /\ (wrapped => wrapped')
    /\ sock' = "Established" => sock = "Established"

LEMMA InitInv == SendInit => SendInv
<1> SUFFICES ASSUME SendInit
             PROVE  SendInv
  OBVIOUS
<1>1. InitSend \in SendWindow
  <2>1. /\ <<>> \in Seq(Nat) /\ <<>> \in Seq(Seq(Nat))
        /\ BufferSize - 1 \in 0..(BufferSize - 1)
        /\ 0 \in 0..(CwndMod - 1) /\ 1 \in 0..(CwndMod - 1)
        /\ CwndMod - 1 \in 0..(CwndMod - 1)
        /\ 0 \in 0..FailLimit
    BY BufferAssumption, CwndAssumption DEF FailLimit
  <2> QED
    BY <2>1 DEF InitSend, SendWindow
<1>2. /\ swnd.seq_front = 0 /\ swnd.seq_back = 0 /\ swnd.buf_back = 0
      /\ swnd.wnd = <<>> /\ swnd.wait = <<>> /\ swnd.cwnd = 1
      /\ swnd.rwnd = BufferSize - 1 /\ swnd.timer = "idle"
  BY DEF SendInit, InitSend
<1>3. SendTypeOK
  <2>1. sbuf \in Buffer
    BY DEF SendInit, Buffer, Byte
  <2>2. data \in Seq([seq : Nat, payload : Seq(Byte)])
    BY DEF SendInit
  <2>3. asked \in Nat /\ sent \in Nat /\ swnd \in SendWindow
    BY <1>1 DEF SendInit
  <2>4. wrapped \in BOOLEAN /\ aborted \in BOOLEAN /\ sock \in {"Established", "Fin_Wait1"}
    BY Zenon DEF SendInit
  <2> QED
    BY <2>1, <2>2, <2>3, <2>4 DEF SendTypeOK
<1>4. InOrder(swnd) /\ Waits(swnd)
  BY <1>2 DEF InOrder, Ascends, Cut, Waits
<1>5. Steady(swnd)
  BY <1>2, BufferAssumption DEF Steady, Ordered, Tiles, LastEnd
<1>6. Armed(swnd)
  BY <1>2, BufferAssumption DEF Armed
<1> QED
  BY <1>2, <1>3, <1>4, <1>5, <1>6 DEF SendInv, Reach, SendInit

LEMMA TypesAre ==
    ASSUME SendTypeOK
    PROVE  /\ swnd \in SendWindow
           /\ swnd.seq_front \in Nat /\ swnd.seq_back \in Nat /\ swnd.buf_back \in Nat
           /\ swnd.wait \in Seq(Seq(Nat)) /\ swnd.wnd \in Seq(Nat)
           /\ sbuf \in Buffer /\ data \in Seq(Packet)
           /\ asked \in Nat /\ sent \in Nat
BY DEF SendTypeOK, SendWindow, Packet

-----------------------------------------------------------------------------
(* What a step sends and stores.                                           *)

\* p carries bytes of the round queue b between what the window s counts as
\* acknowledged and what it counts as sent.
InFlight(p, s, b) ==
    \E l, h \in Nat : /\ s.seq_front <= l /\ l <= h /\ h <= s.seq_back
                      /\ p = PacketFromWnd(b, l, h)

\* Each of the packets e is one of the packets d or in flight.
Adds(d, e, s, b) ==
    \A i \in 1..Len(e) : (\E j \in 1..Len(d) : e[i] = d[j]) \/ InFlight(e[i], s, b)

\* From s, what the window has just become, the step only sends: up to where
\* seq_back was or to the end of the peer's window.
Moves(s) ==
    /\ swnd'.seq_front = s.seq_front /\ swnd'.rwnd = s.rwnd
    /\ ~ wrapped' =>
         /\ Adds(data, data', swnd', sbuf')
         /\ swnd'.seq_back <= s.seq_back \/ swnd'.seq_back <= s.seq_front + s.rwnd

\* A Send request of n bytes is stored or made to wait.
Takes(n) ==
    LET bytes == [k \in 1..n |-> asked + k - 1] IN
    /\ sock = "Established" /\ sock' = sock
    /\ Len(swnd.wait) < MaxWrites
    /\ asked' = asked + n
    /\ \/ /\ sbuf' = ToWnd(sbuf, bytes, swnd.buf_back)
          /\ swnd'.buf_back = swnd.buf_back + n /\ swnd'.wait = swnd.wait
       \/ /\ sbuf' = sbuf
          /\ swnd'.buf_back = swnd.buf_back /\ swnd'.wait = Append(swnd.wait, bytes)

\* The first k waiting requests are stored.  Those behind them keep waiting;
\* when the connection closes they are dropped, and the first of them did not
\* fit in an empty queue.
Answers(k) ==
    LET bytes == FlattenSeq(SubSeq(swnd.wait, 1, k))
        rest == SubSeq(swnd.wait, k + 1, Len(swnd.wait))
    IN  /\ sbuf' = ToWnd(sbuf, bytes, swnd.buf_back)
        /\ swnd'.buf_back = swnd.buf_back + Len(bytes)
        /\ asked' = asked
        /\ \/ swnd'.wait = rest /\ sock' = sock
           \/ /\ swnd'.wait = <<>> /\ sock' = "Fin_Wait1"
              /\ swnd'.seq_front = swnd'.buf_back
              /\ rest # <<>> => Len(Head(rest)) >= BufferSize
        /\ ~ wrapped' => swnd'.seq_front <= swnd.buf_back

\* Nothing is stored, and no request to send is taken or answered.
StoresNone ==
    /\ sbuf' = sbuf /\ asked' = asked
    /\ swnd'.buf_back = swnd.buf_back /\ swnd'.wait = swnd.wait
    /\ \/ sock' = sock
       \/ sock' = "Fin_Wait1" /\ swnd'.seq_front = swnd'.buf_back

LEMMA AddsNone ==
    ASSUME NEW d, NEW s, NEW b
    PROVE  Adds(d, d, s, b)
BY DEF Adds

LEMMA AddsMany ==
    ASSUME NEW d \in Seq(Packet), NEW more \in Seq(Packet), NEW s, NEW b,
           \A k \in 1..Len(more) : InFlight(more[k], s, b)
    PROVE  Adds(d, d \o more, s, b)
<1>1. /\ Len(d \o more) = Len(d) + Len(more)
      /\ \A i \in 1..(Len(d) + Len(more)) :
            (d \o more)[i] = IF i <= Len(d) THEN d[i] ELSE more[i - Len(d)]
  BY ConcatProperties
<1>2. Len(d) \in Nat /\ Len(more) \in Nat
  OBVIOUS
<1>3. ASSUME NEW i \in 1..Len(d \o more)
      PROVE  \/ \E j \in 1..Len(d) : (d \o more)[i] = d[j]
             \/ InFlight((d \o more)[i], s, b)
  <2>1. CASE i <= Len(d)
    <3>1. i \in 1..Len(d) /\ (d \o more)[i] = d[i]
      BY <1>1, <1>2, <2>1
    <3> QED
      BY <3>1
  <2>2. CASE ~(i <= Len(d))
    <3>1. (d \o more)[i] = more[i - Len(d)] /\ i - Len(d) \in 1..Len(more)
      BY <1>1, <1>2, <2>2
    <3> QED
      BY <3>1
  <2> QED
    BY <2>1, <2>2
<1> QED
  BY <1>3 DEF Adds

LEMMA AddsOne ==
    ASSUME NEW d \in Seq(Packet), NEW p \in Packet, NEW s, NEW b, InFlight(p, s, b)
    PROVE  Adds(d, Append(d, p), s, b)
<1> DEFINE e == Append(d, p)
<1>1. /\ Len(e) = Len(d) + 1 /\ Len(d) \in Nat
      /\ \A i \in 1..Len(d) : e[i] = d[i]
      /\ e[Len(d) + 1] = p
  OBVIOUS
<1> HIDE DEF e
<1>2. \A i \in 1..Len(e) : i \in 1..Len(d) \/ i = Len(d) + 1
  BY <1>1
<1>3. Adds(d, e, s, b)
  BY <1>1, <1>2 DEF Adds
<1> QED
  BY <1>3 DEF e

\* A burst stays within the peer's window, and carries what is in flight.
LEMMA BurstSends ==
    ASSUME NEW s \in SendWindow, NEW b \in Buffer
    PROVE  LET g == GrowSend(s) IN
           /\ g.seq_back <= s.seq_back \/ g.seq_back <= s.seq_front + s.rwnd
           /\ Steady(s) => \A k \in 1..Len(BurstPackets(s, b)) :
                              InFlight(BurstPackets(s, b)[k], g, b)
<1> DEFINE g == GrowSend(s)
           n == Burst(s)
           low(k) == s.seq_back + BurstEnd(s, k - 1)
           high(k) == s.seq_back + BurstEnd(s, k)
<1>1. /\ s.seq_front \in Nat /\ s.seq_back \in Nat /\ s.buf_back \in Nat
      /\ s.rwnd \in Nat
  BY FieldsAre
<1>2. n \in Nat /\ (n > 0 => Room(s) > 0) /\ Room(s) \in Nat
  BY BurstIs, RoomIs
<1>3. /\ \A k \in Nat : BurstEnd(s, k) \in Nat /\ BurstEnd(s, k) <= Room(s)
      /\ BurstEnd(s, 0) = 0
      /\ \A j, k \in Nat : j <= k => BurstEnd(s, j) <= BurstEnd(s, k)
  BY BurstEndIs
<1>4. g.seq_back = s.seq_back + BurstEnd(s, n) /\ g.seq_front = s.seq_front
  BY GrowIs, GrowKeeps
<1>5. Room(s) > 0 => s.seq_back + Room(s) <= s.seq_front + s.rwnd
  BY <1>1 DEF Room, Least
<1> HIDE DEF g, n
<1>6. g.seq_back <= s.seq_back \/ g.seq_back <= s.seq_front + s.rwnd
  <2>1. CASE n = 0
    BY <1>1, <1>3, <1>4, <2>1
  <2>2. CASE n # 0
    <3>1. BurstEnd(s, n) \in Nat /\ BurstEnd(s, n) <= Room(s) /\ Room(s) > 0
      BY <1>2, <1>3, <2>2
    <3>2. Room(s) > 0 => s.seq_back + Room(s) <= s.seq_front + s.rwnd
      BY <1>5
    <3>3. s.seq_back \in Nat /\ Room(s) \in Int
      BY <1>1, <1>2
    <3> QED
      BY <1>1, <1>4, <3>1, <3>2, <3>3
  <2> QED
    BY <2>1, <2>2

<1>7. ASSUME Steady(s), NEW k \in 1..Len(BurstPackets(s, b))
      PROVE  InFlight(BurstPackets(s, b)[k], g, b)
  <2>1. BurstPackets(s, b) = [j \in 1..n |-> PacketFromWnd(b, low(j), high(j))]
    BY DEF BurstPackets, n
  <2> HIDE DEF low, high
  <2>2. k \in 1..n /\ BurstPackets(s, b)[k] = PacketFromWnd(b, low(k), high(k))
    BY <1>2, <2>1
  <2>3. k \in Nat /\ k - 1 \in Nat /\ k <= n /\ k - 1 <= k
    BY <1>2, <2>2
  <2>4. /\ BurstEnd(s, k) \in Nat /\ BurstEnd(s, k - 1) \in Nat /\ BurstEnd(s, n) \in Nat
        /\ BurstEnd(s, k - 1) <= BurstEnd(s, k) /\ BurstEnd(s, k) <= BurstEnd(s, n)
    BY <1>2, <1>3, <2>3
  <2>5. s.seq_front <= s.seq_back
    BY <1>7 DEF Steady, Ordered
  <2>6. /\ low(k) \in Nat /\ high(k) \in Nat /\ g.seq_front <= low(k)
        /\ low(k) <= high(k) /\ high(k) <= g.seq_back
    <3>1. s.seq_front \in Nat /\ s.seq_back \in Nat
      BY <1>1
    <3> QED
      BY <3>1, <1>4, <2>4, <2>5 DEF low, high

  <2> QED
    BY <2>2, <2>6 DEF InFlight
<1> QED
  BY <1>6, <1>7 DEF g

-----------------------------------------------------------------------------
(* The steps.                                                              *)

\* A timeout on s, what the window has just become.
LEMMA TimeoutStep ==
    ASSUME SendInv, NEW s \in SendWindow, InOrder(s), Waits(s),
           ~ wrapped => Reach(s, sent),
           s.seq_front >= swnd.seq_front, s.buf_back = swnd.buf_back,
           s.wait = swnd.wait,
           SendTimeout(s), UNCHANGED <<sbuf, sock, asked, sent, wrapped>>
    PROVE  SendInv' /\ Onward /\ StoresNone /\ (Moves(s) \/ UNCHANGED <<swnd, data>>)
<1>1. /\ swnd.seq_front \in Nat /\ swnd.buf_back \in Nat
      /\ sbuf \in Buffer /\ data \in Seq(Packet) /\ sent \in Nat
  BY TypesAre DEF SendInv
<1>2. CASE s.wnd = <<>>
  <2>1. swnd' = swnd /\ data' = data /\ aborted' = TRUE
    BY <1>2 DEF SendTimeout
  <2>2. SendTypeOK'
    BY <2>1 DEF SendInv, SendTypeOK
  <2>3. SendInv'
    BY <2>1, <2>2 DEF SendInv
  <2> QED
    BY <1>1, <2>1, <2>3 DEF Onward, StoresNone
<1>3. CASE s.wnd # <<>>
  <2> DEFINE r == Resend(s)
             p == PacketFromWnd(sbuf, s.seq_front, s.wnd[1])
  <2>1. swnd' = r /\ data' = Append(data, p) /\ aborted' = aborted
    BY <1>3 DEF SendTimeout
  <2>2. /\ r \in SendWindow /\ InOrder(r)
        /\ r.seq_front = s.seq_front /\ r.buf_back = s.buf_back
        /\ r.wait = s.wait /\ r.timer = "armed"
        /\ s.wnd[1] \in Nat /\ r.rwnd = s.rwnd
        /\ r.seq_back = s.wnd[1] /\ s.seq_front <= s.wnd[1]
        /\ Steady(s) => Steady(r) /\ r.seq_back <= s.seq_back
    BY <1>3, ResendIs
  <2>3. p \in Packet
    <3>1. s.seq_front \in Nat
      BY FieldsAre
    <3> QED
      BY <1>1, <2>2, <3>1, FromWndIs
  <2>4. s.seq_back \in Nat /\ r.seq_back \in Nat /\ s.seq_front \in Nat
    BY <2>2, FieldsAre
  <2>11. InFlight(p, r, sbuf)
    <3>1. s.wnd[1] <= r.seq_back /\ s.seq_front <= s.seq_front
      BY <2>2, <2>4
    <3> HIDE DEF r
    <3> QED
      BY <2>2, <2>4, <3>1 DEF InFlight
  <2> HIDE DEF r, p
  <2>12. Moves(s)
    <3>1. Adds(data, data', swnd', sbuf')
      BY <1>1, <2>1, <2>3, <2>11, AddsOne
    <3>2. ~ wrapped => r.seq_back <= s.seq_back
      BY <2>2 DEF Reach
    <3> QED
      BY <2>1, <2>2, <3>1, <3>2 DEF Moves
  <2>5. data' \in Seq(Packet)
    BY <1>1, <2>1, <2>3
  <2>6. SendTypeOK'
    BY <2>1, <2>2, <2>5 DEF SendInv, SendTypeOK, Packet
  <2>7. Waits(r)
    BY <2>2 DEF Waits, MaxBuffer
  <2>8. Armed(r)
    BY <2>2 DEF Armed
  <2>9. ~ wrapped => Reach(r, sent)
    BY <1>1, <2>2, <2>4 DEF Reach
  <2>10. SendInv'
    BY <2>1, <2>2, <2>6, <2>7, <2>8, <2>9 DEF SendInv
  <2> QED
    BY <1>1, <2>1, <2>2, <2>10, <2>12 DEF Onward, StoresNone
<1> QED
  BY <1>2, <1>3

LEMMA ProbeStep ==
    ASSUME SendInv, swnd.wnd = <<>>, SendProbe(swnd),
           UNCHANGED <<sbuf, sock, asked, sent, wrapped>>
    PROVE  SendInv' /\ Onward /\ StoresNone /\ Moves(swnd)
<1> DEFINE s == swnd
           p == PacketFromWnd(sbuf, s.seq_front, s.seq_front)
           one == Append(s.wnd, s.seq_front)
<1>1. /\ s \in SendWindow
      /\ s.seq_front \in Nat /\ s.seq_back \in Nat /\ s.buf_back \in Nat
      /\ sbuf \in Buffer /\ data \in Seq(Packet) /\ sent \in Nat
  BY TypesAre DEF SendInv
<1>2. one \in Seq(Nat) /\ Len(one) = 1 /\ one[1] = s.seq_front /\ one # <<>>
  BY <1>1
<1>3. p \in Packet
  BY <1>1, FromWndIs
<1>4. /\ swnd' = [s EXCEPT !.wnd = one, !.timer = "armed"]
      /\ data' = Append(data, p) /\ aborted' = aborted
  BY DEF SendProbe
<1> HIDE DEF s, p, one
<1>5. /\ swnd' \in SendWindow /\ swnd'.wnd = one /\ swnd'.timer = "armed"
      /\ swnd'.seq_front = s.seq_front /\ swnd'.seq_back = s.seq_back
      /\ swnd'.buf_back = s.buf_back /\ swnd'.cwnd = s.cwnd /\ swnd'.wait = s.wait
      /\ swnd'.rwnd = s.rwnd
  BY <1>1, <1>2, <1>4 DEF SendWindow
<1>6. data' \in Seq(Packet)
  BY <1>1, <1>3, <1>4
<1>7. SendTypeOK'
  BY <1>4, <1>5, <1>6 DEF SendInv, SendTypeOK, Packet
<1>8. InOrder(swnd')
  <2>1. Len(swnd'.wnd) = 1 /\ 1..1 = {1} /\ swnd'.wnd[1] = swnd'.seq_front
    BY <1>2, <1>5
  <2>2. swnd'.seq_front <= swnd'.wnd[1] /\ swnd'.wnd[1] <= swnd'.wnd[1]
    BY <1>1, <1>5, <2>1
  <2>3. SegStart(swnd', 1) = swnd'.wnd[1] /\ swnd'.wnd[1] - swnd'.wnd[1] <= SegmentSize
    BY <1>1, <1>5, <2>1, SegmentAssumption DEF SegStart
  <2> QED
    BY <2>1, <2>2, <2>3 DEF InOrder, Ascends, Cut
<1>9. Waits(swnd')
  BY <1>5 DEF SendInv, Waits, MaxBuffer, s
<1>10. Armed(swnd')
  BY <1>5 DEF Armed
<1>11. ASSUME ~ wrapped
       PROVE  Reach(swnd', sent)
  <2>1. Steady(s) /\ s.seq_back <= sent /\ sent <= s.buf_back
    BY <1>11 DEF SendInv, Reach, s
  <2>2. s.seq_front = s.seq_back
    BY <1>1, <2>1, LastEndIs DEF Steady, Tiles, s
  <2>3. Tiles(swnd')
    <3>1. LastEnd(swnd') = s.seq_front
      BY <1>2, <1>5 DEF LastEnd
    <3>2. Len(swnd'.wnd) <= swnd'.cwnd
      BY <1>2, <1>5, <2>1 DEF Steady
    <3> QED
      BY <1>5, <2>2, <3>1, <3>2 DEF Tiles
  <2>4. Ordered(swnd')
    BY <1>5, <2>1 DEF Steady, Ordered
  <2> QED
    BY <1>5, <2>1, <2>3, <2>4 DEF Reach, Steady
<1>12. SendInv'
  BY <1>4, <1>7, <1>8, <1>9, <1>10, <1>11 DEF SendInv
<1>13. Moves(s)
  <2>1. s.seq_front <= s.seq_front /\ s.seq_back <= s.seq_back
    BY <1>1
  <2>2. ASSUME ~ wrapped
        PROVE  InFlight(p, swnd', sbuf')
    <3>1. s.seq_front <= s.seq_back
      BY <2>2 DEF SendInv, Reach, Steady, Ordered, s
    <3> QED
      BY <1>1, <1>5, <2>1, <3>1 DEF InFlight, p
  <2>3. ~ wrapped => Adds(data, data', swnd', sbuf')
    BY <1>1, <1>3, <1>4, <2>2, AddsOne
  <2> QED
    BY <1>5, <2>1, <2>3 DEF Moves
<1> QED
  BY <1>1, <1>4, <1>5, <1>12, <1>13 DEF Onward, StoresNone, s

LEMMA TimerStep ==
    ASSUME SendInv, TimerFires
    PROVE  SendInv' /\ Onward /\ StoresNone /\ (Moves(swnd) \/ UNCHANGED <<swnd, data>>)
<1>1. UNCHANGED <<sbuf, sock, asked, sent, wrapped>>
  BY DEF TimerFires
<1>2. CASE swnd.wnd = <<>>
  <2>1. SendProbe(swnd)
    BY <1>2 DEF TimerFires
  <2> QED
    BY <1>1, <1>2, <2>1, ProbeStep
<1>3. CASE swnd.wnd # <<>>
  <2>1. SendTimeout(swnd)
    BY <1>3 DEF TimerFires
  <2>2. /\ swnd \in SendWindow /\ InOrder(swnd) /\ Waits(swnd)
        /\ ~ wrapped => Reach(swnd, sent)
        /\ swnd.seq_front >= swnd.seq_front
    BY TypesAre DEF SendInv
  <2> QED
    BY <1>1, <2>1, <2>2, TimeoutStep
<1> QED
  BY <1>2, <1>3

LEMMA DepartStep ==
    ASSUME SendInv, data' \in Seq(Packet),
           UNCHANGED <<swnd, sbuf, sock, asked, sent, wrapped, aborted>>
    PROVE  SendInv' /\ Onward /\ StoresNone
<1>1. /\ swnd' = swnd /\ sbuf' = sbuf /\ sock' = sock /\ asked' = asked
      /\ sent' = sent /\ wrapped' = wrapped /\ aborted' = aborted
  OBVIOUS
<1>2. data' \in Seq(Packet)
  OBVIOUS
<1>3. SendTypeOK'
  BY <1>1, <1>2 DEF SendInv, SendTypeOK, Packet
<1>4. SendInv'
  BY <1>1, <1>3 DEF SendInv
<1> QED
  BY <1>1, <1>4, TypesAre DEF SendInv, Onward, StoresNone

LEMMA CloseStep ==
    ASSUME SendInv, CloseCall
    PROVE  SendInv' /\ Onward /\ StoresNone /\ Moves(swnd)
<1>1. /\ sbuf' = sbuf /\ data' = data /\ asked' = asked
      /\ sent' = sent /\ wrapped' = wrapped /\ aborted' = aborted
  BY DEF CloseCall
<1>2. /\ swnd \in SendWindow /\ swnd.seq_back \in Nat /\ swnd.seq_back <= swnd.seq_back
      /\ Adds(data, data', swnd', sbuf')
  BY <1>1, TypesAre, AddsNone DEF SendInv
<1>3. CASE swnd.seq_front = swnd.buf_back
  <2>1. sock' = "Fin_Wait1" /\ swnd' = swnd
    BY <1>3 DEF CloseCall
  <2>2. SendTypeOK'
    BY <1>1, <2>1 DEF SendInv, SendTypeOK
  <2>3. SendInv'
    BY <1>1, <2>1, <2>2 DEF SendInv
  <2> QED
    BY <1>1, <1>2, <1>3, <2>1, <2>3, TypesAre DEF SendInv, Onward, StoresNone, Moves

<1>4. CASE swnd.seq_front # swnd.buf_back
  <2>1. sock' = sock /\ swnd' = [swnd EXCEPT !.fin = TRUE]
    BY <1>4 DEF CloseCall
  <2>2. /\ swnd' \in SendWindow
        /\ swnd'.seq_front = swnd.seq_front /\ swnd'.seq_back = swnd.seq_back
        /\ swnd'.buf_back = swnd.buf_back /\ swnd'.wnd = swnd.wnd
        /\ swnd'.cwnd = swnd.cwnd /\ swnd'.wait = swnd.wait
        /\ swnd'.rwnd = swnd.rwnd /\ swnd'.timer = swnd.timer
    BY <1>2, <2>1 DEF SendWindow
  <2>3. SendTypeOK'
    BY <1>1, <2>1, <2>2 DEF SendInv, SendTypeOK
  <2>4. Alike(swnd, swnd')
    BY <2>2 DEF Alike
  <2>5. InOrder(swnd') /\ Waits(swnd')
    BY <2>2, <2>4, AlikeIs DEF SendInv, Waits
  <2>6. ~ wrapped => Reach(swnd', sent) /\ (sock = "Established" => Armed(swnd'))
    BY <2>2, <2>4, AlikeIs DEF SendInv, Reach, Armed
  <2>7. SendInv'
    BY <1>1, <2>1, <2>3, <2>5, <2>6 DEF SendInv
  <2> QED
    BY <1>1, <1>2, <2>1, <2>2, <2>7, TypesAre DEF SendInv, Onward, StoresNone, Moves
<1> QED
  BY <1>3, <1>4

\* Filling the window r, whatever was sent before: end is the end of that.
LEMMA FillStep ==
    ASSUME NEW r \in SendWindow, InOrder(r), Waits(r), NEW b \in Buffer,
           NEW end \in Nat
    PROVE  LET g == GrowSend(r) IN
           /\ g \in SendWindow /\ InOrder(g) /\ Waits(g)
           /\ g.seq_front = r.seq_front /\ g.buf_back = r.buf_back
           /\ g.rwnd = r.rwnd /\ g.wait = r.wait
           /\ Greatest(end, g.seq_back) \in Nat /\ Greatest(end, g.seq_back) >= end
           /\ Steady(r) /\ end <= r.buf_back
              => /\ Reach(g, Greatest(end, g.seq_back))
                 /\ g.wnd = <<>> /\ g.seq_front < g.buf_back => g.rwnd = 0
<1> DEFINE g == GrowSend(r)
           top == Greatest(end, g.seq_back)
<1>1. g \in SendWindow /\ InOrder(g)
  BY GrowIs, GrowInOrder
<1>2. /\ g.seq_front = r.seq_front /\ g.buf_back = r.buf_back /\ g.wait = r.wait
      /\ g.rwnd = r.rwnd
  BY GrowKeeps
<1>3. Steady(r) => Steady(g) /\ (g.wnd = <<>> /\ g.seq_front < g.buf_back => g.rwnd = 0)
  BY GrowSteady
<1>4. Waits(g)
  BY <1>2 DEF Waits, MaxBuffer
<1> HIDE DEF g
<1>5. g.seq_back \in Nat /\ g.buf_back \in Nat
  BY <1>1, FieldsAre
<1>6. top \in Nat /\ top >= g.seq_back /\ top >= end /\ top \in {end, g.seq_back}
  BY <1>5, GreatestIs
<1> HIDE DEF top
<1>7. Steady(r) /\ end <= r.buf_back => Reach(g, top)
  BY <1>2, <1>3, <1>5, <1>6 DEF Reach, Steady, Ordered
<1> QED
  BY <1>1, <1>2, <1>3, <1>4, <1>6, <1>7 DEF g, top

LEMMA SendStep ==
    ASSUME SendInv, NEW n \in Nat, Send(n)
    PROVE  SendInv' /\ Onward /\ Takes(n) /\ Moves(swnd)
<1> DEFINE bytes == [k \in 1..n |-> asked + k - 1]
           fits == n <= MaxBuffer(swnd)
           s == IF fits THEN Buffered(swnd, bytes)
                ELSE [swnd EXCEPT !.wait = Append(@, bytes)]
           b == IF fits THEN ToWnd(sbuf, bytes, swnd.buf_back) ELSE sbuf
           g == GrowSend(s)
           w == IF g.wnd # <<>> THEN [g EXCEPT !.timer = "armed"] ELSE g
           more == BurstPackets(s, b)
           top == Greatest(sent, g.seq_back)
           Taken(back, waiting) ==
              \/ /\ b = ToWnd(sbuf, bytes, swnd.buf_back)
                 /\ back = swnd.buf_back + n /\ waiting = swnd.wait
              \/ /\ b = sbuf
                 /\ back = swnd.buf_back /\ waiting = Append(swnd.wait, bytes)
<1>1. /\ sock = "Established" /\ sock' = sock
      /\ swnd' = w /\ sbuf' = b /\ data' = data \o more
      /\ asked' = asked + n /\ sent' = top
      /\ wrapped' = wrapped /\ aborted' = aborted
  BY DEF Send
<1>2. /\ swnd \in SendWindow
      /\ swnd.seq_front \in Nat /\ swnd.seq_back \in Nat /\ swnd.buf_back \in Nat
      /\ swnd.wait \in Seq(Seq(Nat))
      /\ sbuf \in Buffer /\ data \in Seq(Packet)
      /\ asked \in Nat /\ sent \in Nat
  BY TypesAre DEF SendInv
<1>3. bytes \in Seq(Nat) /\ Len(bytes) = n
  <2>1. \A k \in 1..n : asked + k - 1 \in Nat
    BY <1>2
  <2> QED
    BY <2>1
<1> HIDE DEF bytes, more, top, g, w
<1>4. b \in Buffer
  BY <1>2, <1>3, ToWndIs
<1>5. /\ s \in SendWindow /\ InOrder(s) /\ Waits(s)
      /\ s.seq_front = swnd.seq_front /\ s.buf_back \in Nat
      /\ s.buf_back >= swnd.buf_back
      /\ s.rwnd = swnd.rwnd /\ s.timer = swnd.timer
      /\ s.seq_back = swnd.seq_back /\ Taken(s.buf_back, s.wait)
      /\ Steady(swnd) => Steady(s)
  <2>1. CASE fits
    <3> DEFINE t == Buffered(swnd, bytes)
    <3>1. /\ t \in SendWindow
          /\ t.seq_front = swnd.seq_front /\ t.seq_back = swnd.seq_back
          /\ t.wnd = swnd.wnd /\ t.cwnd = swnd.cwnd
          /\ t.buf_back = swnd.buf_back + Len(bytes)
          /\ t.rwnd = swnd.rwnd /\ t.wait = swnd.wait /\ t.timer = swnd.timer
      BY <1>2, <1>3, BufferedIs
    <3> HIDE DEF t
    <3>2. /\ InOrder(swnd) => InOrder(t)
          /\ Steady(swnd) /\ n <= MaxBuffer(swnd) => Steady(t)
          /\ MaxBuffer(swnd) \in Int /\ MaxBuffer(t) = MaxBuffer(swnd) - n
      BY <1>2, <1>3, <3>1, LongerIs
    <3>3. Waits(t)
      <4> SUFFICES ASSUME t.wait # <<>>
                   PROVE  Len(Head(t.wait)) > MaxBuffer(t)
        BY DEF Waits
      <4>1. Len(Head(swnd.wait)) > MaxBuffer(swnd)
        BY <3>1 DEF SendInv, Waits
      <4>2. Head(swnd.wait) \in Seq(Nat)
        BY <1>2, <3>1
      <4>3. Len(Head(swnd.wait)) \in Nat
        BY <4>2
      <4> QED
        BY <3>1, <3>2, <4>1, <4>3
    <3>4. t.buf_back \in Nat /\ t.buf_back >= swnd.buf_back
      BY <1>2, <1>3, <3>1
    <3>5. s = t /\ b = ToWnd(sbuf, bytes, swnd.buf_back)
      BY <2>1 DEF t
    <3> HIDE DEF s, b
    <3>6. Taken(s.buf_back, s.wait)
      BY <1>3, <3>1, <3>5
    <3> HIDE DEF Taken
    <3> QED
      BY <2>1, <3>1, <3>2, <3>3, <3>4, <3>5, <3>6 DEF SendInv
  <2>2. CASE ~ fits
    <3> DEFINE t == [swnd EXCEPT !.wait = Append(swnd.wait, bytes)]
    <3>1. Append(swnd.wait, bytes) \in Seq(Seq(Nat))
      BY <1>2, <1>3
    <3>2. /\ t \in SendWindow
          /\ t.seq_front = swnd.seq_front /\ t.seq_back = swnd.seq_back
          /\ t.wnd = swnd.wnd /\ t.cwnd = swnd.cwnd /\ t.buf_back = swnd.buf_back
          /\ t.rwnd = swnd.rwnd /\ t.timer = swnd.timer
          /\ t.wait = Append(swnd.wait, bytes)
      BY <1>2, <3>1 DEF SendWindow
    <3>3. s = t /\ b = sbuf
      BY <2>2
    <3> HIDE DEF t, s, b
    <3>7. Taken(s.buf_back, s.wait)
      BY <3>2, <3>3
    <3> HIDE DEF Taken
    <3>4. Alike(swnd, t)
      BY <3>2 DEF Alike
    <3>5. /\ InOrder(swnd) => InOrder(t)
          /\ Steady(swnd) => Steady(t)
          /\ MaxBuffer(t) = MaxBuffer(swnd)
      BY <3>4, AlikeIs
    <3>6. Waits(t)
      <4>1. CASE swnd.wait = <<>>
        <5>1. Head(t.wait) = bytes
          BY <1>2, <1>3, <3>2, <4>1
        <5>2. MaxBuffer(swnd) \in Int
          BY <1>2, BufferAssumption DEF MaxBuffer
        <5>3. n > MaxBuffer(swnd)
          BY <2>2, <5>2
        <5> QED
          BY <1>3, <3>5, <5>1, <5>3 DEF Waits
      <4>2. CASE swnd.wait # <<>>
        <5>1. Head(t.wait) = Head(swnd.wait)
          BY <1>2, <1>3, <3>2, <4>2
        <5> QED
          BY <3>5, <4>2, <5>1 DEF SendInv, Waits
      <4> QED
        BY <4>1, <4>2
    <3> QED
      BY <1>2, <3>2, <3>3, <3>5, <3>6, <3>7 DEF SendInv
  <2> QED
    BY <2>1, <2>2
<1> HIDE DEF b, s, fits, Taken
<1>6. /\ g \in SendWindow /\ InOrder(g) /\ Waits(g)
      /\ g.seq_front = s.seq_front /\ g.buf_back = s.buf_back
      /\ g.rwnd = s.rwnd /\ g.wait = s.wait
      /\ top \in Nat /\ top >= sent
      /\ Steady(s) /\ sent <= s.buf_back
         => /\ Reach(g, top)
            /\ g.wnd = <<>> /\ g.seq_front < g.buf_back => g.rwnd = 0
  BY <1>2, <1>4, <1>5, FillStep DEF g, top
<1>7. g.rwnd = swnd.rwnd /\ g.timer = swnd.timer
  BY <1>5, GrowKeeps DEF g
<1>8. /\ w \in SendWindow
      /\ w.seq_front = g.seq_front /\ w.seq_back = g.seq_back
      /\ w.buf_back = g.buf_back /\ w.wnd = g.wnd /\ w.cwnd = g.cwnd
      /\ w.wait = g.wait /\ w.rwnd = g.rwnd
      /\ w.timer = IF g.wnd # <<>> THEN "armed" ELSE g.timer
  BY <1>6 DEF SendWindow, w
<1>9. Alike(g, w)
  BY <1>8 DEF Alike
<1>10. InOrder(w) /\ Waits(w)
  BY <1>6, <1>8, <1>9, AlikeIs DEF Waits
<1>11. ASSUME ~ wrapped
       PROVE  Reach(w, top) /\ Armed(w)
  <2>1. Steady(swnd) /\ sent <= swnd.buf_back /\ Armed(swnd)
    BY <1>1, <1>11 DEF SendInv, Reach
  <2>2. Steady(s) /\ sent <= s.buf_back
    BY <1>2, <1>5, <2>1
  <2>3. Reach(g, top) /\ (g.wnd = <<>> /\ g.seq_front < g.buf_back => g.rwnd = 0)
    BY <1>6, <2>2
  <2>4. Reach(w, top)
    BY <1>8, <1>9, <2>3, AlikeIs DEF Reach
  <2>5. Armed(w)
    BY <1>7, <1>8, <2>1, <2>3 DEF Armed
  <2> QED
    BY <2>4, <2>5
<1>12. data' \in Seq(Packet)
  <2>1. more \in Seq(Packet)
    BY <1>4, <1>5, BurstPacketsIs DEF more
  <2> QED
    BY <1>1, <1>2, <2>1, ConcatProperties
<1>13. SendTypeOK'
  BY <1>1, <1>2, <1>4, <1>6, <1>8, <1>12 DEF SendInv, SendTypeOK, Packet
<1>14. SendInv'
  BY <1>1, <1>10, <1>11, <1>13 DEF SendInv
<1>15. Onward
  BY <1>1, <1>2, <1>5, <1>6, <1>8 DEF Onward
<1>16. Moves(swnd)
  <2>1. swnd'.seq_back <= swnd.seq_back \/ swnd'.seq_back <= swnd.seq_front + swnd.rwnd
    BY <1>1, <1>4, <1>5, <1>8, BurstSends DEF g
  <2>2. ASSUME ~ wrapped
        PROVE  Adds(data, data', swnd', sbuf')
    <3>1. Steady(s)
      BY <1>5, <2>2 DEF SendInv, Reach
    <3>2. \A k \in 1..Len(more) : InFlight(more[k], g, b)
      BY <1>4, <1>5, <3>1, BurstSends DEF g, more
    <3>3. \A k \in 1..Len(more) : InFlight(more[k], swnd', sbuf')
      BY <1>1, <1>8, <3>2 DEF InFlight
    <3>4. more \in Seq(Packet)
      BY <1>4, <1>5, BurstPacketsIs DEF more
    <3> QED
      BY <1>1, <1>2, <3>3, <3>4, AddsMany
  <2> QED
    BY <1>1, <1>5, <1>6, <1>8, <2>1, <2>2 DEF Moves
<1>17. Takes(n)
  <2>1. Len(swnd.wait) < MaxWrites
    <3>1. Len(swnd.wait) \in Nat /\ MaxWrites \in Nat
      BY <1>2, WritesAssumption
    <3> DEFINE one == IF swnd.fin THEN 1 ELSE 0
    <3>2. one \in 0..1 /\ Unanswered = Len(swnd.wait) + one
      BY DEF Unanswered
    <3>3. Unanswered < MaxWrites
      BY DEF Send
    <3> HIDE DEF one
    <3> QED
      BY <3>1, <3>2, <3>3
  <2>2. Taken(swnd'.buf_back, swnd'.wait)
    BY <1>1, <1>5, <1>6, <1>8
  <2>3. bytes = [k \in 1..n |-> asked + k - 1]
    BY DEF bytes
  <2> QED
    BY <1>1, <2>1, <2>2, <2>3 DEF Takes, Taken
<1> QED
  BY <1>14, <1>15, <1>16, <1>17


\* Counting a duplicate, on s, what the window has just become.
LEMMA DupStep ==
    ASSUME SendInv, NEW s \in SendWindow, InOrder(s), Waits(s), Armed(s) \/ wrapped,
           ~ wrapped => Reach(s, sent),
           s.seq_front >= swnd.seq_front, s.buf_back = swnd.buf_back,
           s.wait = swnd.wait, DupAck(s)
    PROVE  SendInv' /\ Onward /\ StoresNone /\ (Moves(s) \/ UNCHANGED <<swnd, data>>)
<1> DEFINE fails == Least(s.fails + 1, FailLimit)
           f == [s EXCEPT !.fails = fails]
<1>1. fails \in 0..FailLimit
  <2>1. s.fails \in 0..3
    BY DEF SendWindow, FailLimit
  <2> QED
    BY <2>1 DEF FailLimit, Least
<1>2. /\ IF f.fails >= FailLimit /\ f.cwnd > 1 THEN SendTimeout(f)
         ELSE swnd' = f /\ UNCHANGED <<data, aborted>>
      /\ UNCHANGED <<sbuf, sock, asked, sent, wrapped>>
  BY DEF DupAck
<1> HIDE DEF fails
<1>3. /\ f \in SendWindow
      /\ f.seq_front = s.seq_front /\ f.seq_back = s.seq_back
      /\ f.buf_back = s.buf_back /\ f.wnd = s.wnd /\ f.cwnd = s.cwnd
      /\ f.wait = s.wait /\ f.rwnd = s.rwnd /\ f.timer = s.timer
  BY <1>1 DEF SendWindow
<1> HIDE DEF f
<1>4. Alike(s, f)
  BY <1>3 DEF Alike
<1>5. /\ InOrder(f) /\ Waits(f) /\ (Armed(f) \/ wrapped)
      /\ ~ wrapped => Reach(f, sent)
  BY <1>3, <1>4, AlikeIs DEF Waits, Armed, Reach
<1>6. CASE f.fails >= FailLimit /\ f.cwnd > 1
  <2>1. /\ SendTimeout(f) /\ f.seq_front >= swnd.seq_front
        /\ f.buf_back = swnd.buf_back /\ f.wait = swnd.wait
    BY <1>2, <1>3, <1>6
  <2>2. SendInv' /\ Onward /\ StoresNone /\ (Moves(f) \/ UNCHANGED <<swnd, data>>)
    BY <1>2, <1>3, <1>5, <2>1, TimeoutStep
  <2> QED
    BY <1>3, <2>2 DEF Moves
<1>7. CASE ~(f.fails >= FailLimit /\ f.cwnd > 1)
  <2>1. swnd' = f /\ data' = data /\ aborted' = aborted
    BY <1>2, <1>7
  <2>2. SendTypeOK'
    BY <1>2, <1>3, <2>1 DEF SendInv, SendTypeOK
  <2>3. SendInv'
    BY <1>2, <1>5, <2>1, <2>2 DEF SendInv
  <2>4. Adds(data, data', swnd', sbuf')
    BY <2>1, AddsNone
  <2>5. swnd'.seq_back = s.seq_back /\ s.seq_back \in Nat
    BY <1>3, <2>1, FieldsAre
  <2> QED
    BY <1>2, <1>3, <2>1, <2>3, <2>4, <2>5, TypesAre
    DEF SendInv, Onward, StoresNone, Moves
<1> QED
  BY <1>6, <1>7


\* What try_resolve_send makes of the window c.
LEMMA ResolvedIs ==
    ASSUME NEW c \in SendWindow, NEW k \in 0..Len(c.wait),
           NEW bytes, ResolvesSend(c, k, bytes)
    PROVE  LET r == [Buffered(c, bytes) EXCEPT !.wait = SubSeq(@, k + 1, Len(@))] IN
           /\ bytes \in Seq(Nat)
           /\ r \in SendWindow /\ Waits(r)
           /\ r.seq_front = c.seq_front /\ r.seq_back = c.seq_back
           /\ r.buf_back >= c.buf_back
           /\ r.buf_back = c.buf_back + Len(bytes)
           /\ r.wait = SubSeq(c.wait, k + 1, Len(c.wait))
           /\ r.rwnd = c.rwnd /\ r.timer = c.timer
           /\ InOrder(c) => InOrder(r)
           /\ Steady(c) => Steady(r)
<1> DEFINE t == Buffered(c, bytes)
           rest == SubSeq(t.wait, k + 1, Len(t.wait))
           r == [t EXCEPT !.wait = rest]
<1>1. c.wait \in Seq(Seq(Nat)) /\ Len(c.wait) \in Nat /\ c.buf_back \in Nat
  BY DEF SendWindow
<1>2. bytes \in Seq(Nat)
  <2>1. bytes = FlattenSeq(SubSeq(c.wait, 1, k))
    BY DEF ResolvesSend
  <2>2. SubSeq(c.wait, 1, k) \in Seq(Seq(Nat))
    <3>1. k \in Int /\ 1 \in Int /\ \A i \in 1..k : c.wait[i] \in Seq(Nat)
      BY <1>1
    <3> QED
      BY <3>1, SubSeqProperties
  <2> QED
    BY <2>1, <2>2, FlattenIs
<1>3. /\ t \in SendWindow
      /\ t.seq_front = c.seq_front /\ t.seq_back = c.seq_back
      /\ t.wnd = c.wnd /\ t.cwnd = c.cwnd
      /\ t.buf_back = c.buf_back + Len(bytes)
      /\ t.rwnd = c.rwnd /\ t.wait = c.wait /\ t.timer = c.timer
  BY <1>2, BufferedIs
<1>4. Len(bytes) \in Nat
  BY <1>2
<1> HIDE DEF t
<1>5. /\ rest \in Seq(Seq(Nat))
      /\ Len(rest) = Len(c.wait) - k
      /\ k < Len(c.wait) => rest[1] = c.wait[k + 1]
  <2>1. /\ k + 1 \in Int /\ Len(c.wait) \in Int
        /\ \A i \in (k + 1)..Len(c.wait) : c.wait[i] \in Seq(Nat)
    BY <1>1
  <2>2. /\ rest \in Seq(Seq(Nat))
        /\ Len(rest) = IF k + 1 <= Len(c.wait) THEN Len(c.wait) - (k + 1) + 1 ELSE 0
        /\ \A i \in 1..(Len(c.wait) - (k + 1) + 1) : rest[i] = c.wait[(k + 1) + i - 1]
    BY <1>3, <2>1, SubSeqProperties
  <2> HIDE DEF rest
  <2>3. k < Len(c.wait) => 1 \in 1..(Len(c.wait) - (k + 1) + 1) /\ (k + 1) + 1 - 1 = k + 1
    BY <1>1
  <2>4. Len(rest) = Len(c.wait) - k
    <3> DEFINE L == Len(c.wait)
    <3>1. L \in Nat /\ k \in Nat /\ k <= L
      BY <1>1
    <3>2. Len(rest) = IF k + 1 <= L THEN L - (k + 1) + 1 ELSE 0
      BY <2>2
    <3> HIDE DEF L
    <3>3. Len(rest) = L - k
      BY <3>1, <3>2
    <3> QED
      BY <3>3 DEF L
  <2>5. k < Len(c.wait) => rest[1] = c.wait[k + 1]
    BY <2>2, <2>3
  <2> QED
    BY <2>2, <2>4, <2>5
<1> HIDE DEF rest
<1>6. /\ r \in SendWindow
      /\ r.seq_front = t.seq_front /\ r.seq_back = t.seq_back
      /\ r.buf_back = t.buf_back /\ r.wnd = t.wnd /\ r.cwnd = t.cwnd
      /\ r.rwnd = t.rwnd /\ r.timer = t.timer /\ r.wait = rest
  BY <1>3, <1>5 DEF SendWindow
<1> HIDE DEF r
<1>7. /\ InOrder(c) => InOrder(r)
      /\ Steady(c) /\ Len(bytes) <= MaxBuffer(c) => Steady(r)
      /\ MaxBuffer(c) \in Int /\ MaxBuffer(r) = MaxBuffer(c) - Len(bytes)
  BY <1>3, <1>4, <1>6, LongerIs
<1>8. Len(bytes) <= MaxBuffer(c)
  BY DEF ResolvesSend
<1>9. Waits(r)
  <2> SUFFICES ASSUME r.wait # <<>>
               PROVE  Len(Head(r.wait)) > MaxBuffer(r)
    BY DEF Waits
  <2>1. k < Len(c.wait)
    <3>1. Len(rest) # 0
      BY <1>5, <1>6
    <3> QED
      BY <1>1, <1>5, <3>1
  <2>2. Head(r.wait) = c.wait[k + 1]
    BY <1>5, <1>6, <2>1
  <2>3. Len(bytes) + Len(c.wait[k + 1]) > MaxBuffer(c)
    BY <2>1 DEF ResolvesSend
  <2>4. k + 1 \in 1..Len(c.wait) /\ c.wait[k + 1] \in Seq(Nat)
    BY <1>1, <2>1
  <2>5. Len(c.wait[k + 1]) \in Nat
    BY <2>4
  <2> QED
    BY <1>4, <1>7, <2>2, <2>3, <2>5
<1>10. r.buf_back >= c.buf_back /\ r.buf_back = c.buf_back + Len(bytes)
  BY <1>1, <1>3, <1>4, <1>6
<1>11. r.wait = SubSeq(c.wait, k + 1, Len(c.wait))
  BY <1>3, <1>6 DEF rest
<1> QED
  BY <1>2, <1>3, <1>6, <1>7, <1>8, <1>9, <1>10, <1>11 DEF r, rest, t

\* Something new acknowledged: s is what the window has just become.
LEMMA ProgressStep ==
    ASSUME SendInv, NEW s \in SendWindow, InOrder(s),
           ~ wrapped => Reach(s, sent),
           s.seq_front >= swnd.seq_front, s.buf_back = swnd.buf_back,
           s.wait = swnd.wait, Progress(s)
    PROVE  /\ SendInv' /\ Onward /\ Moves(s)
           /\ \E k \in 0..Len(swnd.wait) : Answers(k)
<1> DEFINE c == [CwndGrown(s) EXCEPT !.fails = 0]
<1>1. PICK k \in 0..Len(s.wait) :
        LET bytes == FlattenSeq(SubSeq(s.wait, 1, k))
            r == [Buffered(c, bytes) EXCEPT !.wait = SubSeq(@, k + 1, Len(@))]
            b == ToWnd(sbuf, bytes, c.buf_back)
            g == Rearmed(GrowSend(r))
            done == g.fin /\ g.seq_front = g.buf_back
        IN  /\ ResolvesSend(c, k, bytes)
            /\ sbuf' = b
            /\ data' = data \o BurstPackets(r, b)
            /\ sent' = Greatest(sent, g.seq_back)
            /\ wrapped' = (wrapped \/ c.cwnd < s.cwnd)
            /\ swnd' = IF done THEN Cleaned(g) ELSE g
            /\ sock' = IF done THEN "Fin_Wait1" ELSE sock
            /\ UNCHANGED <<asked, aborted>>
  BY DEF Progress
<1> DEFINE bytes == FlattenSeq(SubSeq(s.wait, 1, k))
           r == [Buffered(c, bytes) EXCEPT !.wait = SubSeq(@, k + 1, Len(@))]
           b == ToWnd(sbuf, bytes, c.buf_back)
           e == GrowSend(r)
           g == Rearmed(e)
           done == g.fin /\ g.seq_front = g.buf_back
           w == IF done THEN Cleaned(g) ELSE g
           more == BurstPackets(r, b)
           top == Greatest(sent, e.seq_back)
<1>2. /\ ResolvesSend(c, k, bytes)
      /\ sbuf' = b
      /\ data' = data \o more
      /\ sent' = Greatest(sent, g.seq_back)
      /\ wrapped' = (wrapped \/ c.cwnd < s.cwnd)
      /\ swnd' = w
      /\ sock' = IF done THEN "Fin_Wait1" ELSE sock
      /\ asked' = asked /\ aborted' = aborted
  BY <1>1
<1> HIDE DEF w, done, g, top, more
<1>3. /\ swnd.seq_front \in Nat /\ swnd.buf_back \in Nat
      /\ sbuf \in Buffer /\ data \in Seq(Packet)
      /\ asked \in Nat /\ sent \in Nat
  BY TypesAre DEF SendInv
<1>4. /\ c \in SendWindow
      /\ c.wnd = s.wnd /\ c.seq_front = s.seq_front /\ c.seq_back = s.seq_back
      /\ c.buf_back = s.buf_back /\ c.wait = s.wait /\ c.rwnd = s.rwnd
  BY CwndIs
<1> HIDE DEF c
<1>5. /\ bytes \in Seq(Nat)
      /\ r \in SendWindow /\ Waits(r)
      /\ r.seq_front = c.seq_front /\ r.seq_back = c.seq_back /\ r.rwnd = c.rwnd
      /\ r.buf_back >= c.buf_back /\ r.buf_back = c.buf_back + Len(bytes)
      /\ r.wait = SubSeq(c.wait, k + 1, Len(c.wait))
      /\ InOrder(c) => InOrder(r)
      /\ Steady(c) => Steady(r)
  <2> HIDE DEF bytes
  <2>1. c \in SendWindow /\ k \in 0..Len(c.wait) /\ ResolvesSend(c, k, bytes)
    BY <1>2, <1>4
  <2>2. /\ bytes \in Seq(Nat)
        /\ r \in SendWindow /\ Waits(r)
        /\ r.seq_front = c.seq_front /\ r.seq_back = c.seq_back
        /\ r.buf_back >= c.buf_back
        /\ r.buf_back = c.buf_back + Len(bytes)
        /\ r.wait = SubSeq(c.wait, k + 1, Len(c.wait))
        /\ r.rwnd = c.rwnd /\ r.timer = c.timer
        /\ InOrder(c) => InOrder(r)
        /\ Steady(c) => Steady(r)
    BY <2>1, ResolvedIs, Zenon
  <2> HIDE DEF r
  <2> QED
    BY <2>2

<1> HIDE DEF bytes, r
<1>6. b \in Buffer
  <2>1. c.buf_back \in Nat
    BY <1>4, FieldsAre
  <2> QED
    BY <1>3, <1>5, <2>1, ToWndIs
<1> HIDE DEF b
<1>7. InOrder(c)
  BY <1>4 DEF InOrder, Ascends, Cut, SegStart
<1>8. /\ e \in SendWindow /\ InOrder(e) /\ Waits(e)
      /\ e.seq_front = r.seq_front /\ e.buf_back = r.buf_back
      /\ e.rwnd = r.rwnd /\ e.wait = r.wait
      /\ top \in Nat /\ top >= sent
      /\ Steady(r) /\ sent <= r.buf_back
         => /\ Reach(e, top)
            /\ e.wnd = <<>> /\ e.seq_front < e.buf_back => e.rwnd = 0
  BY <1>3, <1>5, <1>6, <1>7, FillStep DEF top
<1>20. e.seq_back <= r.seq_back \/ e.seq_back <= r.seq_front + r.rwnd
  BY <1>5, <1>6, BurstSends
<1>21. more \in Seq(Packet)
  BY <1>5, <1>6, BurstPacketsIs DEF more
<1>22. Steady(r) => \A j \in 1..Len(more) : InFlight(more[j], e, b)
  BY <1>5, <1>6, BurstSends DEF more
<1> HIDE DEF e
<1>9. /\ g \in SendWindow
      /\ g.seq_front = e.seq_front /\ g.seq_back = e.seq_back
      /\ g.buf_back = e.buf_back /\ g.wnd = e.wnd /\ g.cwnd = e.cwnd
      /\ g.wait = e.wait /\ g.rwnd = e.rwnd
      /\ e.wnd # <<>> \/ e.rwnd = 0 => g.timer = "armed"
  <2> DEFINE timer == IF e.wnd # <<>> \/ e.rwnd = 0 THEN "armed" ELSE "idle"
  <2>1. timer \in {"null", "idle", "armed"}
    OBVIOUS
  <2>2. g = [e EXCEPT !.timer = timer]
    BY DEF g, Rearmed
  <2>3. e.wnd # <<>> \/ e.rwnd = 0 => timer = "armed"
    OBVIOUS
  <2> HIDE DEF timer
  <2>4. /\ g \in SendWindow
        /\ g.seq_front = e.seq_front /\ g.seq_back = e.seq_back
        /\ g.buf_back = e.buf_back /\ g.wnd = e.wnd /\ g.cwnd = e.cwnd
        /\ g.wait = e.wait /\ g.rwnd = e.rwnd /\ g.timer = timer
    BY <1>8, <2>1, <2>2 DEF SendWindow
  <2> QED
    BY <2>3, <2>4
<1>10. sent' = top
  BY <1>2, <1>9 DEF top
<1>11. Alike(e, g)
  BY <1>9 DEF Alike
<1>12. InOrder(g) /\ Waits(g)
  BY <1>8, <1>9, <1>11, AlikeIs DEF Waits
<1>13. ASSUME ~ wrapped'
       PROVE  Reach(g, top) /\ Armed(g) /\ Steady(r)
  <2>1. ~ wrapped /\ ~(c.cwnd < s.cwnd)
    BY <1>2, <1>13
  <2>2. Reach(s, sent)
    BY <2>1
  <2>3. Steady(c)
    <3>1. c.cwnd \in Nat /\ s.cwnd \in Nat /\ s.cwnd <= c.cwnd /\ Len(s.wnd) \in Nat
      <4>1. c.cwnd \in Nat /\ s.cwnd \in Nat /\ Len(s.wnd) \in Nat
        BY <1>4, FieldsAre
      <4> QED
        BY <2>1, <4>1
    <3>2. LastEnd(c) = LastEnd(s)
      BY <1>4 DEF LastEnd
    <3>3. Tiles(c)
      BY <1>4, <2>2, <3>1, <3>2 DEF Reach, Steady, Tiles
    <3>4. Ordered(c)
      BY <1>4, <2>2 DEF Reach, Steady, Ordered
    <3> QED
      BY <2>2, <3>1, <3>3, <3>4 DEF Reach, Steady
  <2>4. Steady(r) /\ sent <= r.buf_back
    <3>1. s.buf_back \in Nat /\ r.buf_back \in Nat /\ sent <= s.buf_back
      BY <1>5, <2>2, FieldsAre DEF Reach
    <3> QED
      BY <1>3, <1>4, <1>5, <2>3, <3>1
  <2>5. Reach(e, top) /\ (e.wnd = <<>> /\ e.seq_front < e.buf_back => e.rwnd = 0)
    BY <1>8, <2>4
  <2>6. Reach(g, top)
    BY <1>9, <1>11, <2>5, AlikeIs DEF Reach
  <2>7. Armed(g)
    BY <1>9, <2>5 DEF Armed
  <2> QED
    BY <2>4, <2>6, <2>7
<1>14. data' \in Seq(Packet)
  BY <1>2, <1>3, <1>21, ConcatProperties
<1>15. wrapped' \in BOOLEAN /\ sock' \in {"Established", "Fin_Wait1"}
  <2>1. sock \in {"Established", "Fin_Wait1"}
    BY DEF SendInv, SendTypeOK
  <2> QED
    BY <1>2, <2>1
<1>16. /\ w \in SendWindow /\ InOrder(w) /\ Waits(w)
       /\ w.seq_front = g.seq_front /\ w.buf_back = g.buf_back
       /\ w.seq_back = g.seq_back /\ w.rwnd = g.rwnd
       /\ \/ w.wait = g.wait /\ sock' = sock
          \/ w.wait = <<>> /\ sock' = "Fin_Wait1" /\ w.seq_front = w.buf_back
       /\ ~ wrapped' => Reach(w, top) /\ (sock' = "Established" => Armed(w))
  <2>1. CASE ~ done
    <3>1. w = g /\ sock' = sock
      BY <1>2, <2>1 DEF w
    <3> QED
      BY <1>9, <1>12, <1>13, <3>1
  <2>2. CASE done
    <3>1. w = [g EXCEPT !.timer = "null", !.wnd = <<>>, !.wait = <<>>]
      BY <2>2 DEF w, Cleaned
    <3>2. <<>> \in Seq(Nat) /\ <<>> \in Seq(Seq(Nat))
      OBVIOUS
    <3>3. /\ w \in SendWindow
          /\ w.seq_front = g.seq_front /\ w.seq_back = g.seq_back
          /\ w.buf_back = g.buf_back /\ w.wnd = <<>> /\ w.cwnd = g.cwnd
          /\ w.wait = <<>> /\ w.rwnd = g.rwnd
      BY <1>9, <3>1, <3>2 DEF SendWindow
    <3>4. InOrder(w) /\ Waits(w)
      BY <3>3 DEF InOrder, Ascends, Cut, Waits
    <3>5. sock' = "Fin_Wait1" /\ g.seq_front = g.buf_back
      BY <1>2, <2>2 DEF done
    <3>6. ASSUME ~ wrapped'
          PROVE  Reach(w, top)
      <4>1. Ordered(g) /\ 1 <= g.cwnd /\ g.seq_back <= top /\ top <= g.buf_back
        BY <1>13, <3>6 DEF Reach, Steady
      <4>2. Ordered(w)
        BY <3>3, <4>1 DEF Ordered
      <4>3. g.seq_front \in Nat /\ g.seq_back \in Nat /\ g.buf_back \in Nat
            /\ g.cwnd \in Nat
        <5>1. g \in SendWindow
          BY <1>9
        <5> QED
          BY <5>1, FieldsAre
      <4>4. g.seq_back = g.seq_front
        BY <3>5, <4>1, <4>3 DEF Ordered
      <4>5. Tiles(w)
        BY <3>3, <4>1, <4>3, <4>4 DEF Tiles, LastEnd
      <4> QED
        BY <3>3, <4>1, <4>2, <4>5 DEF Reach, Steady
    <3> QED
      BY <3>3, <3>4, <3>5, <3>6
  <2> QED
    BY <2>1, <2>2
<1>17. SendTypeOK'
  BY <1>2, <1>3, <1>6, <1>8, <1>10, <1>14, <1>15, <1>16 DEF SendInv, SendTypeOK, Packet
<1>18. SendInv'
  BY <1>2, <1>10, <1>16, <1>17 DEF SendInv
<1>19. Onward
  <2>1. r.buf_back \in Nat
    BY <1>5, FieldsAre
  <2> QED
    BY <1>2, <1>3, <1>4, <1>5, <1>8, <1>9, <1>10, <1>16, <2>1 DEF Onward
<1>23. Moves(s)
  <2>1. w.seq_back <= s.seq_back \/ w.seq_back <= s.seq_front + s.rwnd
    BY <1>4, <1>5, <1>9, <1>16, <1>20
  <2>2. ASSUME ~ wrapped'
        PROVE  Adds(data, data', swnd', sbuf')
    <3>1. \A j \in 1..Len(more) : InFlight(more[j], e, b)
      BY <1>13, <1>22, <2>2
    <3>2. \A j \in 1..Len(more) : InFlight(more[j], swnd', sbuf')
      BY <1>2, <1>9, <1>16, <3>1 DEF InFlight
    <3> QED
      BY <1>2, <1>3, <1>21, <3>2, AddsMany
  <2> QED
    BY <1>2, <1>4, <1>5, <1>8, <1>9, <1>16, <2>1, <2>2 DEF Moves
<1>24. Answers(k)
  <2> DEFINE rest == SubSeq(swnd.wait, k + 1, Len(swnd.wait))
  <2>1. /\ bytes = FlattenSeq(SubSeq(swnd.wait, 1, k))
        /\ g.wait = rest
    BY <1>4, <1>5, <1>8, <1>9 DEF bytes
  <2>2. sbuf' = ToWnd(sbuf, bytes, swnd.buf_back)
    BY <1>2, <1>4 DEF b
  <2>3. swnd'.buf_back = swnd.buf_back + Len(bytes) /\ asked' = asked
    BY <1>2, <1>4, <1>5, <1>8, <1>9, <1>16
  <2> HIDE DEF rest
  <2>4. \/ swnd'.wait = rest /\ sock' = sock
        \/ /\ swnd'.wait = <<>> /\ sock' = "Fin_Wait1"
           /\ swnd'.seq_front = swnd'.buf_back
           /\ rest # <<>> => Len(Head(rest)) >= BufferSize
    <3>1. CASE w.wait = g.wait /\ sock' = sock
      BY <1>2, <2>1, <3>1
    <3>2. CASE w.wait = <<>> /\ sock' = "Fin_Wait1" /\ w.seq_front = w.buf_back
      <4>1. ASSUME rest # <<>>
            PROVE  Len(Head(rest)) >= BufferSize
        <5>1. Len(Head(rest)) > MaxBuffer(g)
          BY <1>12, <2>1, <4>1 DEF Waits
        <5>2. g.seq_front = g.buf_back /\ g.buf_back \in Nat
          BY <1>9, <1>16, <3>2, FieldsAre
        <5>3. MaxBuffer(g) = BufferSize - 1
          BY <5>2, BufferAssumption DEF MaxBuffer
        <5>4. Len(Head(rest)) \in Nat
          <6>1. g.wait \in Seq(Seq(Nat))
            BY <1>9 DEF SendWindow
          <6>2. Head(rest) \in Seq(Nat)
            BY <2>1, <4>1, <6>1
          <6> QED
            BY <6>2
        <5> QED
          BY <5>1, <5>3, <5>4, BufferAssumption
      <4> QED
        BY <1>2, <3>2, <4>1
    <3> QED
      BY <1>16, <3>1, <3>2
  <2>5. ASSUME ~ wrapped'
        PROVE  swnd'.seq_front <= swnd.buf_back
    <3>1. /\ s.seq_front <= s.seq_back /\ s.seq_back <= s.buf_back
      BY <1>2, <2>5 DEF Reach, Steady, Ordered
    <3>2. s.seq_front \in Nat /\ s.seq_back \in Nat /\ s.buf_back \in Nat
      BY FieldsAre
    <3> QED
      BY <1>23, <3>1, <3>2 DEF Moves
  <2> QED
    BY <2>1, <2>2, <2>3, <2>4, <2>5 DEF Answers, rest

<1>25. k \in 0..Len(swnd.wait)
  OBVIOUS
<1> QED
  BY <1>18, <1>19, <1>23, <1>24, <1>25


\* An acknowledgement moves the window: seq_front less than a segment past
\* it, and what is sent then stays within the window it advertises.
Acks(ack, w) ==
    /\ swnd'.rwnd = w
    /\ swnd'.seq_front = swnd.seq_front \/ swnd'.seq_front < ack + SegmentSize
    /\ Whole(swnd, ack) => swnd'.seq_front = Greatest(ack, swnd.seq_front)
    /\ ~ wrapped' =>
         /\ Adds(data, data', swnd', sbuf')
         /\ \/ swnd'.seq_back <= swnd.seq_back
            \/ swnd'.seq_back <= ack
            \/ swnd'.seq_back <= swnd'.seq_front + w

LEMMA PushAckStep ==
    ASSUME SendInv, NEW ack \in Nat, NEW w \in 0..(BufferSize - 1),
           ~ wrapped => ack <= sent, PushAck(ack, w)
    PROVE  /\ SendInv' /\ Onward
           /\ StoresNone \/ \E k \in 0..Len(swnd.wait) : Answers(k)
           /\ Acks(ack, w) \/ UNCHANGED <<swnd, data>>
<1>1. PICK n \in 0..Len(swnd.wnd) :
        LET a == Advertised(Popped(swnd, n), w)
            s == Jumped(a, ack)
        IN  /\ PopsExactly(swnd, ack, n)
            /\ IF n > 0 \/ ack > a.seq_front THEN Progress(s) ELSE DupAck(s)
  BY DEF PushAck
<1> DEFINE p == Popped(swnd, n)
           a == Advertised(p, w)
           s == Acked(swnd, n, ack, w)
<1>2. /\ PopsExactly(swnd, ack, n)
      /\ IF n > 0 \/ ack > a.seq_front THEN Progress(s) ELSE DupAck(s)
  BY <1>1 DEF Acked
<1>3. sock = "Established"
  BY DEF PushAck
<1>4. /\ swnd \in SendWindow
      /\ swnd.seq_front \in Nat /\ swnd.seq_back \in Nat /\ swnd.buf_back \in Nat
      /\ sent \in Nat
      /\ InOrder(swnd)
  BY TypesAre DEF SendInv
<1>5. ack \in Nat /\ (~ wrapped => ack <= sent)
  OBVIOUS
<1>6. /\ s \in SendWindow /\ InOrder(s)
      /\ s.seq_front = Greatest(ack, p.seq_front)
      /\ s.seq_back = IF s.seq_front = p.seq_front THEN swnd.seq_back
                      ELSE Greatest(swnd.seq_back, ack)
      /\ swnd.seq_front <= s.seq_front
      /\ s.buf_back = swnd.buf_back /\ s.wait = swnd.wait
      /\ s.rwnd = w
      /\ s.timer = IF w = 0 THEN "armed" ELSE swnd.timer
  BY <1>2, <1>4, <1>5, AckedIs
<1>7. a.seq_front = p.seq_front /\ p.seq_front \in Nat
  <2>1. p \in SendWindow
    BY <1>4, PoppedIs
  <2> HIDE DEF p
  <2> QED
    BY <2>1 DEF Advertised, SendWindow
<1>8. n = 0 => p = swnd
  BY DEF Popped
<1>13. /\ s.seq_front = swnd.seq_front \/ s.seq_front < ack + SegmentSize
       /\ Whole(swnd, ack) => s.seq_front = Greatest(ack, swnd.seq_front)
  BY <1>2, <1>4, <1>5, <1>6, PoppedReach
<1>14. s.seq_back = swnd.seq_back \/ s.seq_back = ack
  <2> HIDE DEF p, s
  <2> QED
    BY <1>6 DEF Greatest
<1>9. ASSUME ~ wrapped
      PROVE  Reach(s, sent)
  <2>1. Steady(swnd) /\ swnd.seq_back <= sent /\ sent <= swnd.buf_back
    BY <1>9 DEF SendInv, Reach
  <2>2. ack <= swnd.buf_back
    BY <1>4, <1>5, <1>9, <2>1
  <2>3. Steady(s)
    BY <1>2, <1>4, <1>5, <2>1, <2>2, AckedSteady
  <2> HIDE DEF s, p
  <2>4. s.seq_back <= sent
    BY <1>4, <1>5, <1>6, <1>9, <2>1 DEF Greatest
  <2> QED
    BY <1>6, <2>1, <2>3, <2>4 DEF Reach
<1> HIDE DEF a, p, s
<1>10. s.seq_front \in Nat /\ s.seq_front >= swnd.seq_front
  <2>1. s.seq_front \in Nat
    BY <1>6, FieldsAre
  <2> QED
    BY <1>4, <1>6, <2>1
<1>15. Moves(s) => Acks(ack, w)
  <2> SUFFICES ASSUME Moves(s)
               PROVE  Acks(ack, w)
    OBVIOUS
  <2>1. swnd'.seq_front = s.seq_front /\ swnd'.rwnd = w
    BY <1>6 DEF Moves
  <2>2. ASSUME ~ wrapped'
        PROVE  /\ Adds(data, data', swnd', sbuf')
               /\ \/ swnd'.seq_back <= swnd.seq_back
                  \/ swnd'.seq_back <= ack
                  \/ swnd'.seq_back <= swnd'.seq_front + w
    <3>1. /\ Adds(data, data', swnd', sbuf')
          /\ swnd'.seq_back <= s.seq_back \/ swnd'.seq_back <= s.seq_front + s.rwnd
      BY <2>2 DEF Moves
    <3> QED
      BY <1>6, <1>14, <2>1, <3>1
  <2> QED
    BY <1>13, <2>1, <2>2 DEF Acks
<1>11. CASE n > 0 \/ ack > a.seq_front
  <2>1. Progress(s)
    BY <1>2, <1>11
  <2> QED
    BY <1>6, <1>9, <1>10, <1>15, <2>1, ProgressStep
<1>12. CASE ~(n > 0 \/ ack > a.seq_front)
  <2>1. DupAck(s)
    BY <1>2, <1>12
  <2>2. n = 0 /\ ~(ack > p.seq_front)
    <3>1. n \in Nat
      BY <1>4 DEF SendWindow
    <3> QED
      BY <1>7, <1>12, <3>1
  <2>3. s.seq_front = swnd.seq_front
    BY <1>5, <1>6, <1>7, <1>8, <2>2 DEF Greatest
  <2>4. Waits(s)
    BY <1>6, <2>3 DEF SendInv, Waits, MaxBuffer
  <2>5. Armed(s) \/ wrapped
    BY <1>3, <1>6, <2>3 DEF SendInv, Armed
  <2> QED
    BY <1>6, <1>9, <1>10, <1>15, <2>1, <2>4, <2>5, DupStep
<1> QED
  BY <1>11, <1>12

\* A step of the sending half goes onward, adds packets in flight only, and
\* stores what it is asked to send or what has waited longest.
Effect ==
    /\ Onward
    /\ ~ wrapped' => Adds(data, data', swnd', sbuf')
    /\ \/ StoresNone
       \/ \E n \in WriteSizes : Takes(n) /\ Moves(swnd)
       \/ sock = "Established" /\ \E k \in 0..Len(swnd.wait) : Answers(k)

\* So does an acknowledgement.
LEMMA AckEffect ==
    ASSUME NEW ack, NEW w, PushAck(ack, w), Onward,
           StoresNone \/ \E k \in 0..Len(swnd.wait) : Answers(k),
           Acks(ack, w) \/ UNCHANGED <<swnd, data>>
    PROVE  Effect
<1>1. sock = "Established"
  BY DEF PushAck
<1>2. ~ wrapped' => Adds(data, data', swnd', sbuf')
  BY AddsNone DEF Acks
<1> QED
  BY <1>1, <1>2 DEF Effect

LEMMA NextInv ==

    ASSUME SendInv, [SendNext]_sendVars
    PROVE  SendInv' /\ Effect
<1>1. CASE UNCHANGED sendVars
  <2>1. /\ swnd' = swnd /\ sbuf' = sbuf /\ sock' = sock /\ data' = data
        /\ asked' = asked /\ sent' = sent /\ wrapped' = wrapped /\ aborted' = aborted
    BY <1>1 DEF sendVars
  <2>2. SendTypeOK'
    BY <2>1 DEF SendInv, SendTypeOK
  <2>3. SendInv'
    BY <2>1, <2>2 DEF SendInv
  <2>4. Onward /\ StoresNone
    BY <2>1, TypesAre DEF SendInv, Onward, StoresNone
  <2> QED
    BY <2>1, <2>3, <2>4, AddsNone DEF Effect
<1>2. CASE Write
  <2>1. PICK n \in WriteSizes : Send(n)
    BY <1>2 DEF Write
  <2>2. n \in Nat
    BY WritesAssumption
  <2>3. SendInv' /\ Onward /\ Takes(n) /\ Moves(swnd)
    BY <2>1, <2>2, SendStep
  <2> QED
    BY <2>3 DEF Effect, Moves
<1>3. CASE CloseCall
  BY <1>3, CloseStep DEF Effect, Moves
<1>4. CASE Acknowledged
  <2>1. PICK ack \in 0..sent, w \in 0..(BufferSize - 1) : PushAck(ack, w)
    BY <1>4 DEF Acknowledged
  <2>2. ack \in Nat /\ ack <= sent
    BY TypesAre DEF SendInv
  <2>3. /\ SendInv' /\ Onward
        /\ StoresNone \/ \E k \in 0..Len(swnd.wait) : Answers(k)
        /\ Acks(ack, w) \/ UNCHANGED <<swnd, data>>
    BY <2>1, <2>2, PushAckStep
  <2> QED
    BY <2>1, <2>3, AckEffect
<1>5. CASE TimerFires
  <2>1. /\ SendInv' /\ Onward /\ StoresNone
        /\ Moves(swnd) \/ UNCHANGED <<swnd, data>>
    BY <1>5, TimerStep
  <2> QED
    BY <2>1, AddsNone DEF Effect, Moves
<1>6. CASE Depart
  <2>1. /\ data \in Seq(Packet) /\ data # <<>> /\ data' = Tail(data)
        /\ UNCHANGED <<swnd, sbuf, sock, asked, sent, wrapped, aborted>>
    BY <1>6, TypesAre DEF SendInv, Depart
  <2>2. /\ data' \in Seq(Packet)
        /\ \A i \in 1..Len(data') : i + 1 \in 1..Len(data) /\ data'[i] = data[i + 1]
    BY <2>1
  <2>3. Adds(data, data', swnd', sbuf')
    BY <2>2 DEF Adds
  <2>4. SendInv' /\ Onward /\ StoresNone
    BY <2>1, <2>2, DepartStep
  <2> QED
    BY <2>3, <2>4 DEF Effect
<1> QED
  BY <1>1, <1>2, <1>3, <1>4, <1>5, <1>6 DEF SendNext

-----------------------------------------------------------------------------
(* What is on its way, and what is asked for.                              *)

AllEnd(d, e) == \A i \in 1..Len(d) : d[i].seq + Len(d[i].payload) <= e

\* No packet ever goes past sent.
DataSent == ~ wrapped => AllEnd(data, sent)

\* While the connection is open, what is asked for is buffered or waits.
Asking ==
    /\ swnd.buf_back <= asked
    /\ sock = "Established" => asked = swnd.buf_back + Len(FlattenSeq(swnd.wait))
    /\ \A k \in 1..Len(swnd.wait) : Len(swnd.wait[k]) \in WriteSizes

LEMMA InFlightEnds ==
    ASSUME NEW s, NEW b, s.seq_back \in Nat, NEW p, InFlight(p, s, b)
    PROVE  p.seq + Len(p.payload) <= s.seq_back
<1>1. PICK l \in Nat, h \in Nat : l <= h /\ h <= s.seq_back /\ p = PacketFromWnd(b, l, h)
  BY DEF InFlight
<1> DEFINE bytes == FromWnd(b, l, h)
<1>2. p.seq = l /\ p.payload = bytes
  BY <1>1 DEF PacketFromWnd
<1>3. Len(bytes) = h - l
  BY <1>1 DEF FromWnd
<1> HIDE DEF bytes
<1> QED
  BY <1>1, <1>2, <1>3

LEMMA EndIs ==
    ASSUME NEW p \in Packet
    PROVE  p.seq \in Nat /\ p.seq + Len(p.payload) \in Nat
<1>1. p.seq \in Nat /\ p.payload \in Seq(Byte)
  BY DEF Packet
<1>2. Len(p.payload) \in Nat
  BY <1>1
<1> QED
  BY <1>1, <1>2

\* What is left of a sequence behind its first k elements.
LEMMA RestIs ==
    ASSUME NEW T, NEW ss \in Seq(T), NEW k \in 0..Len(ss)
    PROVE  LET rest == SubSeq(ss, k + 1, Len(ss)) IN
           /\ rest \in Seq(T) /\ Len(rest) = Len(ss) - k
           /\ \A i \in 1..Len(rest) : k + i \in 1..Len(ss) /\ rest[i] = ss[k + i]
<1> DEFINE rest == SubSeq(ss, k + 1, Len(ss))
<1>1. /\ Len(ss) \in Nat /\ k + 1 \in Int /\ Len(ss) \in Int
      /\ \A i \in (k + 1)..Len(ss) : ss[i] \in T
  OBVIOUS
<1>2. /\ rest \in Seq(T)
      /\ Len(rest) = IF k + 1 <= Len(ss) THEN Len(ss) - (k + 1) + 1 ELSE 0
      /\ \A i \in 1..(Len(ss) - (k + 1) + 1) : rest[i] = ss[(k + 1) + i - 1]
  BY <1>1, SubSeqProperties
<1> HIDE DEF rest
<1>3. Len(rest) = Len(ss) - k
  BY <1>1, <1>2
<1>4. ASSUME NEW i \in 1..Len(rest)
      PROVE  k + i \in 1..Len(ss) /\ rest[i] = ss[k + i]
  <2>1. i \in Nat /\ i >= 1 /\ i <= Len(ss) - k /\ (k + 1) + i - 1 = k + i
    BY <1>1, <1>3
  <2> QED
    BY <1>1, <1>2, <2>1
<1>5. rest \in Seq(T)
  BY <1>2
<1> QED
  BY <1>3, <1>4, <1>5 DEF rest

LEMMA DataSentStep ==
    ASSUME SendInv, SendInv', Effect, DataSent
    PROVE  DataSent'
<1> SUFFICES ASSUME ~ wrapped', NEW i \in 1..Len(data')
             PROVE  data'[i].seq + Len(data'[i].payload) <= sent'
  BY DEF DataSent, AllEnd
<1>1. /\ ~ wrapped /\ sent' >= sent
      /\ Adds(data, data', swnd', sbuf')
  BY DEF Effect, Onward
<1>2. /\ sent \in Nat /\ sent' \in Nat /\ swnd'.seq_back \in Nat
      /\ swnd'.seq_back <= sent'
      /\ data \in Seq(Packet) /\ data' \in Seq(Packet)
  BY TypesAre, FieldsAre DEF SendInv, SendTypeOK, Reach, Packet
<1>3. CASE InFlight(data'[i], swnd', sbuf')
  <2>1. data'[i] \in Packet
    BY <1>2
  <2>2. data'[i].seq + Len(data'[i].payload) <= swnd'.seq_back
    BY <1>2, <1>3, InFlightEnds
  <2>3. data'[i].seq + Len(data'[i].payload) \in Nat
    BY <2>1, EndIs
  <2> QED
    BY <1>2, <2>2, <2>3
<1>4. CASE \E j \in 1..Len(data) : data'[i] = data[j]
  <2>1. PICK j \in 1..Len(data) : data'[i] = data[j]
    BY <1>4
  <2>2. data[j].seq + Len(data[j].payload) <= sent
    BY <1>1 DEF DataSent, AllEnd
  <2>3. data[j].seq + Len(data[j].payload) \in Nat
    <3>1. data[j] \in Packet
      BY <1>2
    <3> QED
      BY <3>1, EndIs
  <2> QED
    BY <1>1, <1>2, <2>1, <2>2, <2>3
<1> QED
  BY <1>1, <1>3, <1>4 DEF Adds

LEMMA AskingStep ==
    ASSUME SendInv, SendInv', Effect, Asking
    PROVE  Asking'
<1>1. /\ swnd.buf_back \in Nat /\ swnd.wait \in Seq(Seq(Nat)) /\ asked \in Nat
      /\ sock' = "Established" => sock = "Established"
  BY TypesAre DEF SendInv, Effect, Onward
<1>2. CASE StoresNone
  BY <1>1, <1>2 DEF StoresNone, Asking
<1>3. CASE \E n \in WriteSizes : Takes(n) /\ Moves(swnd)
  <2>1. PICK n \in WriteSizes : Takes(n)
    BY <1>3
  <2> DEFINE bytes == [k \in 1..n |-> asked + k - 1]
  <2>2. n \in Nat /\ sock = "Established" /\ asked' = asked + n
    BY <2>1, WritesAssumption DEF Takes
  <2>3. bytes \in Seq(Nat) /\ Len(bytes) = n
    BY <1>1, <2>2
  <2>4. \/ swnd'.buf_back = swnd.buf_back + n /\ swnd'.wait = swnd.wait
        \/ swnd'.buf_back = swnd.buf_back /\ swnd'.wait = Append(swnd.wait, bytes)
    BY <2>1 DEF Takes
  <2>5. asked = swnd.buf_back + Len(FlattenSeq(swnd.wait))
    BY <2>2 DEF Asking
  <2> HIDE DEF bytes
  <2>6. CASE swnd'.buf_back = swnd.buf_back + n /\ swnd'.wait = swnd.wait
    <3>1. FlattenSeq(swnd.wait) \in Seq(Nat)
      BY <1>1, FlattenIs
    <3>2. Len(FlattenSeq(swnd.wait)) \in Nat
      BY <3>1
    <3>3. FlattenSeq(swnd'.wait) = FlattenSeq(swnd.wait)
      BY <2>6
    <3> QED
      BY <1>1, <2>2, <2>5, <2>6, <3>2, <3>3 DEF Asking
  <2>7. CASE swnd'.buf_back = swnd.buf_back /\ swnd'.wait = Append(swnd.wait, bytes)
    <3>1. FlattenSeq(swnd.wait) \in Seq(Nat)
      BY <1>1, FlattenIs
    <3>2. FlattenSeq(swnd'.wait) = FlattenSeq(swnd.wait) \o bytes
      BY <1>1, <2>3, <2>7, FlattenAppend
    <3>3. Len(FlattenSeq(swnd'.wait)) = Len(FlattenSeq(swnd.wait)) + n
      <4>1. Len(FlattenSeq(swnd.wait) \o bytes) = Len(FlattenSeq(swnd.wait)) + Len(bytes)
        BY <2>3, <3>1, ConcatProperties
      <4> QED
        BY <2>3, <3>2, <4>1
    <3>4. Len(FlattenSeq(swnd.wait)) \in Nat
      BY <3>1
    <3>5. ASSUME NEW k \in 1..Len(swnd'.wait)
          PROVE  Len(swnd'.wait[k]) \in WriteSizes
      <4>1. \/ k \in 1..Len(swnd.wait) /\ swnd'.wait[k] = swnd.wait[k]
            \/ swnd'.wait[k] = bytes
        BY <1>1, <2>3, <2>7
      <4> QED
        BY <2>3, <4>1 DEF Asking
    <3>6. swnd'.buf_back <= asked'
      BY <1>1, <2>2, <2>5, <2>7, <3>4 DEF Asking
    <3>7. asked' = swnd'.buf_back + Len(FlattenSeq(swnd'.wait))
      BY <1>1, <2>2, <2>5, <2>7, <3>3, <3>4 DEF Asking
    <3> QED
      BY <3>5, <3>6, <3>7 DEF Asking
  <2> QED
    BY <2>4, <2>6, <2>7
<1>4. CASE sock = "Established" /\ \E k \in 0..Len(swnd.wait) : Answers(k)
  <2>1. PICK k \in 0..Len(swnd.wait) : Answers(k)
    BY <1>4
  <2> DEFINE pre == FlattenSeq(SubSeq(swnd.wait, 1, k))
             rest == SubSeq(swnd.wait, k + 1, Len(swnd.wait))
  <2>2. /\ swnd'.buf_back = swnd.buf_back + Len(pre) /\ asked' = asked
        /\ (swnd'.wait = rest /\ sock' = sock) \/ (swnd'.wait = <<>> /\ sock' = "Fin_Wait1")
    BY <2>1 DEF Answers
  <2>3. asked = swnd.buf_back + Len(FlattenSeq(swnd.wait))
    BY <1>4 DEF Asking
  <2>4. Len(FlattenSeq(swnd.wait)) = Len(pre) + Len(FlattenSeq(rest))
    BY <1>1, FlattenSplit
  <2>5. SubSeq(swnd.wait, 1, k) \in Seq(Seq(Nat))
    <3>1. \A i \in 1..k : swnd.wait[i] \in Seq(Nat)
      BY <1>1
    <3> QED
      BY <1>1, <3>1
  <2>6. /\ rest \in Seq(Seq(Nat))
        /\ \A i \in 1..Len(rest) : k + i \in 1..Len(swnd.wait) /\ rest[i] = swnd.wait[k + i]
    BY <1>1, RestIs
  <2>7. Len(pre) \in Nat /\ Len(FlattenSeq(rest)) \in Nat
    <3>1. pre \in Seq(Nat) /\ FlattenSeq(rest) \in Seq(Nat)
      BY <2>5, <2>6, FlattenIs
    <3> HIDE DEF pre, rest
    <3> QED
      BY <3>1
  <2> HIDE DEF pre, rest
  <2>8. swnd'.buf_back <= asked'
    BY <1>1, <2>2, <2>3, <2>4, <2>7
  <2>9. ASSUME sock' = "Established"
        PROVE  asked' = swnd'.buf_back + Len(FlattenSeq(swnd'.wait))
    <3>1. swnd'.wait = rest
      BY <2>2, <2>9
    <3> QED
      BY <1>1, <2>2, <2>3, <2>4, <2>7, <3>1
  <2>10. ASSUME NEW i \in 1..Len(swnd'.wait)
         PROVE  Len(swnd'.wait[i]) \in WriteSizes
    <3>1. CASE swnd'.wait = rest
      <4>1. swnd'.wait[i] = swnd.wait[k + i] /\ k + i \in 1..Len(swnd.wait)
        BY <2>6, <3>1
      <4> QED
        BY <4>1 DEF Asking
    <3>2. CASE swnd'.wait = <<>>
      BY <3>2
    <3> QED
      BY <2>2, <3>1, <3>2
  <2> QED
    BY <2>8, <2>9, <2>10 DEF Asking
<1> QED
  BY <1>2, <1>3, <1>4 DEF Effect

-----------------------------------------------------------------------------
(* What the packets carry, when no request is made while another waits.    *)

\* The round queue holds the bytes that are not acknowledged.
Holds(s, b) == Keeps(b, s.seq_front, s.buf_back)

\* At most one request waits, and it comes next.
Alone(s) == s.wait = <<>> \/ \E x \in Seq(Nat) : s.wait = <<x>> /\ From(x, s.buf_back)

Content ==
    ~ wrapped => /\ Holds(swnd, sbuf)
                 /\ sock = "Established" => Alone(swnd)
                 /\ \A i \in 1..Len(data) : From(data[i].payload, data[i].seq)

\* Bytes stored behind those of the round queue.
LEMMA StoredHolds ==
    ASSUME SendInv, SendInv', Onward, ~ wrapped', Holds(swnd, sbuf),
           NEW bytes \in Seq(Nat), From(bytes, swnd.buf_back),
           sbuf' = ToWnd(sbuf, bytes, swnd.buf_back),
           swnd'.buf_back = swnd.buf_back + Len(bytes),
           swnd'.seq_front <= swnd.buf_back
    PROVE  Holds(swnd', sbuf')
<1> DEFINE f == swnd'.seq_front
           l == swnd.buf_back
<1>1. /\ f \in Nat /\ l \in Nat /\ sbuf \in Buffer /\ swnd.seq_front \in Nat
      /\ swnd.seq_front <= f
  BY TypesAre, FieldsAre DEF SendInv, SendTypeOK, Onward
<1>2. l + Len(bytes) - f < BufferSize
  <2>1. Ordered(swnd')
    BY DEF SendInv, Reach, Steady
  <2> QED
    BY <1>1, <2>1 DEF Ordered
<1>3. Keeps(sbuf, f, l)
  BY <1>1 DEF Holds, Keeps
<1>4. f <= l /\ From(bytes, l)
  OBVIOUS
<1> HIDE DEF f, l
<1>5. Keeps(ToWnd(sbuf, bytes, l), f, l + Len(bytes))
  BY <1>1, <1>2, <1>3, <1>4, ToWndCarries
<1>6. /\ sbuf' = ToWnd(sbuf, bytes, l)
      /\ swnd'.seq_front = f /\ swnd'.buf_back = l + Len(bytes)
  BY DEF f, l
<1> QED
  BY <1>5, <1>6 DEF Holds

LEMMA HoldsStep ==
    ASSUME SendInv, SendInv', Effect, Asking, Content, MaxWrites <= 1, ~ wrapped'
    PROVE  Holds(swnd', sbuf') /\ (sock' = "Established" => Alone(swnd'))
<1>1. /\ ~ wrapped /\ Holds(swnd, sbuf) /\ (sock = "Established" => Alone(swnd))
      /\ Onward /\ (sock' = "Established" => sock = "Established")
  BY DEF Effect, Onward, Content
<1>2. /\ swnd.buf_back \in Nat /\ swnd.seq_front \in Nat /\ swnd'.seq_front \in Nat
      /\ swnd.wait \in Seq(Seq(Nat)) /\ asked \in Nat
      /\ swnd'.seq_front >= swnd.seq_front
      /\ swnd.seq_front <= swnd.buf_back
  BY <1>1, TypesAre, FieldsAre DEF SendInv, SendTypeOK, Onward, Reach, Steady, Ordered
<1>3. CASE StoresNone
  BY <1>1, <1>2, <1>3 DEF StoresNone, Holds, Keeps, Alone
<1>4. CASE \E n \in WriteSizes : Takes(n) /\ Moves(swnd)
  <2>1. PICK n \in WriteSizes : Takes(n) /\ Moves(swnd)
    BY <1>4
  <2> DEFINE bytes == [k \in 1..n |-> asked + k - 1]
  <2>2. n \in Nat /\ sock = "Established" /\ Len(swnd.wait) < MaxWrites
    BY <2>1, WritesAssumption DEF Takes
  <2>3. swnd.wait = <<>>
    <3>1. Len(swnd.wait) = 0
      BY <1>2, <2>2, WritesAssumption
    <3> QED
      BY <1>2, <3>1
  <2>4. asked = swnd.buf_back
    <3>1. FlattenSeq(swnd.wait) = <<>>
      BY <2>3, FlattenNone
    <3>2. Len(FlattenSeq(swnd.wait)) = 0
      BY <3>1
    <3> QED
      BY <1>2, <2>2, <3>2 DEF Asking
  <2>5. bytes \in Seq(Nat) /\ Len(bytes) = n /\ From(bytes, swnd.buf_back)
    BY <1>2, <2>2, <2>4 DEF From
  <2>6. /\ swnd'.seq_front = swnd.seq_front
        /\ \/ /\ sbuf' = ToWnd(sbuf, bytes, swnd.buf_back)
              /\ swnd'.buf_back = swnd.buf_back + n /\ swnd'.wait = swnd.wait
           \/ /\ sbuf' = sbuf
              /\ swnd'.buf_back = swnd.buf_back /\ swnd'.wait = Append(swnd.wait, bytes)
    BY <2>1 DEF Takes, Moves
  <2> HIDE DEF bytes
  <2>7. CASE /\ sbuf' = ToWnd(sbuf, bytes, swnd.buf_back)
             /\ swnd'.buf_back = swnd.buf_back + n /\ swnd'.wait = swnd.wait
    <3>1. Holds(swnd', sbuf')
      BY <1>1, <1>2, <2>5, <2>6, <2>7, StoredHolds
    <3> QED
      BY <2>3, <2>7, <3>1 DEF Alone
  <2>8. CASE /\ sbuf' = sbuf
             /\ swnd'.buf_back = swnd.buf_back /\ swnd'.wait = Append(swnd.wait, bytes)
    <3>1. swnd'.wait = <<bytes>>
      BY <2>3, <2>8
    <3> QED
      BY <1>1, <2>5, <2>6, <2>8, <3>1 DEF Alone, Holds
  <2> QED
    BY <2>6, <2>7, <2>8
<1>5. CASE sock = "Established" /\ \E k \in 0..Len(swnd.wait) : Answers(k)
  <2>1. PICK k \in 0..Len(swnd.wait) : Answers(k)
    BY <1>5
  <2> DEFINE pre == SubSeq(swnd.wait, 1, k)
             rest == SubSeq(swnd.wait, k + 1, Len(swnd.wait))
             bytes == FlattenSeq(pre)
  <2>2. /\ sbuf' = ToWnd(sbuf, bytes, swnd.buf_back)
        /\ swnd'.buf_back = swnd.buf_back + Len(bytes)
        /\ swnd'.seq_front <= swnd.buf_back
        /\ swnd'.wait = rest \/ swnd'.wait = <<>>
    BY <2>1 DEF Answers
  <2>3. Alone(swnd)
    BY <1>1, <1>5
  <2>4. CASE k = 0
    <3>1. pre = <<>> /\ rest = swnd.wait
      BY <1>2, <2>4
    <3>2. bytes = <<>>
      BY <3>1, FlattenNone
    <3> HIDE DEF bytes, rest
    <3>3. bytes \in Seq(Nat) /\ Len(bytes) = 0 /\ From(bytes, swnd.buf_back)
      BY <3>2 DEF From
    <3>4. Holds(swnd', sbuf')
      BY <1>1, <2>2, <3>3, StoredHolds
    <3>5. swnd'.buf_back = swnd.buf_back /\ (swnd'.wait = swnd.wait \/ swnd'.wait = <<>>)
      BY <1>2, <2>2, <3>1, <3>3
    <3> QED
      BY <2>3, <3>4, <3>5 DEF Alone
  <2>5. CASE k # 0
    <3>1. PICK x \in Seq(Nat) : swnd.wait = <<x>> /\ From(x, swnd.buf_back)
      BY <1>2, <2>3, <2>5 DEF Alone
    <3>2. k = 1 /\ Len(swnd.wait) = 1
      BY <2>5, <3>1
    <3>3. pre = <<x>> /\ rest = <<>>
      <4>1. pre = swnd.wait
        BY <1>2, <3>2
      <4>2. Len(rest) = Len(swnd.wait) - k /\ rest \in Seq(Seq(Nat))
        BY <1>2, RestIs
      <4> HIDE DEF rest
      <4>3. rest = <<>>
        BY <3>2, <4>2
      <4> QED
        BY <3>1, <4>1, <4>3

    <3>4. bytes = x
      <4>1. <<>> \in Seq(Seq(Nat)) /\ pre = Append(<<>>, x)
        BY <3>3
      <4>2. bytes = FlattenSeq(<<>>) \o x
        BY <4>1, FlattenAppend
      <4>3. <<>> \o x = x
        OBVIOUS
      <4> QED
        BY <4>2, <4>3, FlattenNone
    <3> HIDE DEF bytes, rest
    <3>5. Holds(swnd', sbuf')
      BY <1>1, <2>2, <3>1, <3>4, StoredHolds
    <3>6. swnd'.wait = <<>>
      BY <2>2, <3>3
    <3> QED
      BY <3>5, <3>6 DEF Alone
  <2> QED
    BY <2>4, <2>5
<1> QED
  BY <1>3, <1>4, <1>5 DEF Effect

\* A packet in flight carries what the round queue holds.
LEMMA InFlightFrom ==
    ASSUME NEW s \in SendWindow, Ordered(s), NEW b \in Buffer, Holds(s, b),
           NEW p, InFlight(p, s, b)
    PROVE  From(p.payload, p.seq)
<1>1. PICK l \in Nat, h \in Nat :
         /\ s.seq_front <= l /\ l <= h /\ h <= s.seq_back
         /\ p = PacketFromWnd(b, l, h)
  BY DEF InFlight
<1>2. s.seq_front \in Nat /\ s.seq_back \in Nat /\ s.buf_back \in Nat
  BY FieldsAre
<1>3. s.buf_back - s.seq_front < BufferSize /\ h <= s.buf_back
  BY <1>1, <1>2 DEF Ordered
<1> DEFINE f == s.seq_front
           e == s.buf_back
<1>4. /\ f \in Nat /\ e \in Nat /\ e - f < BufferSize /\ f <= l /\ l <= h /\ h <= e
      /\ Keeps(b, f, e)
  BY <1>1, <1>2, <1>3 DEF Holds
<1> HIDE DEF f, e
<1>5. From(FromWnd(b, l, h), l)
  BY <1>4, FromWndTrue
<1> QED
  BY <1>1, <1>5 DEF PacketFromWnd


LEMMA ContentStep ==
    ASSUME SendInv, SendInv', Effect, Asking, Content, MaxWrites <= 1
    PROVE  Content'
<1> SUFFICES ASSUME ~ wrapped'
             PROVE  /\ Holds(swnd', sbuf')
                    /\ sock' = "Established" => Alone(swnd')
                    /\ \A i \in 1..Len(data') : From(data'[i].payload, data'[i].seq)
  BY DEF Content
<1>1. Holds(swnd', sbuf') /\ (sock' = "Established" => Alone(swnd'))
  BY HoldsStep
<1>2. /\ ~ wrapped
      /\ Adds(data, data', swnd', sbuf')
      /\ swnd' \in SendWindow /\ sbuf' \in Buffer /\ Ordered(swnd')
  BY DEF Effect, Onward, SendInv, SendTypeOK, Reach, Steady
<1>3. ASSUME NEW i \in 1..Len(data')
      PROVE  From(data'[i].payload, data'[i].seq)
  <2>1. CASE InFlight(data'[i], swnd', sbuf')
    BY <1>1, <1>2, <2>1, InFlightFrom
  <2>2. CASE \E j \in 1..Len(data) : data'[i] = data[j]
    BY <1>2, <2>2 DEF Content
  <2> QED
    BY <1>2, <2>1, <2>2 DEF Adds
<1> QED
  BY <1>1, <1>3

-----------------------------------------------------------------------------
(* When FIN is announced.                                                  *)

\* Every request fits in the round queue.
WritesFit == \A n \in WriteSizes : n < BufferSize

\* FIN is announced when everything the application asked to send is
\* acknowledged.
Drained ==
    ~ wrapped /\ sock = "Fin_Wait1"
    => swnd.seq_front = swnd.buf_back /\ swnd.wait = <<>> /\ asked = swnd.buf_back

LEMMA DrainedStep ==
    ASSUME SendInv, SendInv', Effect, Asking, Drained, WritesFit
    PROVE  Drained'
<1> SUFFICES ASSUME ~ wrapped', sock' = "Fin_Wait1"
             PROVE  /\ swnd'.seq_front = swnd'.buf_back /\ swnd'.wait = <<>>
                    /\ asked' = swnd'.buf_back
  BY DEF Drained
<1>1. /\ swnd.buf_back \in Nat /\ swnd.seq_front \in Nat /\ swnd'.seq_front \in Nat
      /\ swnd'.seq_back \in Nat /\ swnd'.buf_back \in Nat
      /\ swnd.wait \in Seq(Seq(Nat)) /\ asked \in Nat
      /\ swnd'.seq_front >= swnd.seq_front
      /\ swnd'.seq_front <= swnd'.buf_back
      /\ sock \in {"Established", "Fin_Wait1"} /\ ~ wrapped
  <2>1. ~ wrapped /\ swnd'.seq_front >= swnd.seq_front
    BY DEF Effect, Onward
  <2>2. Ordered(swnd') /\ swnd' \in SendWindow /\ SendTypeOK
    BY DEF SendInv, SendTypeOK, Reach, Steady
  <2>3. swnd'.seq_front \in Nat /\ swnd'.seq_back \in Nat /\ swnd'.buf_back \in Nat
    BY <2>2, FieldsAre
  <2>4. swnd'.seq_front <= swnd'.buf_back
    BY <2>2, <2>3 DEF Ordered
  <2> QED
    BY <2>1, <2>2, <2>3, <2>4, TypesAre DEF SendTypeOK
<1>2. CASE sock = "Fin_Wait1"
  <2>1. StoresNone
    BY <1>2 DEF Effect, Takes
  <2>2. swnd.seq_front = swnd.buf_back /\ swnd.wait = <<>> /\ asked = swnd.buf_back
    BY <1>1, <1>2 DEF Drained
  <2> QED
    BY <1>1, <2>1, <2>2 DEF StoresNone
<1>3. CASE sock = "Established"
  <2>1. asked = swnd.buf_back + Len(FlattenSeq(swnd.wait))
    BY <1>3 DEF Asking
  <2>2. CASE StoresNone
    <3>1. /\ swnd'.seq_front = swnd'.buf_back /\ swnd'.buf_back = swnd.buf_back
          /\ swnd'.wait = swnd.wait /\ asked' = asked
      BY <1>3, <2>2 DEF StoresNone
    <3>2. swnd'.wait = <<>>
      <4>1. SUFFICES ASSUME swnd'.wait # <<>>
                     PROVE  FALSE
        OBVIOUS
      <4>2. Len(Head(swnd'.wait)) > BufferSize - 1
        <5>1. Len(Head(swnd'.wait)) > MaxBuffer(swnd')
          BY <4>1 DEF SendInv, Waits
        <5>2. MaxBuffer(swnd') = BufferSize - 1
          BY <1>1, <3>1, BufferAssumption DEF MaxBuffer
        <5> QED
          BY <5>1, <5>2
      <4>3. Head(swnd'.wait) = swnd.wait[1] /\ 1 \in 1..Len(swnd.wait)
        BY <1>1, <3>1, <4>1
      <4>4. Len(swnd.wait[1]) \in WriteSizes
        BY <4>3 DEF Asking
      <4>5. Len(swnd.wait[1]) \in Nat /\ Len(swnd.wait[1]) < BufferSize
        BY <4>4, WritesAssumption DEF WritesFit
      <4> QED
        BY <4>2, <4>3, <4>5, BufferAssumption
    <3>3. Len(FlattenSeq(swnd.wait)) = 0
      BY <3>1, <3>2, FlattenNone
    <3> QED
      BY <1>1, <2>1, <3>1, <3>2, <3>3
  <2>3. CASE \E n \in WriteSizes : Takes(n) /\ Moves(swnd)
    BY <1>3, <2>3 DEF Takes
  <2>4. CASE \E k \in 0..Len(swnd.wait) : Answers(k)
    <3>1. PICK k \in 0..Len(swnd.wait) : Answers(k)
      BY <2>4
    <3> DEFINE bytes == FlattenSeq(SubSeq(swnd.wait, 1, k))
               rest == SubSeq(swnd.wait, k + 1, Len(swnd.wait))
    <3>2. /\ swnd'.buf_back = swnd.buf_back + Len(bytes) /\ asked' = asked
          /\ swnd'.wait = <<>> /\ swnd'.seq_front = swnd'.buf_back
          /\ rest # <<>> => Len(Head(rest)) >= BufferSize
      BY <1>3, <3>1 DEF Answers
    <3>3. /\ rest \in Seq(Seq(Nat))
          /\ \A i \in 1..Len(rest) : k + i \in 1..Len(swnd.wait) /\ rest[i] = swnd.wait[k + i]
      BY <1>1, RestIs
    <3>4. Len(FlattenSeq(swnd.wait)) = Len(bytes) + Len(FlattenSeq(rest))
      BY <1>1, FlattenSplit
    <3>5. Len(bytes) \in Nat
      <4>1. \A i \in 1..k : swnd.wait[i] \in Seq(Nat)
        BY <1>1
      <4>2. SubSeq(swnd.wait, 1, k) \in Seq(Seq(Nat))
        BY <1>1, <4>1
      <4>3. bytes \in Seq(Nat)
        BY <4>2, FlattenIs
      <4> HIDE DEF bytes
      <4> QED
        BY <4>3
    <3> HIDE DEF bytes, rest
    <3>6. rest = <<>>
      <4>1. SUFFICES ASSUME rest # <<>>
                     PROVE  FALSE
        OBVIOUS
      <4>2. Head(rest) = rest[1] /\ 1 \in 1..Len(rest)
        BY <3>3, <4>1
      <4>3. rest[1] = swnd.wait[k + 1] /\ k + 1 \in 1..Len(swnd.wait)
        BY <3>3, <4>2
      <4>4. Len(rest[1]) \in WriteSizes
        BY <4>3 DEF Asking
      <4>5. Len(rest[1]) \in Nat /\ Len(rest[1]) < BufferSize
        BY <4>4, WritesAssumption DEF WritesFit
      <4> QED
        BY <3>2, <4>1, <4>2, <4>5, BufferAssumption
    <3>7. Len(FlattenSeq(rest)) = 0
      BY <3>6, FlattenNone
    <3> QED
      BY <1>1, <2>1, <3>2, <3>4, <3>5, <3>7
  <2> QED
    BY <2>2, <2>3, <2>4 DEF Effect
<1> QED
  BY <1>1, <1>2, <1>3

LEMMA AlwaysInv == SendSpec => []SendInv
<1>1. SendInv /\ [SendNext]_sendVars => SendInv'
  BY NextInv
<1> QED
  BY <1>1, InitInv, PTL DEF SendSpec

LEMMA ContentInit == SendInit => Asking /\ Content /\ DataSent /\ Drained
<1> SUFFICES ASSUME SendInit
             PROVE  Asking /\ Content /\ DataSent /\ Drained
  OBVIOUS
<1>1. /\ swnd.seq_front = 0 /\ swnd.buf_back = 0 /\ swnd.wait = <<>>
      /\ data = <<>> /\ asked = 0
  BY DEF SendInit, InitSend
<1>2. Len(FlattenSeq(swnd.wait)) = 0 /\ Len(data) = 0 /\ Len(swnd.wait) = 0
  BY <1>1, FlattenNone
<1>3. Holds(swnd, sbuf) /\ Alone(swnd)
  BY <1>1 DEF Holds, Keeps, Alone
<1>4. Asking
  BY <1>1, <1>2 DEF Asking
<1> QED
  BY <1>1, <1>2, <1>3, <1>4 DEF Content, DataSent, AllEnd, Drained, SendInit

LEMMA AlwaysContent ==
    ASSUME MaxWrites <= 1
    PROVE  SendSpec => []Content
<1>1. SendInv /\ SendInv' /\ Asking /\ Content /\ [SendNext]_sendVars
      => Asking' /\ Content'
  BY NextInv, AskingStep, ContentStep
<1> QED
  BY <1>1, ContentInit, AlwaysInv, PTL DEF SendSpec

-----------------------------------------------------------------------------
(* Theorems.                                                               *)

\* The window keeps its shape, wrapped or not: every position is a natural
\* number, cwnd and the peer's window keep within their width, whatever
\* acknowledgements and timeouts do (tcp_window.hh:16-28).
THEOREM SendTyped == SendSpec => []SendTypeOK
<1>1. SendInv => SendTypeOK
  BY DEF SendInv
<1> QED
  BY <1>1, AlwaysInv, PTL

\* A request never waits while there is room for it: try_resolve_send, called
\* for acknowledgements only, leaves no Send behind (tcp_backend.cc:107-118).
THEOREM NoSendForgotten == SendSpec => []WaitsForRoom
<1>1. SendInv => WaitsForRoom
  BY DEF SendInv, Waits, WaitsForRoom
<1> QED
  BY <1>1, AlwaysInv, PTL

\* Resends move seq_back back and late acknowledgements move seq_front past it,
\* yet the three positions stay in order and what is not acknowledged stays
\* within the round queue, for queues of every size, until cwnd wraps.
THEOREM QueueKept == SendSpec => []QueueHolds
<1>1. SendInv => QueueHolds
  BY DEF SendInv, Reach, Steady, Ordered, QueueHolds
<1> QED
  BY <1>1, AlwaysInv, PTL

\* The segments in flight cover what counts as sent, however it was cut, resent
\* and forgotten, until cwnd wraps.
THEOREM SegmentsKept == SendSpec => []SegmentsTile
<1>1. SendInv => SegmentsTile
  BY DEF SendInv, InOrder, Cut, Reach, Steady, Tiles, SegmentsTile
<1> QED
  BY <1>1, AlwaysInv, PTL

\* The connection never waits without a timer for an answer it needs, until
\* cwnd wraps.
THEOREM TimerKept == SendSpec => []NeverIdle
<1>1. SendInv => NeverIdle
  BY DEF SendInv, Armed, NeverIdle
<1> QED
  BY <1>1, AlwaysInv, PTL

\* Every packet, sent or sent again however the window was cut, forgotten and
\* filled since, carries the bytes of its place in the stream, for round queues
\* of every size: nothing is stored over a byte that may have to be resent.  The
\* application makes no request while another waits (tcp_backend.cc:347), and
\* cwnd has not wrapped.
THEOREM PacketsCarryStream ==
    ASSUME MaxWrites <= 1
    PROVE  SendSpec => []PayloadIsStream
<1>1. Content => PayloadIsStream
  BY DEF Content, From, PayloadIsStream
<1> QED
  BY <1>1, AlwaysContent, PTL

\* No acknowledgement, old or new, and no timeout gives up a byte that was
\* acknowledged or that was buffered.
THEOREM QueueAdvances == SendSpec => Advances
<1>1. SendInv /\ [SendNext]_sendVars
      => [/\ swnd'.seq_front >= swnd.seq_front
          /\ swnd'.buf_back >= swnd.buf_back]_sendVars
  BY NextInv DEF Effect, Onward

<1> QED
  BY <1>1, AlwaysInv, PTL DEF SendSpec, Advances
=============================================================================
