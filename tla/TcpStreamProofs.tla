-------------------------- MODULE TcpStreamProofs ---------------------------
(***************************************************************************)
(* What the receiving half of a connection guarantees on its own, and what *)
(* one direction of a connection does with both halves, for every size of  *)
(* its buffers, segments and windows and whatever packets the network      *)
(* loses: the guarantees of the halves hold with the other half and the    *)
(* network in place of their environments, and what each knows of the      *)
(* other is true.                                                          *)
(*                                                                         *)
(* RecvInv is inductive for the receiving half: it adds to the properties  *)
(* of TcpRecv that no byte was taken beyond the end of what was marked,    *)
(* which is what forward() relies on when it stops.                        *)
(***************************************************************************)
EXTENDS TcpStream, TcpSendProofs

-----------------------------------------------------------------------------
(* The ring of flags.                                                      *)

\* The loops of mark_disorder and check_disorder visit the cells of the
\* positions they are given, as long as those are less than a turn.
LEMMA AreaCells ==
    ASSUME NEW l \in Nat, NEW h \in Nat, l <= h, h - l < RecvMaxAhead
    PROVE  Area(l, h) = {p % RecvMaxAhead : p \in l..(h - 1)}
<1> DEFINE M == RecvMaxAhead
           a == l % M
           b == h % M
<1>1. M \in Nat /\ M > 0 /\ h - l < M
  BY AheadAssumption
<1>2. a \in 0..(M - 1) /\ b \in 0..(M - 1)
  BY <1>1
<1>3. \A d \in 0..(M - 1) : (l + d) % M = IF a + d < M THEN a + d ELSE a + d - M
  BY <1>1, CellFrom
<1>4. b = IF a + (h - l) < M THEN a + (h - l) ELSE a + (h - l) - M
  <2>1. h - l \in 0..(M - 1) /\ l + (h - l) = h
    BY <1>1
  <2> QED
    BY <2>1, <1>3
<1>5. Area(l, h) = IF a <= b THEN a..(b - 1) ELSE (a..(M - 1)) \cup (0..(b - 1))
  BY DEF Area
<1> HIDE DEF M, a, b
<1>6. ASSUME NEW c \in Area(l, h)
      PROVE  \E p \in l..(h - 1) : c = p % M
  <2>1. CASE c >= a
    <3>1. c - a \in 0..(M - 1) /\ l + (c - a) \in l..(h - 1) /\ a + (c - a) < M
      BY <1>1, <1>2, <1>4, <1>5, <1>6, <2>1
    <3>2. (l + (c - a)) % M = c
      <4>1. (l + (c - a)) % M = a + (c - a)
        BY <3>1, <1>3
      <4>2. c \in Int /\ a \in Int
        BY <1>2, <1>5, <1>6
      <4> QED
        BY <4>1, <4>2
    <3> QED
      BY <3>1, <3>2
  <2>2. CASE c < a
    <3>1. /\ c + M - a \in 0..(M - 1)
          /\ l + (c + M - a) \in l..(h - 1)
          /\ ~(a + (c + M - a) < M)
      BY <1>1, <1>2, <1>4, <1>5, <1>6, <2>2
    <3>2. (l + (c + M - a)) % M = a + (c + M - a) - M
      BY <3>1, <1>3
    <3>3. a + (c + M - a) - M = c
      BY <1>1, <1>2, <1>5, <1>6, <2>2
    <3> QED
      BY <3>1, <3>2, <3>3
  <2> QED
    BY <1>1, <1>2, <1>5, <2>1, <2>2
<1>7. ASSUME NEW p \in l..(h - 1)
      PROVE  p % M \in Area(l, h)
  <2>1. p - l \in 0..(M - 1) /\ l + (p - l) = p
    BY <1>1
  <2>2. p % M = IF a + (p - l) < M THEN a + (p - l) ELSE a + (p - l) - M
    BY <2>1, <1>3
  <2>3. CASE a + (h - l) < M
    <3>1. a <= b /\ a + (p - l) < M /\ p - l < h - l
      BY <2>1, <2>3, <1>1, <1>2, <1>4
    <3> QED
      BY <2>1, <2>2, <2>3, <3>1, <1>1, <1>2, <1>4, <1>5
  <2>4. CASE ~(a + (h - l) < M)
    <3>1. a > b /\ p - l < h - l
      BY <2>1, <2>4, <1>1, <1>2, <1>4
    <3>2. CASE a + (p - l) < M
      BY <2>1, <2>2, <3>1, <3>2, <1>1, <1>2, <1>5
    <3>3. CASE ~(a + (p - l) < M)
      BY <2>1, <2>2, <2>4, <3>1, <3>3, <1>1, <1>2, <1>4, <1>5
    <3> QED
      BY <3>2, <3>3
  <2> QED
    BY <2>3, <2>4
<1> QED
  BY <1>6, <1>7 DEF M

-----------------------------------------------------------------------------
(* The flags as a set: D holds the cells of the bytes of g from sb on, all *)
(* of them before bb.                                                      *)

CellsOf(g, from, M) == {p % M : p \in {q \in g : q >= from}}

\* Within one turn of the ring a flag tells exactly whether its byte is in g.
LEMMA FlagOfByte ==
    ASSUME NEW M \in Nat, M > 0, NEW sb \in Nat, NEW bb \in Nat, bb - sb < M,
           NEW g \in SUBSET Nat, \A q \in g : q < bb,
           NEW p \in Nat, sb <= p, p <= bb
    PROVE  p % M \in CellsOf(g, sb, M) <=> p \in g
<1>1. ASSUME p % M \in CellsOf(g, sb, M)
      PROVE  p \in g
  <2>1. PICK q \in g : q >= sb /\ q % M = p % M
    BY <1>1 DEF CellsOf
  <2>2. q \in Nat /\ q < bb
    OBVIOUS
  <2>3. CASE p <= q
    <3>1. q - p < M
      BY <2>2, <2>3
    <3> QED
      BY <2>1, <2>2, <2>3, <3>1, SameCell
  <2>4. CASE q <= p
    <3>1. p - q < M
      BY <2>1, <2>2, <2>4
    <3> QED
      BY <2>1, <2>2, <2>4, <3>1, SameCell
  <2> QED
    BY <2>2, <2>3, <2>4
<1>2. ASSUME p \in g
      PROVE  p % M \in CellsOf(g, sb, M)
  BY <1>2 DEF CellsOf
<1> QED
  BY <1>1, <1>2

\* The flags that forward() leaves behind are those of the bytes it did not
\* pass, and it stops at a byte that is not in g.
LEMMA ForwardCells ==
    ASSUME NEW M \in Nat, M > 0, NEW sb \in Nat, NEW bb \in Nat, bb - sb < M,
           NEW g \in SUBSET Nat, \A q \in g : q < bb,
           NEW stop \in Nat, sb <= stop, stop <= bb,
           \A p \in sb..(stop - 1) : p % M \in CellsOf(g, sb, M),
           stop < bb => stop % M \notin CellsOf(g, sb, M)
    PROVE  /\ \A p \in sb..(stop - 1) : p \in g
           /\ stop \notin g
           /\ \A c : c \in CellsOf(g, stop, M) <=>
                     /\ c \in CellsOf(g, sb, M)
                     /\ \A p \in sb..(stop - 1) : c # p % M
<1>1. ASSUME NEW p \in sb..(stop - 1)
      PROVE  p \in g
  <2>1. p \in Nat /\ sb <= p /\ p <= bb
    OBVIOUS
  <2> QED
    BY <2>1, FlagOfByte
<1>2. stop \notin g
  <2>1. CASE stop < bb
    BY <2>1, FlagOfByte
  <2>2. CASE stop = bb
    BY <2>2
  <2> QED
    BY <2>1, <2>2
<1>3. ASSUME NEW c \in CellsOf(g, sb, M), \A p \in sb..(stop - 1) : c # p % M
      PROVE  c \in CellsOf(g, stop, M)
  <2>1. PICK p \in g : p >= sb /\ c = p % M
    BY DEF CellsOf
  <2>2. p \in Nat /\ p \notin sb..(stop - 1)
    BY <1>3, <2>1
  <2>3. p >= stop
    BY <2>1, <2>2
  <2> QED
    BY <2>1, <2>3 DEF CellsOf
<1>4. ASSUME NEW c \in CellsOf(g, stop, M)
      PROVE  c \in CellsOf(g, sb, M) /\ \A p \in sb..(stop - 1) : c # p % M
  <2>1. PICK p \in g : p >= stop /\ c = p % M
    BY DEF CellsOf
  <2>2. p \in Nat /\ p >= sb /\ p < bb
    BY <2>1
  <2> DEFINE cell == p % M
  <2>3. ASSUME NEW q \in sb..(stop - 1), q % M = cell
        PROVE  FALSE
    <3> HIDE DEF cell
    <3>1. q \in Nat /\ q <= p /\ q # p /\ p - q < M
      BY <2>1, <2>2
    <3>2. q % M = p % M
      BY <2>3 DEF cell
    <3>3. p \in Nat /\ (p - q < M /\ q <= p /\ q % M = p % M => q = p)
      BY <2>2, <3>1, SameCell, Zenon
    <3> QED
      BY <3>1, <3>2, <3>3
  <2> QED
    BY <2>1, <2>2, <2>3 DEF CellsOf
<1> QED
  BY <1>1, <1>2, <1>3, <1>4

-----------------------------------------------------------------------------
(* The window.                                                             *)

Rings(r) ==
    /\ r.seq_front <= r.seq_back
    /\ r.seq_back <= r.buf_back
    /\ r.buf_back - r.seq_front < BufferSize
    /\ r.buf_back - r.seq_back < RecvMaxAhead

\* r acknowledges exactly the bytes of g, and its flags are those of the rest.
Exact(r, g) ==
    /\ \A q \in g : q < r.buf_back
    /\ \A p \in 0..(r.seq_back - 1) : p \in g
    /\ r.seq_back \notin g
    /\ r.disorder = CellsOf(g, r.seq_back, RecvMaxAhead)

LEMMA MarkFields ==
    ASSUME NEW r \in RecvWindow, NEW l \in Nat, NEW h \in Nat
    PROVE  LET m == MarkDisorder(r, l, h) IN
           /\ m.seq_front = r.seq_front /\ m.seq_back = r.seq_back
           /\ m.buf_back = Greatest(r.buf_back, h)
           /\ m.disorder = r.disorder \cup Area(l, h) /\ m.wait = r.wait
  BY DEF RecvWindow, MarkDisorder

LEMMA MarkType ==
    ASSUME NEW r \in RecvWindow, NEW l \in Nat, NEW h \in Nat, Area(l, h) \in SUBSET Cells
    PROVE  MarkDisorder(r, l, h) \in RecvWindow
  BY DEF RecvWindow, MarkDisorder, Greatest

LEMMA ForwardFields ==
    ASSUME NEW r \in RecvWindow, NEW stop \in Nat
    PROVE  LET f == Forward(r, stop) IN
           /\ f \in RecvWindow
           /\ f.seq_front = r.seq_front /\ f.seq_back = stop
           /\ f.buf_back = r.buf_back /\ f.wait = r.wait
           /\ f.disorder = r.disorder \ {p % RecvMaxAhead : p \in r.seq_back..(stop - 1)}
<1>1. Forward(r, stop) \in RecvWindow
  BY DEF RecvWindow, Forward
<1>2. LET f == Forward(r, stop) IN
      /\ f.seq_front = r.seq_front /\ f.seq_back = stop
      /\ f.buf_back = r.buf_back /\ f.wait = r.wait
      /\ f.disorder = r.disorder \ {p % RecvMaxAhead : p \in r.seq_back..(stop - 1)}
  BY DEF RecvWindow, Forward
<1> QED
  BY <1>1, <1>2

\* What it means that push_tcp does not refuse a segment.
LEMMA NotRefused ==
    ASSUME NEW r \in RecvWindow, NEW seq \in Nat, NEW tail \in Nat,
           ~ TailExceeds(r, tail), ~ DupSequence(r, seq, tail)
    PROVE  /\ r.seq_back <= seq
           /\ tail < r.seq_front + BufferSize
           /\ tail < r.seq_back + RecvMaxAhead
<1>1. PICK sf \in Nat, sb \in Nat : sf = r.seq_front /\ sb = r.seq_back
  BY DEF RecvWindow
<1>2. sb <= seq
  BY <1>1 DEF DupSequence
<1>3. ~(tail > Least(BufferSize - (sb - sf) - 1 + sb, RecvMaxAhead + sb - 1))
  BY <1>1 DEF TailExceeds, MaxTail, RecvMaxGrow
<1>4. tail < sf + BufferSize /\ tail < sb + RecvMaxAhead
  BY <1>3, BufferAssumption, AheadAssumption DEF Least
<1> QED
  BY <1>1, <1>2, <1>4

\* Marking the positions seq..tail-1 and moving forward to stop.
MarkedUpTo(r, g, seq, tail, m, h, stop) ==
    /\ Rings(r) /\ Exact(r, g)
    /\ seq <= tail /\ r.seq_back <= seq
    /\ tail < r.seq_front + BufferSize /\ tail < r.seq_back + RecvMaxAhead
    /\ m = MarkDisorder(r, seq, tail) /\ h = g \cup (seq..(tail - 1))
    /\ m.seq_back <= stop /\ stop <= m.buf_back /\ StopsAt(m, stop)

LEMMA MarkAndForward ==
    ASSUME NEW r \in RecvWindow, NEW g \in SUBSET Nat,
           NEW seq \in Nat, NEW tail \in Nat, NEW m, NEW h, NEW stop \in Nat
    PROVE  MarkedUpTo(r, g, seq, tail, m, h, stop)
           => /\ Forward(m, stop) \in RecvWindow
              /\ Forward(m, stop).seq_front = r.seq_front
              /\ Forward(m, stop).seq_back = stop
              /\ Forward(m, stop).wait = r.wait
              /\ r.seq_back <= stop
              /\ r.seq_front <= stop
              /\ Rings(Forward(m, stop))
              /\ Exact(Forward(m, stop), h)
<1>0. SUFFICES
        ASSUME Rings(r), Exact(r, g),
               seq <= tail, r.seq_back <= seq,
               tail < r.seq_front + BufferSize, tail < r.seq_back + RecvMaxAhead,
               m = MarkDisorder(r, seq, tail), h = g \cup (seq..(tail - 1)),
               m.seq_back <= stop, stop <= m.buf_back, StopsAt(m, stop)
        PROVE  /\ Forward(m, stop) \in RecvWindow
               /\ Forward(m, stop).seq_front = r.seq_front
               /\ Forward(m, stop).seq_back = stop
               /\ Forward(m, stop).wait = r.wait
               /\ r.seq_back <= stop
               /\ r.seq_front <= stop
               /\ Rings(Forward(m, stop))
               /\ Exact(Forward(m, stop), h)
  BY DEF MarkedUpTo
<1>1. PICK sf \in Nat, sb \in Nat, rb \in Nat, bb \in Nat, M \in Nat :
         /\ sf = r.seq_front /\ sb = r.seq_back /\ rb = r.buf_back
         /\ bb = Greatest(rb, tail) /\ M = RecvMaxAhead
  BY AheadAssumption DEF RecvWindow, Greatest
<1>2. M > 0
  BY <1>1, AheadAssumption
<1>3. /\ sf <= sb /\ sb <= rb /\ rb < sf + BufferSize /\ rb < sb + M
      /\ sb <= seq /\ seq <= tail /\ tail < sf + BufferSize /\ tail < sb + M
  BY <1>0, <1>1, BufferAssumption DEF Rings
<1>4. (bb = rb \/ bb = tail) /\ rb <= bb /\ tail <= bb
  BY <1>1 DEF Greatest
<1>5. Area(seq, tail) = {p % RecvMaxAhead : p \in seq..(tail - 1)}
  <2>1. tail - seq < RecvMaxAhead
    BY <1>1, <1>3
  <2> QED
    BY <2>1, <1>3, AreaCells
<1>6. h \in SUBSET Nat /\ \A q \in h : q < bb
  <2>1. ASSUME NEW q \in g
        PROVE  q \in Nat /\ q < bb
    <3>1. q \in Nat /\ q < rb
      BY <1>0, <1>1 DEF Exact
    <3> QED
      BY <3>1, <1>4
  <2>2. ASSUME NEW q \in seq..(tail - 1)
        PROVE  q \in Nat /\ q < bb
    BY <1>4
  <2>3. h = g \cup (seq..(tail - 1))
    BY <1>0
  <2> QED
    BY <2>1, <2>2, <2>3
<1>7. r.disorder \cup Area(seq, tail) = CellsOf(h, sb, M)
  <2>1. r.disorder = CellsOf(g, sb, M)
    BY <1>0, <1>1 DEF Exact
  <2>2. \A c : c \in Area(seq, tail) <=> \E p \in seq..(tail - 1) : c = p % M
    BY <1>1, <1>5
  <2>3. \A p \in seq..(tail - 1) : p \in Nat /\ p >= sb
    BY <1>3
  <2>4. CellsOf(g, sb, M) \cup Area(seq, tail) = CellsOf(h, sb, M)
    <3>1. h = g \cup (seq..(tail - 1))
      BY <1>0
    <3> QED
      BY <3>1, <2>2, <2>3 DEF CellsOf
  <2> QED
    BY <2>1, <2>4
<1>8. /\ m.seq_front = sf /\ m.seq_back = sb /\ m.buf_back = bb
      /\ m.disorder = CellsOf(h, sb, M) /\ m.wait = r.wait
  <2>1. /\ m.seq_front = r.seq_front /\ m.seq_back = r.seq_back
        /\ m.buf_back = Greatest(r.buf_back, tail)
        /\ m.disorder = r.disorder \cup Area(seq, tail) /\ m.wait = r.wait
    BY <1>0, MarkFields
  <2> QED
    BY <2>1, <1>1, <1>7
<1>9. CellsOf(h, sb, M) \subseteq Cells
  <2>1. \A p \in Nat : p % RecvMaxAhead \in 0..(RecvMaxAhead - 1)
    BY AheadAssumption
  <2> QED
    BY <2>1, <1>1, <1>6 DEF CellsOf, Cells
<1>10. m \in RecvWindow
  <2>1. Area(seq, tail) \in SUBSET Cells
    BY <1>7, <1>9
  <2> QED
    BY <2>1, <1>0, MarkType
<1>11. sb <= stop /\ stop <= bb /\ bb - sf < BufferSize /\ bb - sb < M
  <2>1. sb <= stop /\ stop <= bb
    BY <1>0, <1>8
  <2> QED
    BY <2>1, <1>3, <1>4, BufferAssumption
<1>12. /\ \A p \in sb..(stop - 1) : p \in h
       /\ stop \notin h
       /\ \A c : c \in CellsOf(h, stop, M) <=>
                 /\ c \in CellsOf(h, sb, M)
                 /\ \A p \in sb..(stop - 1) : c # p % M
  <2>1. /\ \A p \in sb..(stop - 1) : p % M \in CellsOf(h, sb, M)
        /\ stop < bb => stop % M \notin CellsOf(h, sb, M)
    <3>1. StopsAt(m, stop)
      BY <1>0
    <3> QED
      BY <3>1, <1>1, <1>8 DEF StopsAt
  <2> QED
    BY <2>1, <1>2, <1>6, <1>11, ForwardCells
<1>13. PICK f : f = Forward(m, stop)
  OBVIOUS
<1>14. /\ f \in RecvWindow
       /\ f.seq_front = sf /\ f.seq_back = stop /\ f.buf_back = bb /\ f.wait = r.wait
       /\ f.disorder = CellsOf(h, sb, M) \ {p % M : p \in sb..(stop - 1)}
  <2>1. /\ f \in RecvWindow
        /\ f.seq_front = m.seq_front /\ f.seq_back = stop
        /\ f.buf_back = m.buf_back /\ f.wait = m.wait
        /\ f.disorder = m.disorder \ {p % RecvMaxAhead : p \in m.seq_back..(stop - 1)}
    BY <1>10, <1>13, ForwardFields
  <2> QED
    BY <2>1, <1>1, <1>8
<1>15. f.disorder = CellsOf(h, stop, M)
  <2>1. \A c : c \in f.disorder <=> /\ c \in CellsOf(h, sb, M)
                                   /\ \A p \in sb..(stop - 1) : c # p % M
    BY <1>14
  <2>2. \A c : c \in f.disorder <=> c \in CellsOf(h, stop, M)
    BY <2>1, <1>12
  <2> HIDE DEF CellsOf
  <2> QED
    BY <2>2
<1>16. Rings(f)
  <2>1. sf <= stop /\ bb - stop < M
    BY <1>3, <1>11
  <2> QED
    BY <2>1, <1>1, <1>11, <1>14 DEF Rings
<1>17. Exact(f, h)
  <2>1. ASSUME NEW p \in 0..(stop - 1)
        PROVE  p \in h
    <3>1. CASE p < sb
      <4>1. p \in 0..(sb - 1)
        BY <3>1
      <4> QED
        BY <4>1, <1>0, <1>1 DEF Exact
    <3>2. CASE p >= sb
      BY <3>2, <1>12
    <3> QED
      BY <3>1, <3>2
  <2> QED
    BY <2>1, <1>1, <1>6, <1>12, <1>14, <1>15 DEF Exact
<1>18. sf <= stop
  BY <1>3, <1>11
<1> QED
  BY <1>1, <1>11, <1>13, <1>14, <1>16, <1>17, <1>18

-----------------------------------------------------------------------------
(* Reading and acknowledging.                                              *)

AckPacket == [ack : Nat, wnd : 0..(BufferSize - 1)]

\* A copy of positions l..h-1 has h-l bytes.
LEMMA FromWndType ==
    ASSUME NEW l \in Nat, NEW h \in Nat, l <= h, rbuf \in Buffer
    PROVE  FromWnd(rbuf, l, h) \in Seq(Byte) /\ Len(FromWnd(rbuf, l, h)) = h - l
<1> DEFINE n == h - l
<1>1. n \in Nat
  OBVIOUS
<1>2. \A p \in Nat : p % BufferSize \in 0..(BufferSize - 1)
  BY BufferAssumption
<1>3. ASSUME NEW k \in 1..n
      PROVE  rbuf[(l + k - 1) % BufferSize] \in Byte
  <2>1. l + k - 1 \in Nat
    OBVIOUS
  <2> QED
    BY <2>1, <1>2 DEF Buffer
<1>4. Unwritten \in Byte
  BY DEF Byte
<1>5. FromWnd(rbuf, l, h) \in [1..n -> Byte]
  BY <1>3, <1>4 DEF FromWnd
<1> HIDE DEF n
<1> QED
  BY <1>1, <1>5 DEF n

LEMMA TakeType ==
    ASSUME NEW l \in Nat, NEW h \in Nat, l <= h, rbuf \in Buffer,
           returned \in Seq(Byte), Len(returned) = l
    PROVE  /\ returned \o FromWnd(rbuf, l, h) \in Seq(Byte)
           /\ Len(returned \o FromWnd(rbuf, l, h)) = h
<1>1. FromWnd(rbuf, l, h) \in Seq(Byte) /\ Len(FromWnd(rbuf, l, h)) = h - l
  BY FromWndType
<1> HIDE DEF FromWnd
<1> QED
  BY <1>1

\* The promises of acknowledgements a, the last of them made no later than r.
Promises(a, r) ==
    /\ \A j \in 1..Len(a), k \in 1..Len(a) :
        j <= k => /\ a[j].ack <= a[k].ack
                  /\ a[j].ack + a[j].wnd <= a[k].ack + a[k].wnd
    /\ \A k \in 1..Len(a) :
        /\ a[k].ack <= r.seq_back
        /\ a[k].ack + a[k].wnd <= r.seq_front + BufferSize - 1

LEMMA AckOfType ==
    ASSUME NEW r \in RecvWindow, Rings(r)
    PROVE  /\ AckOf(r) \in AckPacket
           /\ AckOf(r).ack = r.seq_back
           /\ AckOf(r).ack + AckOf(r).wnd = r.seq_front + BufferSize - 1
<1>1. PICK sf \in Nat, sb \in Nat, bb \in Nat :
         sf = r.seq_front /\ sb = r.seq_back /\ bb = r.buf_back
  BY DEF RecvWindow
<1>2. sf <= sb /\ sb <= bb /\ bb - sf < BufferSize
  BY <1>1 DEF Rings
<1>3. AckOf(r) = [ack |-> sb, wnd |-> BufferSize - (sb - sf) - 1]
  BY <1>1 DEF AckOf, RecvMaxGrow
<1>4. BufferSize - (sb - sf) - 1 \in 0..(BufferSize - 1)
  BY <1>2, BufferAssumption
<1>5. sb + (BufferSize - (sb - sf) - 1) = sf + BufferSize - 1
  BY BufferAssumption
<1> QED
  BY <1>1, <1>3, <1>4, <1>5 DEF AckPacket

\* Promises survive while neither end of the window moves back.
LEMMA PromisesGrow ==
    ASSUME NEW a \in Seq(AckPacket), NEW r \in RecvWindow, NEW s \in RecvWindow,
           Promises(a, r), r.seq_front <= s.seq_front, r.seq_back <= s.seq_back
    PROVE  Promises(a, s)
<1>1. PICK rf \in Nat, rb \in Nat, sf \in Nat, sb \in Nat :
         /\ rf = r.seq_front /\ rb = r.seq_back
         /\ sf = s.seq_front /\ sb = s.seq_back
  BY DEF RecvWindow
<1>2. ASSUME NEW k \in 1..Len(a)
      PROVE  a[k].ack <= sb /\ a[k].ack + a[k].wnd <= sf + BufferSize - 1
  <2>1. a[k] \in AckPacket
    OBVIOUS
  <2>2. PICK x \in Nat, w \in Nat : x = a[k].ack /\ w = a[k].wnd
    BY <2>1, BufferAssumption DEF AckPacket
  <2>3. x <= rb /\ x + w <= rf + BufferSize - 1
    BY <1>1, <2>2 DEF Promises
  <2>4. x <= sb /\ x + w <= sf + BufferSize - 1
    <3>1. rf <= sf /\ rb <= sb /\ BufferSize \in Nat
      BY <1>1, BufferAssumption
    <3> QED
      BY <2>3, <3>1
  <2> QED
    BY <2>2, <2>4
<1> QED
  BY <1>1, <1>2 DEF Promises

LEMMA PromisesAppend ==
    ASSUME NEW a \in Seq(AckPacket), NEW r \in RecvWindow, Rings(r), Promises(a, r)
    PROVE  /\ Append(a, AckOf(r)) \in Seq(AckPacket)
           /\ Promises(Append(a, AckOf(r)), r)
<1> DEFINE c == Append(a, AckOf(r))
<1>1. /\ AckOf(r) \in AckPacket /\ AckOf(r).ack = r.seq_back
      /\ AckOf(r).ack + AckOf(r).wnd = r.seq_front + BufferSize - 1
  BY AckOfType
<1>2. PICK x : x = AckOf(r)
  OBVIOUS
<1>3. c \in Seq(AckPacket) /\ Len(c) = Len(a) + 1 /\ c[Len(a) + 1] = x
      /\ \A k \in 1..Len(a) : c[k] = a[k]
  BY <1>1, <1>2
<1>4. r.seq_back \in Nat /\ r.seq_front + BufferSize - 1 \in Nat
  BY BufferAssumption DEF RecvWindow
<1>5. ASSUME NEW k \in 1..Len(c)
      PROVE  /\ c[k].ack <= r.seq_back
             /\ c[k].ack + c[k].wnd <= r.seq_front + BufferSize - 1
  <2>1. CASE k = Len(a) + 1
    BY <2>1, <1>1, <1>2, <1>3, <1>4
  <2>2. CASE k \in 1..Len(a)
    BY <2>2, <1>3 DEF Promises
  <2> HIDE DEF c
  <2> QED
    BY <2>1, <2>2, <1>3
<1>6. ASSUME NEW j \in 1..Len(c), NEW k \in 1..Len(c), j <= k
      PROVE  /\ c[j].ack <= c[k].ack
             /\ c[j].ack + c[j].wnd <= c[k].ack + c[k].wnd
  <2>1. CASE k = Len(a) + 1
    <3>1. c[k].ack = r.seq_back /\ c[k].ack + c[k].wnd = r.seq_front + BufferSize - 1
      BY <2>1, <1>1, <1>2, <1>3
    <3> HIDE DEF c
    <3> QED
      BY <3>1, <1>5
  <2>2. CASE k \in 1..Len(a)
    <3>1. j \in 1..Len(a)
      BY <1>6, <2>2
    <3> HIDE DEF c
    <3> QED
      BY <2>2, <3>1, <1>3, <1>6 DEF Promises
  <2> HIDE DEF c
  <2> QED
    BY <2>1, <2>2, <1>3
<1> HIDE DEF c
<1>7. Promises(c, r)
  BY <1>5, <1>6 DEF Promises
<1> QED
  BY <1>3, <1>7 DEF c

\* c is what is left of a when some of it is gone.
Thins(a, c) ==
    \A j \in 1..Len(c), k \in 1..Len(c) : j <= k =>
        \E x \in 1..Len(a), y \in 1..Len(a) : x <= y /\ c[j] = a[x] /\ c[k] = a[y]

LEMMA PromisesThin ==
    ASSUME NEW a, NEW c, Len(c) \in Nat, Thins(a, c), NEW r, Promises(a, r)
    PROVE  Promises(c, r)
<1>1. ASSUME NEW j \in 1..Len(c), NEW k \in 1..Len(c), j <= k
      PROVE  c[j].ack <= c[k].ack /\ c[j].ack + c[j].wnd <= c[k].ack + c[k].wnd
  <2>1. PICK x \in 1..Len(a), y \in 1..Len(a) : x <= y /\ c[j] = a[x] /\ c[k] = a[y]
    BY <1>1 DEF Thins
  <2> QED
    BY <2>1 DEF Promises
<1>2. ASSUME NEW k \in 1..Len(c)
      PROVE  c[k].ack <= r.seq_back /\ c[k].ack + c[k].wnd <= r.seq_front + BufferSize - 1
  <2>1. k <= k
    OBVIOUS
  <2>2. PICK x \in 1..Len(a) : c[k] = a[x]
    BY <2>1 DEF Thins
  <2> QED
    BY <2>2 DEF Promises
<1> QED
  BY <1>1, <1>2 DEF Promises

LEMMA PromisesTail ==
    ASSUME NEW a \in Seq(AckPacket), a # <<>>, NEW r, Promises(a, r)
    PROVE  Tail(a) \in Seq(AckPacket) /\ Promises(Tail(a), r)
<1> DEFINE c == Tail(a)
<1>1. /\ c \in Seq(AckPacket) /\ Len(c) \in Nat
      /\ \A k \in 1..Len(c) : k + 1 \in 1..Len(a) /\ c[k] = a[k + 1]
  OBVIOUS
<1>2. \A j \in 1..Len(c), k \in 1..Len(c) : j <= k => j + 1 <= k + 1
  BY <1>1
<1> HIDE DEF c
<1>3. Thins(a, c)
  BY <1>1, <1>2 DEF Thins
<1> QED
  BY <1>1, <1>3, PromisesThin DEF c

-----------------------------------------------------------------------------
(* The inductive invariant: the properties of TcpRecv, and that no byte    *)
(* was taken beyond the end of what was marked, on which forward() relies  *)
(* when it stops there.                                                    *)

RecvInv ==
    /\ rwnd \in RecvWindow /\ rbuf \in Buffer /\ returned \in Seq(Byte)
    /\ acks \in Seq(AckPacket) /\ got \in SUBSET Nat
    /\ Rings(rwnd)
    /\ Exact(rwnd, got)
    /\ Len(returned) = rwnd.seq_front
    /\ rwnd.wait # <<>> => rwnd.seq_front = rwnd.seq_back
    /\ Promises(acks, rwnd)

\* Neither end of what is acknowledged and not read moves back.
RecvOnward ==
    rwnd'.seq_front >= rwnd.seq_front /\ rwnd'.seq_back >= rwnd.seq_back

LEMMA RecvInvInit == RecvInit => RecvInv
<1> SUFFICES ASSUME RecvInit PROVE RecvInv
  OBVIOUS
<1>1. /\ rwnd.seq_front = 0 /\ rwnd.seq_back = 0 /\ rwnd.buf_back = 0
      /\ rwnd.disorder = {} /\ rwnd.wait = <<>>
  BY DEF RecvInit, InitRecv
<1>2. rwnd \in RecvWindow
  BY DEF RecvInit, InitRecv, RecvWindow
<1>3. /\ rbuf \in Buffer /\ returned = <<>> /\ acks = <<>> /\ got = {}
  BY DEF RecvInit, Buffer, Byte
<1>4. Rings(rwnd)
  BY <1>1, BufferAssumption, AheadAssumption DEF Rings
<1>5. Exact(rwnd, got)
  BY <1>1, <1>3 DEF Exact, CellsOf
<1>6. Promises(acks, rwnd)
  BY <1>3 DEF Promises
<1> QED
  BY <1>1, <1>2, <1>3, <1>4, <1>5, <1>6 DEF RecvInv

\* Answering requests up to position front keeps the window in order.
LEMMA TakeKeepsWindow ==
    ASSUME NEW r \in RecvWindow, NEW t \in RecvWindow, NEW g, Rings(r), Exact(r, g),
           r.seq_front <= t.seq_front, t.seq_front <= r.seq_back,
           t.seq_back = r.seq_back, t.buf_back = r.buf_back, t.disorder = r.disorder
    PROVE  Rings(t) /\ Exact(t, g)
<1>1. PICK sf \in Nat, sb \in Nat, bb \in Nat, front \in Nat :
         /\ sf = r.seq_front /\ sb = r.seq_back /\ bb = r.buf_back
         /\ front = t.seq_front
  BY DEF RecvWindow
<1>2. Rings(t)
  <2>1. sf <= front /\ front <= sb /\ sb <= bb /\ bb - sf < BufferSize
    BY <1>1 DEF Rings
  <2>2. bb - front < BufferSize
    BY <2>1, BufferAssumption
  <2> QED
    BY <2>1, <2>2, <1>1 DEF Rings
<1>3. Exact(t, g)
  BY DEF Exact
<1> QED
  BY <1>2, <1>3

\* What is left of a queue of which the first k were answered.
LEMMA RestOfQueue ==
    ASSUME NEW q \in Seq(Nat), NEW k \in 0..Len(q)
    PROVE  /\ SubSeq(q, k + 1, Len(q)) \in Seq(Nat)
           /\ SubSeq(q, k + 1, Len(q)) # <<>> => k < Len(q)
<1>1. /\ k + 1 \in Int /\ Len(q) \in Int
      /\ \A i \in (k + 1)..Len(q) : q[i] \in Nat
  OBVIOUS
<1>2. /\ SubSeq(q, k + 1, Len(q)) \in Seq(Nat)
      /\ Len(SubSeq(q, k + 1, Len(q)))
         = IF k + 1 <= Len(q) THEN Len(q) - (k + 1) + 1 ELSE 0
  BY <1>1, SubSeqProperties
<1> DEFINE w == SubSeq(q, k + 1, Len(q))
<1> HIDE DEF w
<1>3. w \in Seq(Nat) /\ (k >= Len(q) => Len(w) = 0)
  BY <1>2 DEF w
<1>4. w # <<>> => Len(w) # 0
  BY <1>3
<1> QED
  BY <1>3, <1>4 DEF w

\* push_tcp on a data segment, accepted or not.
LEMMA PushDataKeepsInv ==
    ASSUME RecvInv, NEW seq \in Nat, NEW len \in Nat, PushData(seq, len)
    PROVE  /\ RecvInv' /\ RecvOnward
           /\ acks' = Append(acks, AckOf(rwnd'))
           /\ \A p \in got' : p \in got \/ p < seq + len
<1>0. PICK tail \in Nat : tail = seq + len
  OBVIOUS
<1> DEFINE m == MarkDisorder(rwnd, seq, tail)
           h == got \cup (seq..(tail - 1))
<1>1. /\ rwnd \in RecvWindow /\ Rings(rwnd) /\ Exact(rwnd, got)
      /\ got \in SUBSET Nat /\ acks \in Seq(AckPacket) /\ Promises(acks, rwnd)
      /\ rbuf \in Buffer /\ returned \in Seq(Byte) /\ Len(returned) = rwnd.seq_front
      /\ rwnd.wait # <<>> => rwnd.seq_front = rwnd.seq_back
  BY DEF RecvInv
<1>2. rbuf' = rbuf /\ acks' = Append(acks, AckOf(rwnd'))
  BY DEF PushData
<1>3. /\ rwnd' \in RecvWindow /\ Rings(rwnd') /\ got' \in SUBSET Nat
      /\ Exact(rwnd', got')
      /\ rwnd.seq_front <= rwnd'.seq_front /\ rwnd.seq_back <= rwnd'.seq_back
      /\ returned' \in Seq(Byte) /\ Len(returned') = rwnd'.seq_front
      /\ rwnd'.wait # <<>> => rwnd'.seq_front = rwnd'.seq_back
      /\ got' = got \/ got' = h
  <2>1. CASE Refuse(seq, len)
    <3>1. rwnd' = rwnd /\ returned' = returned /\ got' = got
      BY <2>1 DEF Refuse
    <3>2. rwnd.seq_front <= rwnd.seq_front /\ rwnd.seq_back <= rwnd.seq_back
      BY <1>1 DEF RecvWindow
    <3> QED
      BY <3>1, <3>2, <1>1
  <2>2. CASE Accept(seq, len)
    <3>1. /\ ~ TailExceeds(rwnd, tail)
          /\ ~ DupSequence(rwnd, seq, tail)
          /\ got' = h
      BY <1>0, <2>2 DEF Accept
    <3>2. PICK stop \in m.seq_back..m.buf_back :
             /\ StopsAt(m, stop)
             /\ \E k \in 0..Len(rwnd.wait), front \in rwnd.seq_front..stop :
                  /\ ResolvesRecv(Forward(m, stop), k, front)
                  /\ Take(Forward(m, stop), k, front)
      BY <1>0, <2>2 DEF Accept
    <3> DEFINE f == Forward(m, stop)
    <3>3. /\ rwnd.seq_back <= seq
          /\ tail < rwnd.seq_front + BufferSize
          /\ tail < rwnd.seq_back + RecvMaxAhead
      BY <1>1, <3>1, NotRefused
    <3>4. stop \in Nat /\ m.seq_back <= stop /\ stop <= m.buf_back
      <4>1. m.seq_back = rwnd.seq_back /\ m.buf_back = Greatest(rwnd.buf_back, tail)
        BY <1>1, MarkFields
      <4>2. m.seq_back \in Nat /\ m.buf_back \in Nat
        BY <4>1, <1>1 DEF RecvWindow, Greatest
      <4> HIDE DEF m
      <4> QED
        BY <4>2
    <3>5. /\ f \in RecvWindow
          /\ f.seq_front = rwnd.seq_front /\ f.seq_back = stop /\ f.wait = rwnd.wait
          /\ rwnd.seq_back <= stop /\ f.seq_front <= stop /\ Rings(f) /\ Exact(f, h)
      <4>1. m = MarkDisorder(rwnd, seq, tail) /\ h = got \cup (seq..(tail - 1))
            /\ seq <= tail
        BY <1>0
      <4>2. rwnd \in RecvWindow /\ got \in SUBSET Nat /\ Rings(rwnd) /\ Exact(rwnd, got)
        BY <1>1
      <4>3. StopsAt(m, stop)
        BY <3>2
      <4> HIDE DEF m, h
      <4>4. MarkedUpTo(rwnd, got, seq, tail, m, h, stop)
        BY <4>1, <4>2, <4>3, <3>3, <3>4 DEF MarkedUpTo
      <4> HIDE DEF f
      <4>5. f = Forward(m, stop)
        BY DEF f
      <4>6. /\ f \in RecvWindow /\ f.seq_front = rwnd.seq_front
            /\ f.seq_back = stop /\ f.wait = rwnd.wait
            /\ rwnd.seq_back <= stop /\ rwnd.seq_front <= stop
            /\ Rings(f) /\ Exact(f, h)
        BY <4>2, <4>4, <4>5, <3>4, MarkAndForward
      <4> QED
        BY <4>6
    <3>6. PICK k \in 0..Len(rwnd.wait), front \in rwnd.seq_front..stop :
             ResolvesRecv(f, k, front) /\ Take(f, k, front)
      BY <3>2
    <3> DEFINE w == SubSeq(f.wait, k + 1, Len(f.wait))
    <3>7. /\ rwnd' = [f EXCEPT !.seq_front = front, !.wait = w]
          /\ returned' = returned \o FromWnd(rbuf, f.seq_front, front)
      BY <3>6 DEF Take
    <3>8. /\ front \in Nat /\ rwnd.seq_front \in Nat
          /\ rwnd.seq_front <= front /\ front <= stop
      <4>1. rwnd.seq_front \in Nat
        BY <1>1 DEF RecvWindow
      <4> QED
        BY <4>1, <3>4
    <3>9. rwnd.wait \in Seq(Nat)
      BY <1>1 DEF RecvWindow
    <3>10. w \in Seq(Nat) /\ (w # <<>> => k < Len(rwnd.wait))
      <4> HIDE DEF f
      <4>1. w = SubSeq(rwnd.wait, k + 1, Len(rwnd.wait))
        BY <3>5
      <4> HIDE DEF w, m
      <4> QED
        BY <3>9, <4>1, RestOfQueue
    <3>11. w # <<>> => front = stop
      <4> HIDE DEF m, f, w
      <4> QED
        BY <3>5, <3>6, <3>10 DEF ResolvesRecv
    <3>12. h \in SUBSET Nat
      <4>1. \A q \in seq..(tail - 1) : q \in Nat
        OBVIOUS
      <4> QED
        BY <4>1, <1>1
    <3> HIDE DEF m, f, h, w
    <3>13. /\ rwnd' \in RecvWindow /\ Rings(rwnd') /\ Exact(rwnd', h)
           /\ rwnd'.seq_front = front /\ rwnd'.seq_back = stop /\ rwnd'.wait = w
      <4>1. rwnd' \in RecvWindow
        BY <3>5, <3>7, <3>8, <3>10 DEF RecvWindow
      <4>2. /\ rwnd'.seq_front = front /\ rwnd'.seq_back = f.seq_back
            /\ rwnd'.buf_back = f.buf_back /\ rwnd'.disorder = f.disorder
            /\ rwnd'.wait = w
        BY <3>5, <3>7 DEF RecvWindow
      <4>3. Rings(rwnd') /\ Exact(rwnd', h)
        BY <3>5, <3>8, <4>1, <4>2, TakeKeepsWindow
      <4> QED
        BY <3>5, <4>1, <4>2, <4>3
    <3>14. returned' \in Seq(Byte) /\ Len(returned') = front
      BY <1>1, <3>5, <3>7, <3>8, TakeType
    <3> QED
      BY <3>1, <3>5, <3>8, <3>11, <3>12, <3>13, <3>14
  <2> QED
    BY <2>1, <2>2 DEF PushData
<1>4. Promises(acks, rwnd')
  BY <1>1, <1>3, PromisesGrow
<1>5. acks' \in Seq(AckPacket) /\ Promises(acks', rwnd')
  BY <1>1, <1>2, <1>3, <1>4, PromisesAppend
<1>6. \A p \in got' : p \in got \/ p < seq + len
  <2>1. \A p \in seq..(tail - 1) : p < seq + len
    BY <1>0
  <2> QED
    BY <1>3, <2>1
<1>7. RecvOnward
  <2>1. /\ rwnd.seq_front \in Nat /\ rwnd.seq_back \in Nat
        /\ rwnd'.seq_front \in Nat /\ rwnd'.seq_back \in Nat
    BY <1>1, <1>3 DEF RecvWindow
  <2> QED
    BY <1>3, <2>1 DEF RecvOnward
<1> HIDE DEF m, h
<1> QED
  BY <1>1, <1>2, <1>3, <1>5, <1>6, <1>7 DEF RecvInv

\* A Recv request, answered or made to wait.
LEMMA RecvKeepsInv ==
    ASSUME RecvInv, NEW n \in Nat, Recv(n)
    PROVE  /\ RecvInv' /\ RecvOnward
           /\ acks' = acks /\ got' = got /\ rwnd'.seq_back = rwnd.seq_back
<1>1. /\ rwnd \in RecvWindow /\ Rings(rwnd) /\ Exact(rwnd, got)
      /\ got \in SUBSET Nat /\ acks \in Seq(AckPacket) /\ Promises(acks, rwnd)
      /\ rbuf \in Buffer /\ returned \in Seq(Byte) /\ Len(returned) = rwnd.seq_front
      /\ rwnd.wait # <<>> => rwnd.seq_front = rwnd.seq_back
  BY DEF RecvInv
<1>2. rbuf' = rbuf /\ acks' = acks /\ got' = got
  BY DEF Recv
<1>3. PICK sf \in Nat, sb \in Nat :
         sf = rwnd.seq_front /\ sb = rwnd.seq_back /\ sf <= sb
  BY <1>1 DEF RecvWindow, Rings
<1>4. rwnd.wait \in Seq(Nat)
  BY <1>1 DEF RecvWindow
<1>5. /\ rwnd' \in RecvWindow /\ Rings(rwnd') /\ Exact(rwnd', got)
      /\ sf <= rwnd'.seq_front /\ rwnd'.seq_back = sb
      /\ returned' \in Seq(Byte) /\ Len(returned') = rwnd'.seq_front
      /\ rwnd'.wait # <<>> => rwnd'.seq_front = rwnd'.seq_back
  <2>1. CASE MaxRecv(rwnd) = 0
    <3>1. /\ rwnd' = [rwnd EXCEPT !.wait = Append(@, n)]
          /\ returned' = returned
      BY <2>1 DEF Recv
    <3>2. Append(rwnd.wait, n) \in Seq(Nat)
      BY <1>4
    <3>3. rwnd' \in RecvWindow
      BY <1>1, <3>1, <3>2 DEF RecvWindow
    <3>4. /\ rwnd'.seq_front = sf /\ rwnd'.seq_back = sb
          /\ rwnd'.buf_back = rwnd.buf_back /\ rwnd'.disorder = rwnd.disorder
      BY <1>1, <1>3, <3>1 DEF RecvWindow
    <3>5. Rings(rwnd') /\ Exact(rwnd', got)
      BY <1>1, <1>3, <3>4 DEF Rings, Exact
    <3>6. sf = sb
      BY <2>1, <1>3 DEF MaxRecv
    <3> QED
      BY <1>1, <1>3, <3>1, <3>3, <3>4, <3>5, <3>6
  <2>2. CASE MaxRecv(rwnd) # 0
    <3> DEFINE front == sf + Least(n, sb - sf)
    <3>1. /\ rwnd' = [rwnd EXCEPT !.seq_front = @ + Least(n, MaxRecv(rwnd))]
          /\ returned' = returned \o FromWnd(rbuf, rwnd.seq_front,
                                             rwnd.seq_front + Least(n, MaxRecv(rwnd)))
      BY <2>2 DEF Recv
    <3>2. MaxRecv(rwnd) = sb - sf /\ sb - sf # 0
      BY <2>2, <1>3 DEF MaxRecv
    <3>3. front \in Nat /\ sf <= front /\ front <= sb
      BY <1>3 DEF Least
    <3>4. /\ rwnd' = [rwnd EXCEPT !.seq_front = front]
          /\ returned' = returned \o FromWnd(rbuf, sf, front)
      BY <1>3, <3>1, <3>2
    <3> HIDE DEF front
    <3>5. rwnd' \in RecvWindow
      BY <1>1, <3>3, <3>4 DEF RecvWindow
    <3>6. /\ rwnd'.seq_front = front /\ rwnd'.seq_back = sb
          /\ rwnd'.buf_back = rwnd.buf_back /\ rwnd'.disorder = rwnd.disorder
          /\ rwnd'.wait = rwnd.wait
      BY <1>1, <1>3, <3>4 DEF RecvWindow
    <3>7. Rings(rwnd') /\ Exact(rwnd', got)
      BY <1>1, <1>3, <3>3, <3>5, <3>6, TakeKeepsWindow
    <3>8. returned' \in Seq(Byte) /\ Len(returned') = front
      BY <1>1, <1>3, <3>3, <3>4, TakeType
    <3>9. rwnd.wait = <<>>
      BY <1>1, <1>3, <3>2
    <3> QED
      BY <3>3, <3>5, <3>6, <3>7, <3>8, <3>9
  <2> QED
    BY <2>1, <2>2
<1>6. Promises(acks, rwnd')
  BY <1>1, <1>3, <1>5, PromisesGrow
<1>7. RecvOnward /\ rwnd'.seq_back = rwnd.seq_back
  <2>1. rwnd'.seq_front \in Nat
    BY <1>5 DEF RecvWindow
  <2> QED
    BY <1>3, <1>5, <2>1 DEF RecvOnward
<1> QED
  BY <1>1, <1>2, <1>5, <1>6, <1>7 DEF RecvInv

LEMMA RecvInvNext ==
    RecvInv /\ [RecvNext]_recvVars => RecvInv'
<1> SUFFICES ASSUME RecvInv, [RecvNext]_recvVars PROVE RecvInv'
  OBVIOUS
<1>1. CASE Arrive
  <2>1. PICK s \in Segment : PushData(s[1], s[2])
    BY <1>1 DEF Arrive
  <2>2. s[1] \in Nat /\ s[2] \in Nat
    BY SegmentAssumption, MaxSeqAssumption DEF Segment
  <2> QED
    BY <2>1, <2>2, PushDataKeepsInv
<1>2. CASE Read
  <2>1. PICK n \in ReadSizes : Recv(n)
    BY <1>2 DEF Read
  <2> QED
    BY <2>1, ReadsAssumption, RecvKeepsInv
<1>3. CASE Leave
  <2>1. /\ acks # <<>> /\ acks' = Tail(acks)
        /\ rwnd' = rwnd /\ rbuf' = rbuf /\ returned' = returned /\ got' = got
    BY <1>3 DEF Leave
  <2>2. acks \in Seq(AckPacket) /\ Promises(acks, rwnd)
    BY DEF RecvInv
  <2>3. acks' \in Seq(AckPacket) /\ Promises(acks', rwnd')
    BY <2>1, <2>2, PromisesTail
  <2> QED
    BY <2>1, <2>3 DEF RecvInv
<1>4. CASE UNCHANGED recvVars
  BY <1>4 DEF RecvInv, recvVars
<1> QED
  BY <1>1, <1>2, <1>3, <1>4 DEF RecvNext

LEMMA RecvInvGives ==
    RecvInv => /\ RecvTypeOK /\ RingsHold /\ AckIsExact /\ FlagsAreExact
               /\ ReadOnce /\ NoStarvedRecv /\ PromiseKept
<1> SUFFICES ASSUME RecvInv
             PROVE  /\ RecvTypeOK /\ RingsHold /\ AckIsExact /\ FlagsAreExact
                    /\ ReadOnce /\ NoStarvedRecv /\ PromiseKept
  OBVIOUS
<1>1. RecvTypeOK
  BY DEF RecvInv, RecvTypeOK, AckPacket
<1>2. RingsHold
  BY DEF RecvInv, RingsHold, Rings
<1>3. AckIsExact
  BY DEF RecvInv, AckIsExact, Exact
<1>4. FlagsAreExact
  BY DEF RecvInv, FlagsAreExact, Exact, CellsOf
<1>5. ReadOnce /\ NoStarvedRecv
  BY DEF RecvInv, ReadOnce, NoStarvedRecv
<1>6. PromiseKept
  BY DEF RecvInv, PromiseKept, Promises
<1> QED
  BY <1>1, <1>2, <1>3, <1>4, <1>5, <1>6

LEMMA RecvAlwaysInv == RecvSpec => []RecvInv
<1>1. RecvInv /\ [RecvNext]_recvVars => RecvInv'
  BY RecvInvNext
<1> QED
  BY <1>1, RecvInvInit, PTL DEF RecvSpec

\* The receiving half keeps its shape (tcp_window.hh:30-44).
THEOREM RecvTypeCorrect == RecvSpec => []RecvTypeOK
<1>1. RecvInv => RecvTypeOK
  BY RecvInvGives
<1> QED
  BY <1>1, RecvAlwaysInv, PTL

\* Neither the queue of unread bytes nor the ring of flags is ever overrun: no
\* cell stands for two positions, however far ahead a segment is when it
\* arrives (max_tail, tcp_window.hh:108-112).
THEOREM RecvRingsKept == RecvSpec => []RingsHold
<1>1. RecvInv => RingsHold
  BY RecvInvGives
<1> QED
  BY <1>1, RecvAlwaysInv, PTL

\* The acknowledgement number is exact (tcp_backend.cc:244-263), whatever
\* segments arrive in whatever order: every byte before it arrived and the one
\* it names did not.
THEOREM RecvAcknowledgesExactly == RecvSpec => []AckIsExact
<1>1. RecvInv => AckIsExact
  BY RecvInvGives
<1> QED
  BY <1>1, RecvAlwaysInv, PTL

\* The flags are those of the bytes taken out of order and no others, on every
\* turn of the ring (tcp_window.hh:128-148).
THEOREM RecvFlagsKept == RecvSpec => []FlagsAreExact
<1>1. RecvInv => FlagsAreExact
  BY RecvInvGives
<1> QED
  BY <1>1, RecvAlwaysInv, PTL

\* The reader is given each byte once and in order: what its requests have been
\* answered with ends where the queue begins (tcp_backend.cc:120-156).
THEOREM RecvReadsOnce == RecvSpec => []ReadOnce
<1>1. RecvInv => ReadOnce
  BY RecvInvGives
<1> QED
  BY <1>1, RecvAlwaysInv, PTL

\* A reader waits only while there is nothing to read: try_resolve_recv leaves
\* no request behind that it could answer (tcp_backend.cc:145-156).
THEOREM RecvWakesReader == RecvSpec => []NoStarvedRecv
<1>1. RecvInv => NoStarvedRecv
  BY RecvInvGives
<1> QED
  BY <1>1, RecvAlwaysInv, PTL

\* No advertised window is taken back by a later acknowledgement, nor by what
\* the reader does meanwhile (tcp_backend.cc:261).
THEOREM RecvKeepsPromises == RecvSpec => []PromiseKept
<1>1. RecvInv => PromiseKept
  BY RecvInvGives
<1> QED
  BY <1>1, RecvAlwaysInv, PTL

-----------------------------------------------------------------------------
(* Packets taken off a queue.                                              *)

LEMMA RemovedIs ==
    ASSUME NEW T, NEW q \in Seq(T), NEW i \in 1..Len(q)
    PROVE  /\ RemoveAt(q, i) \in Seq(T)
           /\ Len(RemoveAt(q, i)) = Len(q) - 1
           /\ \A k \in 1..Len(RemoveAt(q, i)) :
                 RemoveAt(q, i)[k] = q[IF k < i THEN k ELSE k + 1]
<1> DEFINE a == SubSeq(q, 1, i - 1)
           b == SubSeq(q, i + 1, Len(q))
           c == RemoveAt(q, i)
<1>1. /\ i \in Nat /\ i >= 1 /\ i <= Len(q) /\ Len(q) \in Nat
      /\ i - 1 \in Nat /\ i - 1 \in 0..Len(q) /\ i \in 0..Len(q)
  OBVIOUS
<1>2. a \in Seq(T) /\ Len(a) = i - 1 /\ \A k \in 1..(i - 1) : a[k] = q[k]
  <2>1. 1 \in Int /\ i - 1 \in Int /\ \A k \in 1..(i - 1) : q[k] \in T
    BY <1>1
  <2>2. /\ a \in Seq(T)
        /\ Len(a) = IF 1 <= i - 1 THEN (i - 1) - 1 + 1 ELSE 0
        /\ \A k \in 1..((i - 1) - 1 + 1) : a[k] = q[1 + k - 1]
    BY <2>1, SubSeqProperties
  <2> HIDE DEF a
  <2> QED
    BY <1>1, <2>2
<1>3. /\ b \in Seq(T) /\ Len(b) = Len(q) - i
      /\ \A k \in 1..Len(b) : i + k \in 1..Len(q) /\ b[k] = q[i + k]
  BY <1>1, RestIs
<1>4. c = a \o b
  BY DEF RemoveAt
<1> HIDE DEF a, b, c
<1>5. /\ c \in Seq(T) /\ Len(c) = Len(a) + Len(b)
      /\ \A k \in 1..(Len(a) + Len(b)) :
            c[k] = IF k <= Len(a) THEN a[k] ELSE b[k - Len(a)]
  BY <1>2, <1>3, <1>4, ConcatProperties
<1>6. Len(c) = Len(q) - 1
  BY <1>1, <1>2, <1>3, <1>5
<1>7. ASSUME NEW k \in 1..Len(c)
      PROVE  c[k] = q[IF k < i THEN k ELSE k + 1]
  <2>1. CASE k < i
    <3>1. k <= Len(a) /\ k \in 1..(i - 1) /\ k \in 1..(Len(a) + Len(b))
      BY <1>1, <1>2, <1>5, <2>1
    <3> QED
      BY <1>2, <1>5, <2>1, <3>1
  <2>2. CASE ~(k < i)
    <3>1. /\ ~(k <= Len(a)) /\ k - Len(a) \in 1..Len(b)
          /\ i + (k - Len(a)) = k + 1 /\ k \in 1..(Len(a) + Len(b))
      BY <1>1, <1>2, <1>3, <1>5, <1>6, <2>2
    <3>2. c[k] = b[k - Len(a)]
      BY <1>5, <3>1
    <3> QED
      BY <1>3, <2>2, <3>1, <3>2
  <2> QED
    BY <2>1, <2>2
<1> QED
  BY <1>5, <1>6, <1>7 DEF c

LEMMA RemovedThins ==
    ASSUME NEW T, NEW q \in Seq(T), NEW i \in 1..Len(q)
    PROVE  Thins(q, RemoveAt(q, i)) /\ Len(RemoveAt(q, i)) \in Nat
<1> DEFINE c == RemoveAt(q, i)
           at(k) == IF k < i THEN k ELSE k + 1
<1>1. /\ Len(c) = Len(q) - 1 /\ Len(q) \in Nat /\ i \in Nat /\ i >= 1
      /\ \A k \in 1..Len(c) : c[k] = q[at(k)]
  BY RemovedIs
<1> HIDE DEF c
<1>2. \A k \in 1..Len(c) : at(k) \in 1..Len(q)
  BY <1>1
<1>3. \A j \in 1..Len(c), k \in 1..Len(c) : j <= k => at(j) <= at(k)
  BY <1>1
<1> HIDE DEF at
<1>4. Thins(q, c)
  BY <1>1, <1>2, <1>3 DEF Thins
<1>5. Len(c) \in Nat
  <2>1. Len(q) >= 1
    BY <1>1
  <2> QED
    BY <1>1, <2>1
<1> QED
  BY <1>4, <1>5 DEF c

LEMMA ArrivalsAre ==
    ASSUME NEW T, NEW q \in Seq(T), NEW i \in Arrivals(q)
    PROVE  /\ i \in 1..Len(q)
           /\ ~ Reordering => i = 1
<1>1. Len(q) \in Nat
  OBVIOUS
<1> QED
  BY <1>1 DEF Arrivals, Least

-----------------------------------------------------------------------------
(* The invariant, and what a step of the two halves and the network does.  *)

\* Whatever arrived was sent.
KnownSent == ~ wrapped => \A p \in got : p < sent

StreamInv == SendInv /\ RecvInv /\ DataSent /\ KnownSent /\ Asking

\* The receiving side goes on, or a packet is lost: no acknowledgement is new
\* but that of the receiver as it is then.
Receives ==
    /\ RecvOnward
    /\ \/ acks' = acks
       \/ acks' = Append(acks, AckOf(rwnd'))
       \/ \E i \in 1..Len(acks) : acks' = RemoveAt(acks, i)
    /\ \A p \in got' : \/ p \in got
                       \/ \E i \in 1..Len(data) : p < data[i].seq + Len(data[i].payload)

\* Acknowledgement i reaches the sender, which has not sent FIN.
Hears(i) ==
    /\ sock = "Established"
    /\ acks' = RemoveAt(acks, i)
    /\ UNCHANGED <<rwnd, rbuf, returned, got>>
    /\ Acks(acks[i].ack, acks[i].wnd)

LEMMA InitStreamInv == StreamInit => StreamInv
<1> SUFFICES ASSUME StreamInit
             PROVE  StreamInv
  OBVIOUS
<1>1. SendInv /\ RecvInv
  BY InitInv, RecvInvInit DEF StreamInit
<1>2. Asking /\ DataSent
  BY ContentInit DEF StreamInit
<1>3. KnownSent
  BY DEF StreamInit, RecvInit, KnownSent
<1> QED
  BY <1>1, <1>2, <1>3 DEF StreamInv

\* While the receiving side stays as it is.
LEMMA RecvStays ==
    ASSUME RecvInv, UNCHANGED recvVars
    PROVE  RecvInv' /\ Receives
<1>1. /\ rwnd' = rwnd /\ rbuf' = rbuf /\ returned' = returned
      /\ acks' = acks /\ got' = got
  BY DEF recvVars
<1>2. RecvInv'
  BY <1>1 DEF RecvInv
<1>3. rwnd.seq_front \in Nat /\ rwnd.seq_back \in Nat
  BY DEF RecvInv, RecvWindow
<1> QED
  BY <1>1, <1>2, <1>3 DEF Receives, RecvOnward

\* While one acknowledgement leaves the network.
LEMMA AckLeaves ==
    ASSUME RecvInv, NEW i \in 1..Len(acks), acks' = RemoveAt(acks, i),
           UNCHANGED <<rwnd, rbuf, returned, got>>
    PROVE  RecvInv' /\ Receives
<1>1. /\ acks \in Seq(AckPacket) /\ Promises(acks, rwnd)
      /\ rwnd.seq_front \in Nat /\ rwnd.seq_back \in Nat
  BY DEF RecvInv, RecvWindow
<1>2. acks' \in Seq(AckPacket)
  BY <1>1, RemovedIs
<1>3. Thins(acks, acks') /\ Len(acks') \in Nat
  BY <1>1, RemovedThins
<1>4. Promises(acks', rwnd)
  BY <1>1, <1>3, PromisesThin
<1>5. RecvInv'
  BY <1>2, <1>4 DEF RecvInv
<1> QED
  BY <1>1, <1>5 DEF Receives, RecvOnward

\* While the sending side stays as it is, but for packets that leave.
LEMMA SendStays ==
    ASSUME SendInv, UNCHANGED <<swnd, sbuf, sock, asked, sent, wrapped, aborted>>,
           data' = data \/ \E i \in 1..Len(data) : data' = RemoveAt(data, i)
    PROVE  SendInv' /\ Effect /\ Moves(swnd)
<1>1. data \in Seq(Packet) /\ swnd.seq_back \in Nat
  BY TypesAre DEF SendInv
<1>2. /\ data' \in Seq(Packet)
      /\ \A k \in 1..Len(data') : \E j \in 1..Len(data) : data'[k] = data[j]
  <2>1. CASE data' = data
    BY <1>1, <2>1
  <2>2. CASE \E i \in 1..Len(data) : data' = RemoveAt(data, i)
    <3>1. PICK i \in 1..Len(data) : data' = RemoveAt(data, i)
      BY <2>2
    <3>2. /\ data' \in Seq(Packet) /\ Len(data') = Len(data) - 1
          /\ \A k \in 1..Len(data') : data'[k] = data[IF k < i THEN k ELSE k + 1]
      BY <1>1, <3>1, RemovedIs
    <3>3. \A k \in 1..Len(data') : (IF k < i THEN k ELSE k + 1) \in 1..Len(data)
      BY <1>1, <3>2
    <3> QED
      BY <3>2, <3>3
  <2> QED
    BY <2>1, <2>2
<1>3. Adds(data, data', swnd', sbuf')
  BY <1>2 DEF Adds
<1>4. SendInv' /\ Onward /\ StoresNone
  BY <1>2, DepartStep
<1>5. Moves(swnd)
  BY <1>1, <1>3 DEF Moves
<1> QED
  BY <1>3, <1>4, <1>5 DEF Effect

\* Whatever arrived is acknowledged no further than it was sent.
LEMMA KnownIs ==
    ASSUME StreamInv, ~ wrapped
    PROVE  rwnd.seq_back <= sent
<1>1. rwnd.seq_back \in Nat /\ sent \in Nat /\ Exact(rwnd, got)
  BY TypesAre DEF StreamInv, SendInv, RecvInv, RecvWindow
<1>2. CASE rwnd.seq_back = 0
  BY <1>1, <1>2
<1>3. CASE rwnd.seq_back > 0
  <2>1. rwnd.seq_back - 1 \in got
    BY <1>1, <1>3 DEF Exact
  <2>2. rwnd.seq_back - 1 < sent
    BY <2>1 DEF StreamInv, KnownSent
  <2> QED
    BY <1>1, <2>2
<1> QED
  BY <1>1, <1>2, <1>3

\* A step of the connection.
StreamEffect ==
    /\ SendInv' /\ RecvInv' /\ Effect
    /\ \/ Moves(swnd) /\ Receives
       \/ \E i \in Arrivals(acks) : Hears(i)

LEMMA AckArrivesIs ==
    ASSUME StreamInv, AckArrives
    PROVE  StreamEffect
<1>1. PICK i \in Arrivals(acks) :
         /\ acks' = RemoveAt(acks, i)
         /\ IF sock = "Established" THEN PushAck(acks[i].ack, acks[i].wnd)
            ELSE ~ aborted /\ UNCHANGED sendVars
  BY DEF AckArrives
<1>2. /\ SendInv /\ RecvInv /\ acks \in Seq(AckPacket) /\ Promises(acks, rwnd)
      /\ data \in Seq(Packet)
  BY TypesAre DEF StreamInv, RecvInv, SendInv
<1>3. UNCHANGED <<rwnd, rbuf, returned, got>>
  BY DEF AckArrives
<1>4. i \in 1..Len(acks)
  BY <1>2, ArrivalsAre
<1>5. RecvInv' /\ Receives
  BY <1>1, <1>2, <1>3, <1>4, AckLeaves
<1>6. CASE sock = "Established"
  <2> DEFINE ack == acks[i].ack
             w == acks[i].wnd
  <2>1. ack \in Nat /\ w \in 0..(BufferSize - 1) /\ ack <= rwnd.seq_back
    <3>1. acks[i] \in AckPacket
      BY <1>2, <1>4
    <3> QED
      BY <1>2, <1>4, <3>1 DEF AckPacket, Promises
  <2>2. ~ wrapped => ack <= sent
    <3>1. rwnd.seq_back \in Nat /\ sent \in Nat
      BY <1>2, TypesAre DEF SendInv, RecvInv, RecvWindow
    <3> HIDE DEF ack
    <3> QED
      BY <2>1, <3>1, KnownIs
  <2>3. PushAck(ack, w)
    BY <1>1, <1>6
  <2> HIDE DEF ack, w
  <2>4. /\ SendInv' /\ Onward
        /\ StoresNone \/ \E k \in 0..Len(swnd.wait) : Answers(k)
        /\ Acks(ack, w) \/ UNCHANGED <<swnd, data>>
    BY <1>2, <2>1, <2>2, <2>3, PushAckStep
  <2>5. Effect
    BY <2>3, <2>4, AckEffect
  <2>6. CASE Acks(ack, w)
    BY <1>1, <1>3, <1>5, <1>6, <2>4, <2>5, <2>6 DEF StreamEffect, Hears, ack, w

  <2>7. CASE UNCHANGED <<swnd, data>>
    <3>1. Moves(swnd)
      BY <1>2, <2>7, AddsNone, TypesAre DEF SendInv, Moves
    <3> QED
      BY <1>5, <2>4, <2>5, <3>1 DEF StreamEffect
  <2> QED
    BY <2>4, <2>6, <2>7
<1>7. CASE sock # "Established"
  <2>1. UNCHANGED <<swnd, sbuf, sock, asked, sent, wrapped, aborted>> /\ data' = data
    BY <1>1, <1>7 DEF sendVars
  <2>2. SendInv' /\ Effect /\ Moves(swnd)
    BY <1>2, <2>1, SendStays
  <2> QED
    BY <1>5, <2>2 DEF StreamEffect
<1> QED
  BY <1>6, <1>7

LEMMA DataArrivesIs ==
    ASSUME StreamInv, DataArrives
    PROVE  StreamEffect
<1>1. PICK i \in Arrivals(data) :
         data' = RemoveAt(data, i) /\ PushData(data[i].seq, Len(data[i].payload))
  BY DEF DataArrives
<1>2. UNCHANGED <<swnd, sbuf, sock, asked, sent, wrapped, aborted>>
  BY DEF DataArrives
<1>3. SendInv /\ RecvInv /\ data \in Seq(Packet)
  BY TypesAre DEF StreamInv, SendInv
<1>4. i \in 1..Len(data)
  BY <1>3, ArrivalsAre
<1>5. SendInv' /\ Effect /\ Moves(swnd)
  BY <1>1, <1>2, <1>3, <1>4, SendStays
<1>6. data[i].seq \in Nat /\ Len(data[i].payload) \in Nat
  <2>1. data[i] \in Packet
    BY <1>3, <1>4
  <2>2. data[i].payload \in Seq(Byte) /\ data[i].seq \in Nat
    BY <2>1 DEF Packet
  <2> QED
    BY <2>2
<1>7. /\ RecvInv' /\ RecvOnward
      /\ acks' = Append(acks, AckOf(rwnd'))
      /\ \A p \in got' : p \in got \/ p < data[i].seq + Len(data[i].payload)
  BY <1>1, <1>3, <1>6, PushDataKeepsInv
<1>8. Receives
  BY <1>4, <1>7 DEF Receives
<1> QED
  BY <1>5, <1>7, <1>8 DEF StreamEffect

LEMMA StreamStep ==
    ASSUME StreamInv, [StreamNext]_streamVars
    PROVE  StreamEffect
<1>1. SendInv /\ RecvInv /\ data \in Seq(Packet) /\ acks \in Seq(AckPacket)
  BY TypesAre DEF StreamInv, SendInv, RecvInv
<1>2. CASE AppWrites
  <2>1. PICK n \in WriteSizes : Send(n)
    BY <1>2 DEF AppWrites, Write
  <2>2. n \in Nat
    BY WritesAssumption
  <2>3. SendInv' /\ Onward /\ Takes(n) /\ Moves(swnd)
    BY <1>1, <2>1, <2>2, SendStep
  <2>4. RecvInv' /\ Receives
    BY <1>1, <1>2, RecvStays DEF AppWrites
  <2> QED
    BY <2>3, <2>4 DEF StreamEffect, Effect, Moves
<1>3. CASE AppCloses
  <2>1. SendInv' /\ Onward /\ StoresNone /\ Moves(swnd)
    BY <1>1, <1>3, CloseStep DEF AppCloses
  <2>2. RecvInv' /\ Receives
    BY <1>1, <1>3, RecvStays DEF AppCloses
  <2> QED
    BY <2>1, <2>2 DEF StreamEffect, Effect, Moves
<1>4. CASE TimeOut
  <2>1. SendInv' /\ Onward /\ StoresNone /\ (Moves(swnd) \/ UNCHANGED <<swnd, data>>)
    BY <1>1, <1>4, TimerStep DEF TimeOut
  <2>2. Moves(swnd)
    BY <1>1, <2>1, AddsNone, TypesAre DEF SendInv, Moves
  <2>3. RecvInv' /\ Receives
    BY <1>1, <1>4, RecvStays DEF TimeOut
  <2> QED
    BY <2>1, <2>2, <2>3 DEF StreamEffect, Effect, Moves
<1>5. CASE AppReads
  <2>1. PICK n \in ReadSizes : Recv(n)
    BY <1>5 DEF AppReads, Read
  <2>2. n \in Nat
    BY ReadsAssumption
  <2>3. /\ RecvInv' /\ RecvOnward /\ acks' = acks /\ got' = got
    BY <1>1, <2>1, <2>2, RecvKeepsInv
  <2>4. UNCHANGED <<swnd, sbuf, sock, asked, sent, wrapped, aborted>> /\ data' = data
    BY <1>5 DEF AppReads, sendVars
  <2>5. SendInv' /\ Effect /\ Moves(swnd)
    BY <1>1, <2>4, SendStays
  <2> QED
    BY <2>3, <2>5 DEF StreamEffect, Receives
<1>6. CASE DataLost
  <2>1. PICK i \in Arrivals(data) : data' = RemoveAt(data, i)
    BY <1>6 DEF DataLost
  <2>2. /\ UNCHANGED <<swnd, sbuf, sock, asked, sent, wrapped, aborted>>
        /\ UNCHANGED recvVars
    BY <1>6 DEF DataLost
  <2>3. i \in 1..Len(data)
    BY <1>1, ArrivalsAre
  <2>4. SendInv' /\ Effect /\ Moves(swnd)
    BY <1>1, <2>1, <2>2, <2>3, SendStays
  <2>5. RecvInv' /\ Receives
    BY <1>1, <2>2, RecvStays
  <2> QED
    BY <2>4, <2>5 DEF StreamEffect
<1>7. CASE AckLost
  <2>1. PICK i \in Arrivals(acks) : acks' = RemoveAt(acks, i)
    BY <1>7 DEF AckLost
  <2>2. UNCHANGED <<rwnd, rbuf, returned, got>> /\ UNCHANGED sendVars
    BY <1>7 DEF AckLost
  <2>3. i \in 1..Len(acks)
    BY <1>1, ArrivalsAre
  <2>4. UNCHANGED <<swnd, sbuf, sock, asked, sent, wrapped, aborted>> /\ data' = data
    BY <2>2 DEF sendVars
  <2>5. SendInv' /\ Effect /\ Moves(swnd)
    BY <1>1, <2>4, SendStays
  <2>6. RecvInv' /\ Receives
    BY <1>1, <2>1, <2>2, <2>3, AckLeaves
  <2> QED
    BY <2>5, <2>6 DEF StreamEffect
<1>8. CASE UNCHANGED streamVars
  <2>1. UNCHANGED recvVars /\ data' = data
        /\ UNCHANGED <<swnd, sbuf, sock, asked, sent, wrapped, aborted>>
    BY <1>8 DEF streamVars, sendVars
  <2>2. SendInv' /\ Effect /\ Moves(swnd)
    BY <1>1, <2>1, SendStays
  <2>3. RecvInv' /\ Receives
    BY <1>1, <2>1, RecvStays
  <2> QED
    BY <2>2, <2>3 DEF StreamEffect
<1> QED
  BY <1>2, <1>3, <1>4, <1>5, <1>6, <1>7, <1>8, AckArrivesIs, DataArrivesIs DEF StreamNext

LEMMA StreamInvStep ==
    ASSUME StreamInv, StreamEffect
    PROVE  StreamInv'
<1>1. /\ SendInv /\ RecvInv /\ DataSent /\ KnownSent /\ Asking
      /\ SendInv' /\ RecvInv' /\ Effect
  BY DEF StreamInv, StreamEffect
<1>2. DataSent' /\ Asking'
  BY <1>1, DataSentStep, AskingStep
<1>3. ASSUME ~ wrapped', NEW p \in got'
      PROVE  p < sent'
  <2>1. ~ wrapped /\ sent' >= sent
    BY <1>1, <1>3 DEF Effect, Onward
  <2>2. /\ sent \in Nat /\ sent' \in Nat /\ p \in Nat /\ data \in Seq(Packet)
    <3>1. SendTypeOK /\ SendTypeOK'
      BY <1>1 DEF SendInv
    <3> QED
      BY <1>1, <3>1, TypesAre DEF SendTypeOK, RecvInv
  <2>3. p < sent
    <3>1. CASE p \in got
      BY <1>1, <2>1, <3>1 DEF KnownSent
    <3>2. CASE p \notin got
      <4>1. PICK i \in 1..Len(data) : p < data[i].seq + Len(data[i].payload)
        BY <1>3, <3>2 DEF StreamEffect, Receives, Hears
      <4>2. data[i].seq + Len(data[i].payload) <= sent
        BY <1>1, <2>1 DEF DataSent, AllEnd
      <4>3. data[i].seq + Len(data[i].payload) \in Nat
        <5>1. data[i] \in Packet
          BY <2>2
        <5> QED
          BY <5>1, EndIs
      <4> QED
        BY <2>2, <4>1, <4>2, <4>3
    <3> QED
      BY <3>1, <3>2
  <2> QED
    BY <2>1, <2>2, <2>3
<1>4. KnownSent'
  BY <1>3 DEF KnownSent
<1> QED
  BY <1>1, <1>2, <1>4 DEF StreamInv

LEMMA AlwaysStreamInv == StreamSpec => []StreamInv
<1>1. StreamInv /\ [StreamNext]_streamVars => StreamInv'
  BY StreamStep, StreamInvStep
<1> QED
  BY <1>1, InitStreamInv, PTL DEF StreamSpec

-----------------------------------------------------------------------------
(* How far the sender may be wrong about the receiver: d bytes.            *)

\* The right edge of the receiver's window.
Edge == rwnd.seq_front + BufferSize - 1

\* What the sender takes for acknowledged goes no more than d bytes past what
\* is.  Without reordering the same holds of every acknowledgement on its way,
\* and neither the window the sender knows nor what it has sent goes more than
\* d bytes past the receiver's.
Within(d) ==
    /\ swnd.seq_front <= rwnd.seq_back + d
    /\ ~ Reordering =>
         /\ \A k \in 1..Len(acks) : swnd.seq_front <= acks[k].ack + d
         /\ swnd.seq_front + swnd.rwnd <= Edge + d
         /\ ~ wrapped => swnd.seq_back <= Edge + d /\ AllEnd(data, Edge + d)

LEMMA InitWithin ==
    ASSUME NEW d \in Nat
    PROVE  StreamInit => Within(d)
<1> SUFFICES ASSUME StreamInit
             PROVE  Within(d)
  OBVIOUS
<1>1. /\ swnd.seq_front = 0 /\ swnd.seq_back = 0 /\ swnd.rwnd = BufferSize - 1
      /\ rwnd.seq_front = 0 /\ rwnd.seq_back = 0
      /\ acks = <<>> /\ data = <<>>
  BY DEF StreamInit, SendInit, InitSend, RecvInit, InitRecv
<1>2. Edge = BufferSize - 1
  BY <1>1, BufferAssumption DEF Edge
<1>3. Len(acks) = 0 /\ Len(data) = 0
  BY <1>1
<1> QED
  BY <1>1, <1>2, <1>3, BufferAssumption DEF Within, AllEnd

\* The numbers Within is about, before and after a step.
LEMMA WithinTypes ==
    ASSUME StreamInv, StreamInv'
    PROVE  /\ swnd.seq_front \in Nat /\ swnd.seq_back \in Nat /\ swnd.rwnd \in Nat
           /\ swnd'.seq_front \in Nat /\ swnd'.seq_back \in Nat /\ swnd'.rwnd \in Nat
           /\ rwnd.seq_front \in Nat /\ rwnd.seq_back \in Nat
           /\ rwnd'.seq_front \in Nat /\ rwnd'.seq_back \in Nat
           /\ Edge \in Nat /\ Edge' \in Nat
           /\ acks \in Seq(AckPacket) /\ Promises(acks, rwnd)
           /\ data \in Seq(Packet) /\ data' \in Seq(Packet)
           /\ rwnd' \in RecvWindow /\ Rings(rwnd')
<1>1. /\ swnd \in SendWindow /\ swnd' \in SendWindow
      /\ data \in Seq(Packet) /\ data' \in Seq(Packet)
  BY DEF StreamInv, SendInv, SendTypeOK, Packet
<1>2. /\ rwnd \in RecvWindow /\ rwnd' \in RecvWindow /\ Rings(rwnd')
      /\ acks \in Seq(AckPacket) /\ Promises(acks, rwnd)
  BY DEF StreamInv, RecvInv
<1>3. /\ rwnd.seq_front \in Nat /\ rwnd.seq_back \in Nat
      /\ rwnd'.seq_front \in Nat /\ rwnd'.seq_back \in Nat
  BY <1>2 DEF RecvWindow
<1>4. Edge \in Nat /\ Edge' \in Nat
  BY <1>3, BufferAssumption DEF Edge
<1>5. /\ swnd.seq_front \in Nat /\ swnd.seq_back \in Nat /\ swnd.rwnd \in Nat
      /\ swnd'.seq_front \in Nat /\ swnd'.seq_back \in Nat /\ swnd'.rwnd \in Nat
  BY <1>1, FieldsAre
<1> QED
  BY <1>1, <1>2, <1>3, <1>4, <1>5

\* Packets added in flight keep to where seq_back keeps.
LEMMA AddsWithin ==
    ASSUME NEW e \in Seq(Packet), NEW a \in Seq(Packet), NEW s, NEW b,
           NEW m \in Nat, NEW n \in Nat, m <= n,
           AllEnd(e, m), s.seq_back \in Nat, s.seq_back <= n, Adds(e, a, s, b)
    PROVE  AllEnd(a, n)
<1> SUFFICES ASSUME NEW i \in 1..Len(a)
             PROVE  a[i].seq + Len(a[i].payload) <= n
  BY DEF AllEnd
<1>1. a[i].seq + Len(a[i].payload) \in Nat
  <2>1. a[i] \in Packet
    OBVIOUS
  <2> QED
    BY <2>1, EndIs
<1>2. CASE \E j \in 1..Len(e) : a[i] = e[j]
  <2>1. PICK j \in 1..Len(e) : a[i] = e[j]
    BY <1>2
  <2>2. a[i].seq + Len(a[i].payload) <= m
    BY <2>1 DEF AllEnd
  <2> QED
    BY <1>1, <2>2
<1>3. CASE InFlight(a[i], s, b)
  BY <1>1, <1>3, InFlightEnds
<1> QED
  BY <1>2, <1>3, Zenon DEF Adds

LEMMA AppendedIs ==
    ASSUME NEW S, NEW e \in Seq(S), NEW x, NEW k \in 1..Len(Append(e, x))
    PROVE  (k \in 1..Len(e) /\ Append(e, x)[k] = e[k]) \/ Append(e, x)[k] = x
OBVIOUS

\* A step on the sending side that only sends, and any on the receiving side.

LEMMA MovesWithin ==
    ASSUME NEW d \in Nat, StreamInv, StreamInv', Effect, Within(d),
           Moves(swnd), Receives
    PROVE  Within(d)'
<1>1. /\ swnd.seq_front \in Nat /\ swnd.seq_back \in Nat /\ swnd.rwnd \in Nat
      /\ swnd'.seq_back \in Nat
      /\ rwnd.seq_front \in Nat /\ rwnd.seq_back \in Nat
      /\ rwnd'.seq_front \in Nat /\ rwnd'.seq_back \in Nat
      /\ Edge \in Nat /\ Edge' \in Nat
      /\ acks \in Seq(AckPacket) /\ data \in Seq(Packet) /\ data' \in Seq(Packet)
      /\ rwnd' \in RecvWindow /\ Rings(rwnd')
  BY WithinTypes
<1>2. /\ swnd'.seq_front = swnd.seq_front /\ swnd'.rwnd = swnd.rwnd
      /\ rwnd'.seq_front >= rwnd.seq_front /\ rwnd'.seq_back >= rwnd.seq_back
  BY DEF Moves, Receives, RecvOnward
<1>3. Edge <= Edge'
  <2>1. rwnd.seq_front \in Nat /\ rwnd'.seq_front \in Nat
    BY <1>1
  <2> QED
    BY <1>2, <2>1, BufferAssumption DEF Edge
<1>4. swnd'.seq_front <= rwnd'.seq_back + d
  BY <1>1, <1>2 DEF Within
<1>5. ASSUME ~ Reordering
      PROVE  /\ \A k \in 1..Len(acks') : swnd'.seq_front <= acks'[k].ack + d
             /\ swnd'.seq_front + swnd'.rwnd <= Edge' + d
             /\ ~ wrapped' => swnd'.seq_back <= Edge' + d /\ AllEnd(data', Edge' + d)
  <2>1. /\ \A k \in 1..Len(acks) : swnd.seq_front <= acks[k].ack + d
        /\ swnd.seq_front + swnd.rwnd <= Edge + d
        /\ ~ wrapped => swnd.seq_back <= Edge + d /\ AllEnd(data, Edge + d)
    BY <1>5 DEF Within
  <2>2. ASSUME NEW k \in 1..Len(acks')
        PROVE  swnd'.seq_front <= acks'[k].ack + d
    <3>1. \/ \E j \in 1..Len(acks) : acks'[k] = acks[j]
          \/ acks'[k] = AckOf(rwnd')
      <4>1. CASE acks' = acks
        BY <4>1
      <4>2. CASE acks' = Append(acks, AckOf(rwnd'))
        <5>1. \/ k \in 1..Len(acks) /\ acks'[k] = acks[k]
              \/ acks'[k] = AckOf(rwnd')
          BY <1>1, <4>2, AppendedIs
        <5> QED
          BY <5>1
      <4>3. CASE \E i \in 1..Len(acks) : acks' = RemoveAt(acks, i)
        <5>1. PICK i \in 1..Len(acks) : acks' = RemoveAt(acks, i)
          BY <4>3
        <5>2. Thins(acks, acks')
          BY <1>1, <5>1, RemovedThins
        <5>3. k <= k
          OBVIOUS
        <5> QED
          BY <5>2, <5>3 DEF Thins
      <4> QED
        BY <4>1, <4>2, <4>3 DEF Receives
    <3>2. CASE \E j \in 1..Len(acks) : acks'[k] = acks[j]
      BY <1>2, <2>1, <3>2
    <3>3. CASE acks'[k] = AckOf(rwnd')
      <4>1. AckOf(rwnd').ack = rwnd'.seq_back
        BY <1>1, AckOfType
      <4> QED
        BY <1>4, <3>3, <4>1
    <3> QED
      BY <3>1, <3>2, <3>3
  <2>3. swnd'.seq_front + swnd'.rwnd <= Edge' + d
    <3>1. swnd.seq_front \in Nat /\ swnd.rwnd \in Nat /\ Edge \in Nat /\ Edge' \in Nat
      BY <1>1
    <3>2. swnd.seq_front + swnd.rwnd <= Edge + d
      BY <2>1
    <3> QED
      BY <3>1, <3>2, <1>2, <1>3
  <2>4. ASSUME ~ wrapped'
        PROVE  swnd'.seq_back <= Edge' + d /\ AllEnd(data', Edge' + d)
    <3>0. PICK x \in Nat, y \in Nat : x = Edge + d /\ y = Edge' + d /\ x <= y
      <4>1. \A e \in Nat, f \in Nat : e <= f =>
               e + d \in Nat /\ f + d \in Nat /\ e + d <= f + d
        OBVIOUS
      <4>2. Edge \in Nat /\ Edge' \in Nat
        BY <1>1
      <4>3. Edge + d \in Nat /\ Edge' + d \in Nat /\ Edge + d <= Edge' + d
        BY <1>3, <4>1, <4>2, Zenon
      <4> QED
        BY <4>3
    <3>1. /\ ~ wrapped /\ Adds(data, data', swnd', sbuf')
          /\ \/ swnd'.seq_back <= swnd.seq_back
             \/ swnd'.seq_back <= swnd.seq_front + swnd.rwnd
      BY <2>4 DEF Effect, Onward, Moves
    <3>2. swnd'.seq_back <= y
      <4>1. swnd.seq_back <= x /\ swnd.seq_front + swnd.rwnd <= x
        BY <2>1, <3>0, <3>1
      <4>2. /\ swnd'.seq_back \in Nat /\ swnd.seq_back \in Nat
            /\ swnd.seq_front \in Nat /\ swnd.rwnd \in Nat
        BY <1>1
      <4>3. x <= y
        BY <3>0, Zenon
      <4> QED
        BY <3>1, <4>1, <4>2, <4>3

    <3>3. AllEnd(data, x)
      BY <2>1, <3>0, <3>1
    <3>4. AllEnd(data', y)
      BY <1>1, <3>0, <3>1, <3>2, <3>3, AddsWithin
    <3> QED
      BY <3>0, <3>2, <3>4

  <2> QED
    BY <2>2, <2>3, <2>4
<1> QED
  BY <1>4, <1>5 DEF Within

\* An acknowledgement that frees no more than d bytes past it.
LEMMA HearsWithin ==
    ASSUME NEW d \in Nat, StreamInv, StreamInv', Effect, Within(d),
           NEW i \in Arrivals(acks), Hears(i),
           swnd'.seq_front = swnd.seq_front \/ swnd'.seq_front <= acks[i].ack + d
    PROVE  Within(d)'
<1> DEFINE ack == acks[i].ack
           w == acks[i].wnd
<1>1. /\ swnd.seq_front \in Nat /\ swnd.seq_back \in Nat /\ swnd.rwnd \in Nat
      /\ swnd'.seq_front \in Nat /\ swnd'.seq_back \in Nat
      /\ rwnd.seq_back \in Nat /\ Edge \in Nat
      /\ acks \in Seq(AckPacket) /\ Promises(acks, rwnd)
      /\ data \in Seq(Packet) /\ data' \in Seq(Packet)
  BY WithinTypes
<1>2. i \in 1..Len(acks) /\ (~ Reordering => i = 1)
  BY <1>1, ArrivalsAre
<1>3. /\ acks' = RemoveAt(acks, i) /\ rwnd' = rwnd /\ swnd'.rwnd = w
      /\ ~ wrapped' =>
           /\ ~ wrapped /\ Adds(data, data', swnd', sbuf')
           /\ \/ swnd'.seq_back <= swnd.seq_back
              \/ swnd'.seq_back <= ack
              \/ swnd'.seq_back <= swnd'.seq_front + w
  BY DEF Hears, Acks, Effect, Onward
<1>4. Edge' = Edge
  BY <1>3 DEF Edge
<1>5. /\ ack \in Nat /\ w \in Nat
      /\ ack <= rwnd.seq_back /\ ack + w <= Edge
  <2>1. acks[i] \in AckPacket
    BY <1>1, <1>2
  <2>2. ack \in Nat /\ w \in Nat
    BY <2>1, BufferAssumption DEF AckPacket
  <2>3. ack <= rwnd.seq_back /\ ack + w <= rwnd.seq_front + BufferSize - 1
    BY <1>1, <1>2 DEF Promises
  <2> QED
    BY <2>2, <2>3 DEF Edge
<1>6. PICK e \in Nat : e = Edge
  BY <1>1
<1>7. swnd'.seq_front <= rwnd'.seq_back + d
  <2>1. swnd.seq_front <= rwnd.seq_back + d
    BY DEF Within
  <2>2. swnd'.seq_front = swnd.seq_front \/ swnd'.seq_front <= ack + d
    OBVIOUS
  <2>3. rwnd'.seq_back = rwnd.seq_back
    BY <1>3
  <2>4. /\ swnd.seq_front \in Nat /\ swnd'.seq_front \in Nat /\ rwnd.seq_back \in Nat
        /\ ack \in Nat /\ ack <= rwnd.seq_back
    BY <1>1, <1>5
  <2> HIDE DEF ack
  <2> QED
    BY <2>1, <2>2, <2>3, <2>4
<1>8. ASSUME ~ Reordering
      PROVE  /\ \A k \in 1..Len(acks') : swnd'.seq_front <= acks'[k].ack + d
             /\ swnd'.seq_front + swnd'.rwnd <= Edge' + d
             /\ ~ wrapped' => swnd'.seq_back <= Edge' + d /\ AllEnd(data', Edge' + d)
  <2>1. /\ \A k \in 1..Len(acks) : swnd.seq_front <= acks[k].ack + d
        /\ ~ wrapped => swnd.seq_back <= e + d /\ AllEnd(data, e + d)
    BY <1>6, <1>8 DEF Within
  <2>2. swnd'.seq_front <= ack + d
    BY <1>2, <2>1
  <2>3. ASSUME NEW k \in 1..Len(acks')
        PROVE  swnd'.seq_front <= acks'[k].ack + d
    <3>1. /\ Len(acks') = Len(acks) - 1 /\ Len(acks) \in Nat
          /\ acks'[k] = acks[IF k < i THEN k ELSE k + 1]
      <4>1. /\ Len(RemoveAt(acks, i)) = Len(acks) - 1
            /\ \A j \in 1..Len(RemoveAt(acks, i)) :
                  RemoveAt(acks, i)[j] = acks[IF j < i THEN j ELSE j + 1]
        BY <1>1, <1>2, RemovedIs
      <4> QED
        BY <1>1, <1>3, <4>1
    <3>2. k + 1 \in 1..Len(acks) /\ i <= k + 1 /\ acks'[k] = acks[k + 1]
      BY <1>2, <1>8, <3>1
    <3>3. ack <= acks[k + 1].ack
      BY <1>1, <1>2, <3>2 DEF Promises
    <3>4. acks[k + 1].ack \in Nat
      <4>1. acks[k + 1] \in AckPacket
        BY <1>1, <3>2
      <4> QED
        BY <4>1 DEF AckPacket
    <3> HIDE DEF ack
    <3>5. swnd'.seq_front <= acks[k + 1].ack + d
      <4>1. PICK b \in Nat : b = acks[k + 1].ack
        BY <3>4
      <4>2. ack <= b /\ ack \in Nat /\ swnd'.seq_front \in Nat
        BY <1>1, <1>5, <3>3, <4>1
      <4> HIDE <1>1, <1>5
      <4>3. swnd'.seq_front <= b + d
        BY <2>2, <4>2
      <4> QED
        BY <4>1, <4>3
    <3> QED
      BY <3>2, <3>5, Zenon

  <2> HIDE DEF ack, w
  <2>4. swnd'.seq_front + w <= e + d
    <3>1. swnd'.seq_front \in Nat
      BY <1>1
    <3>2. ack \in Nat /\ w \in Nat /\ ack + w <= e
      BY <1>5, <1>6
    <3> QED
      BY <3>1, <3>2, <2>2

  <2>5. ASSUME ~ wrapped'
        PROVE  swnd'.seq_back <= e + d /\ AllEnd(data', e + d)
    <3>1. swnd'.seq_back <= e + d
      <4>1. PICK x \in Nat, y \in Nat, z \in Nat, n \in Nat :
                x = swnd.seq_back /\ y = swnd'.seq_back /\ z = swnd'.seq_front /\ n = ack
        <5>1. /\ swnd.seq_back \in Nat /\ swnd'.seq_back \in Nat /\ swnd'.seq_front \in Nat
              /\ ack \in Nat
          BY <1>1, <1>5
        <5> QED
          BY <5>1
      <4>2. x <= e + d /\ z + w <= e + d /\ n + w <= e /\ w \in Nat
        BY <1>5, <1>6, <2>1, <2>4, <2>5, <1>3, <4>1
      <4>3. y <= x \/ y <= n \/ y <= z + w
        BY <1>3, <2>5, <4>1
      <4> HIDE <1>1, <1>3, <1>5
      <4>4. y <= e + d
        BY <4>2, <4>3
      <4> QED
        BY <4>1, <4>4
    <3>2. e + d \in Nat /\ e + d <= e + d
      BY <1>6
    <3>3. AllEnd(data, e + d) /\ Adds(data, data', swnd', sbuf')
      BY <1>3, <2>1, <2>5
    <3>4. AllEnd(data', e + d)
      BY <1>1, <3>1, <3>2, <3>3, AddsWithin
    <3> QED
      BY <3>1, <3>4
  <2> QED
    BY <1>3, <1>4, <1>6, <2>3, <2>4, <2>5, Zenon
<1> QED
  BY <1>7, <1>8 DEF Within

\* A step of the connection keeps to what the network allows.
LEMMA StreamWithin ==
    ASSUME NEW d \in Nat, StreamInv, StreamInv', StreamEffect, Within(d),
           \A i \in Arrivals(acks) : Hears(i) =>
              swnd'.seq_front = swnd.seq_front \/ swnd'.seq_front <= acks[i].ack + d
    PROVE  Within(d)'
<1>1. Effect
  BY DEF StreamEffect
<1>2. CASE Moves(swnd) /\ Receives
  BY <1>1, <1>2, MovesWithin
<1>3. CASE \E i \in Arrivals(acks) : Hears(i)
  BY <1>1, <1>3, HearsWithin
<1> QED
  BY <1>2, <1>3 DEF StreamEffect

\* No acknowledgement about to arrive is inside a segment in flight.
WholeSegments ==
    sock = "Established" => \A i \in Arrivals(acks) : Whole(swnd, acks[i].ack)

\* Of an acknowledgement that arrives, before the window takes it.
LEMMA ArrivingIs ==
    ASSUME StreamInv, StreamInv', NEW i \in Arrivals(acks)
    PROVE  acks[i].ack \in Nat /\ swnd.seq_front \in Nat /\ swnd'.seq_front \in Nat
<1>1. acks \in Seq(AckPacket) /\ swnd.seq_front \in Nat /\ swnd'.seq_front \in Nat
  BY WithinTypes
<1>2. i \in 1..Len(acks)
  BY <1>1, ArrivalsAre
<1>3. acks[i] \in AckPacket
  BY <1>1, <1>2
<1> QED
  BY <1>1, <1>3 DEF AckPacket

\* An acknowledgement frees less than a segment it does not name.
LEMMA LessThanSegment ==
    ASSUME StreamInv, StreamInv', StreamEffect, Within(SegmentSize - 1)
    PROVE  Within(SegmentSize - 1)'
<1>1. PICK d \in Nat : d = SegmentSize - 1 /\ SegmentSize = d + 1
  BY SegmentAssumption
<1>2. ASSUME NEW i \in Arrivals(acks), Hears(i)
      PROVE  swnd'.seq_front = swnd.seq_front \/ swnd'.seq_front <= acks[i].ack + d
  <2>1. swnd'.seq_front = swnd.seq_front \/ swnd'.seq_front < acks[i].ack + SegmentSize
    BY <1>2 DEF Hears, Acks
  <2>2. acks[i].ack \in Nat /\ swnd'.seq_front \in Nat
    BY ArrivingIs
  <2> QED
    BY <1>1, <2>1, <2>2
<1>3. Within(d)
  BY <1>1
<1>4. Within(d)'
  BY <1>2, <1>3, StreamWithin
<1> QED
  BY <1>1, <1>4 DEF Within

\* One that is inside no segment frees nothing it does not name.
LEMMA NothingMore ==
    ASSUME StreamInv, StreamInv', StreamEffect, WholeSegments, Within(0)
    PROVE  Within(0)'
<1>1. ASSUME NEW i \in Arrivals(acks), Hears(i)
      PROVE  swnd'.seq_front = swnd.seq_front \/ swnd'.seq_front <= acks[i].ack + 0
  <2>1. Whole(swnd, acks[i].ack)
    BY <1>1 DEF WholeSegments, Hears
  <2>2. swnd'.seq_front = Greatest(acks[i].ack, swnd.seq_front)
    BY <1>1, <2>1 DEF Hears, Acks
  <2>3. acks[i].ack \in Nat /\ swnd'.seq_front \in Nat
    BY ArrivingIs
  <2> QED
    BY <2>2, <2>3 DEF Greatest
<1> QED
  BY <1>1, StreamWithin

\* Segments of one byte have no inside.
LEMMA OneByteWhole ==
    ASSUME StreamInv, SegmentSize = 1
    PROVE  WholeSegments
<1> SUFFICES ASSUME NEW i \in Arrivals(acks), NEW k \in 1..Len(swnd.wnd),
                    SegStart(swnd, k) < acks[i].ack, acks[i].ack < swnd.wnd[k]
             PROVE  FALSE
  BY DEF WholeSegments, Whole
<1>1. /\ acks \in Seq(AckPacket) /\ swnd \in SendWindow /\ InOrder(swnd)
  BY TypesAre DEF StreamInv, SendInv, RecvInv
<1>2. acks[i].ack \in Nat
  <2>1. acks[i] \in AckPacket
    BY <1>1, ArrivalsAre
  <2> QED
    BY <2>1 DEF AckPacket
<1>3. swnd.wnd[k] \in Nat /\ SegStart(swnd, k) \in Nat
  BY <1>1, FieldsAre, StartsInOrder
<1>4. swnd.wnd[k] - SegStart(swnd, k) <= 1
  BY <1>1 DEF InOrder, Cut
<1> QED
  BY <1>2, <1>3, <1>4

-----------------------------------------------------------------------------
(* Theorems: the halves together.                                          *)

LEMMA SendInvGives ==
    SendInv => SendTypeOK /\ QueueHolds /\ SegmentsTile /\ NeverIdle /\ WaitsForRoom
<1> SUFFICES ASSUME SendInv
             PROVE  SendTypeOK /\ QueueHolds /\ SegmentsTile /\ NeverIdle /\ WaitsForRoom
  OBVIOUS
<1>1. SendTypeOK /\ WaitsForRoom
  BY DEF SendInv, Waits, WaitsForRoom
<1>2. QueueHolds
  BY DEF SendInv, Reach, Steady, Ordered, QueueHolds
<1>3. SegmentsTile
  BY DEF SendInv, InOrder, Cut, Reach, Steady, Tiles, SegmentsTile
<1>4. NeverIdle
  BY DEF SendInv, Armed, NeverIdle
<1> QED
  BY <1>1, <1>2, <1>3, <1>4

\* What each half guarantees against every acknowledgement of something sent,
\* and every segment, it guarantees against the other half and a network that
\* loses, delays and reorders: no acknowledgement that reaches a sender is of
\* something not sent, the environments of TcpSend and TcpRecv leave out
\* nothing that happens (tcp_backend.cc:161-263).
THEOREM HalvesKept ==
    StreamSpec => [](/\ SendTypeOK /\ QueueHolds /\ SegmentsTile
                     /\ NeverIdle /\ WaitsForRoom
                     /\ RecvTypeOK /\ RingsHold /\ AckIsExact /\ FlagsAreExact
                     /\ ReadOnce /\ NoStarvedRecv /\ PromiseKept)
<1>1. StreamInv => /\ SendTypeOK /\ QueueHolds /\ SegmentsTile
                   /\ NeverIdle /\ WaitsForRoom
                   /\ RecvTypeOK /\ RingsHold /\ AckIsExact /\ FlagsAreExact
                   /\ ReadOnce /\ NoStarvedRecv /\ PromiseKept
  BY SendInvGives, RecvInvGives DEF StreamInv
<1> QED
  BY <1>1, AlwaysStreamInv, PTL

\* Whatever reaches the receiver, sent or sent again, carries the bytes of its
\* place in the stream, for an application with one request at a time
\* (tcp_backend.cc:347) and until cwnd wraps.
THEOREM StreamCarriesStream ==
    ASSUME MaxWrites <= 1
    PROVE  StreamSpec => []PayloadIsStream
<1>1. StreamInit => StreamInv /\ Content
  BY InitStreamInv, ContentInit DEF StreamInit
<1>2. StreamInv /\ Content /\ [StreamNext]_streamVars => StreamInv' /\ Content'
  <2> SUFFICES ASSUME StreamInv, Content, [StreamNext]_streamVars
               PROVE  StreamInv' /\ Content'
    OBVIOUS
  <2>1. StreamEffect /\ StreamInv'
    BY StreamStep, StreamInvStep
  <2>2. SendInv /\ SendInv' /\ Effect /\ Asking
    BY <2>1 DEF StreamInv, StreamEffect
  <2> QED
    BY <2>1, <2>2, ContentStep
<1>3. Content => PayloadIsStream
  BY DEF Content, From, PayloadIsStream
<1> QED
  BY <1>1, <1>2, <1>3, PTL DEF StreamSpec

LEMMA AlwaysWithinSegment == StreamSpec => []Within(SegmentSize - 1)
<1>1. StreamInit => StreamInv /\ Within(SegmentSize - 1)
  BY InitStreamInv, InitWithin, SegmentAssumption
<1>2. StreamInv /\ Within(SegmentSize - 1) /\ [StreamNext]_streamVars
      => StreamInv' /\ Within(SegmentSize - 1)'
  BY StreamStep, StreamInvStep, LessThanSegment
<1> QED
  BY <1>1, <1>2, PTL DEF StreamSpec

LEMMA AlwaysWithin == StreamSpec /\ []WholeSegments => []Within(0)
<1>1. StreamInit => StreamInv /\ Within(0)
  BY InitStreamInv, InitWithin
<1>2. StreamInv /\ Within(0) /\ WholeSegments /\ [StreamNext]_streamVars
      => StreamInv' /\ Within(0)'
  BY StreamStep, StreamInvStep, NothingMore
<1> QED
  BY <1>1, <1>2, PTL DEF StreamSpec

\* The sender takes for acknowledged, and gives up, less than one segment that
\* the receiver has not acknowledged, whatever is lost, reordered, resent or
\* cut otherwise when it is sent again (tcp_backend.cc:168-191).
THEOREM FreesLessThanSegment ==
    StreamSpec => [](swnd.seq_front < rwnd.seq_back + SegmentSize)
<1>1. StreamInv /\ Within(SegmentSize - 1) => swnd.seq_front < rwnd.seq_back + SegmentSize
  <2> SUFFICES ASSUME StreamInv, Within(SegmentSize - 1)
               PROVE  swnd.seq_front < rwnd.seq_back + SegmentSize
    OBVIOUS
  <2>1. swnd.seq_front \in Nat /\ rwnd.seq_back \in Nat
    BY TypesAre DEF StreamInv, SendInv, RecvInv, RecvWindow
  <2>2. swnd.seq_front <= rwnd.seq_back + (SegmentSize - 1)
    BY DEF Within
  <2> QED
    BY <2>1, <2>2, SegmentAssumption
<1> QED
  BY <1>1, AlwaysStreamInv, AlwaysWithinSegment, PTL

\* As long as no acknowledgement arrives inside a segment in flight, the sender
\* gives up nothing the receiver has not acknowledged.
THEOREM AckedReceived == StreamSpec /\ []WholeSegments => []AckedIsReceived
<1>1. StreamInv /\ Within(0) => AckedIsReceived
  <2> SUFFICES ASSUME StreamInv, Within(0)
               PROVE  AckedIsReceived
    OBVIOUS
  <2>1. swnd.seq_front \in Nat /\ rwnd.seq_back \in Nat
    BY TypesAre DEF StreamInv, SendInv, RecvInv, RecvWindow
  <2>2. swnd.seq_front <= rwnd.seq_back + 0
    BY DEF Within
  <2> QED
    BY <2>1, <2>2 DEF AckedIsReceived
<1> QED
  BY <1>1, AlwaysStreamInv, AlwaysWithin, PTL

\* Without reordering, no packet on its way goes past the window the receiver
\* has by then, but for less than one segment (tcp_window.hh:80-88).
THEOREM OverrunsLessThanSegment ==
    ASSUME ~ Reordering
    PROVE  StreamSpec => [](~ wrapped => AllEnd(data, Edge + (SegmentSize - 1)))
<1>1. Within(SegmentSize - 1) => (~ wrapped => AllEnd(data, Edge + (SegmentSize - 1)))
  BY DEF Within
<1> QED
  BY <1>1, AlwaysWithinSegment, PTL

\* And not at all as long as no acknowledgement arrives inside a segment.
THEOREM NothingOverrun ==
    ASSUME ~ Reordering
    PROVE  StreamSpec /\ []WholeSegments => [](~ wrapped => NoOverrun)
<1>1. StreamInv /\ Within(0) => (~ wrapped => NoOverrun)
  <2> SUFFICES ASSUME StreamInv, Within(0), ~ wrapped, NEW i \in 1..Len(data)
               PROVE  data[i].seq + Len(data[i].payload) <= rwnd.seq_front + BufferSize - 1
    BY DEF NoOverrun
  <2>1. data[i].seq + Len(data[i].payload) <= Edge + 0
    BY DEF Within, AllEnd
  <2>2. rwnd.seq_front + BufferSize - 1 = Edge /\ Edge \in Nat
    <3>1. rwnd.seq_front \in Nat
      BY DEF StreamInv, RecvInv, RecvWindow
    <3> QED
      BY <3>1, BufferAssumption DEF Edge
  <2> HIDE DEF Edge
  <2> QED
    BY <2>1, <2>2
<1> QED
  BY <1>1, AlwaysStreamInv, AlwaysWithin, PTL

-----------------------------------------------------------------------------
(* Theorems: what FIN says, and the pipe.                                  *)

LEMMA AlwaysDrained ==
    ASSUME WritesFit
    PROVE  StreamSpec => []Drained
<1>1. StreamInit => Drained
  BY ContentInit DEF StreamInit
<1>2. StreamInv /\ Drained /\ [StreamNext]_streamVars => Drained'
  <2> SUFFICES ASSUME StreamInv, Drained, [StreamNext]_streamVars
               PROVE  Drained'
    OBVIOUS
  <2>1. SendInv /\ SendInv' /\ Effect /\ Asking
    BY StreamStep DEF StreamInv, StreamEffect
  <2> QED
    BY <2>1, DrainedStep
<1> QED
  BY <1>1, <1>2, AlwaysStreamInv, PTL DEF StreamSpec

\* What the receiver has acknowledged was asked for.
LEMMA KnownAsked ==
    ASSUME StreamInv, ~ wrapped
    PROVE  /\ rwnd.seq_back \in Nat /\ asked \in Nat
           /\ rwnd.seq_back <= swnd.buf_back /\ swnd.buf_back <= asked
<1>1. /\ rwnd.seq_back \in Nat /\ asked \in Nat /\ sent \in Nat
      /\ swnd.buf_back \in Nat /\ sent <= swnd.buf_back /\ swnd.buf_back <= asked
  BY TypesAre DEF StreamInv, SendInv, RecvInv, RecvWindow, Reach, Asking
<1>2. rwnd.seq_back <= sent
  BY KnownIs
<1> QED
  BY <1>1, <1>2

\* FIN is announced when all that was asked for has arrived, but for less than
\* a segment, and no request is left (tcp_backend.cc:228-234, 332-335).  Every
\* request is one that fits an empty queue.
THEOREM FinLosesLessThanSegment ==
    ASSUME WritesFit
    PROVE  StreamSpec =>
             [](~ wrapped /\ sock = "Fin_Wait1" =>
                  asked < rwnd.seq_back + SegmentSize /\ swnd.wait = <<>>)
<1>1. StreamInv /\ Drained /\ swnd.seq_front < rwnd.seq_back + SegmentSize
      => (~ wrapped /\ sock = "Fin_Wait1" =>
            asked < rwnd.seq_back + SegmentSize /\ swnd.wait = <<>>)
  BY DEF Drained
<1> QED
  BY <1>1, AlwaysStreamInv, AlwaysDrained, FreesLessThanSegment, PTL

\* It is announced when all of it has arrived, as long as no acknowledgement
\* arrives inside a segment.
THEOREM FinDrains ==
    ASSUME WritesFit
    PROVE  StreamSpec /\ []WholeSegments => [](~ wrapped => FinMeansDrained)
<1>1. StreamInv /\ Drained /\ AckedIsReceived => (~ wrapped => FinMeansDrained)
  <2> SUFFICES ASSUME StreamInv, Drained, AckedIsReceived, ~ wrapped, sock = "Fin_Wait1"
               PROVE  rwnd.seq_back = asked /\ swnd.wait = <<>>
    BY DEF FinMeansDrained
  <2>1. swnd.seq_front = asked /\ swnd.wait = <<>>
    BY DEF Drained
  <2>2. asked <= rwnd.seq_back /\ rwnd.seq_back <= asked
    <3>1. /\ rwnd.seq_back \in Nat /\ asked \in Nat /\ swnd.buf_back \in Nat
          /\ rwnd.seq_back <= swnd.buf_back /\ swnd.buf_back <= asked
      BY KnownAsked, TypesAre DEF StreamInv, SendInv
    <3> QED
      BY <2>1, <3>1 DEF AckedIsReceived
  <2> QED
    BY <2>1, <2>2, KnownAsked
<1> QED
  BY <1>1, AlwaysStreamInv, AlwaysDrained, AckedReceived, PTL

\* The two ends do not change in one step, and what is asked for keeps to its
\* bound.
Apart ==
    \/ UNCHANGED <<asked, sock>>
    \/ /\ UNCHANGED <<rwnd, returned>>
       /\ asked' = asked \/ asked' <= MaxSeq

LEMMA StreamApart ==
    ASSUME [StreamNext]_streamVars
    PROVE  Apart
<1>1. CASE AppWrites
  <2>1. UNCHANGED <<rwnd, returned>>
    BY <1>1 DEF AppWrites, recvVars
  <2>2. PICK n \in WriteSizes : asked + n <= MaxSeq /\ Send(n)
    BY <1>1 DEF AppWrites, Write
  <2>3. asked' = asked + n
    BY <2>2 DEF Send
  <2> QED
    BY <2>1, <2>2, <2>3 DEF Apart
<1>2. CASE AppCloses
  BY <1>2 DEF AppCloses, CloseCall, recvVars, Apart
<1>3. CASE TimeOut
  BY <1>3 DEF TimeOut, TimerFires, Apart
<1>4. CASE AckArrives
  <2>1. UNCHANGED <<rwnd, returned>>
    BY <1>4 DEF AckArrives
  <2>2. asked' = asked
    <3>1. CASE UNCHANGED sendVars
      BY <3>1 DEF sendVars
    <3>2. ASSUME NEW ack, NEW w, PushAck(ack, w)
          PROVE  asked' = asked
      <4>1. ASSUME NEW s, Progress(s)
            PROVE  asked' = asked
        BY <4>1 DEF Progress
      <4>2. ASSUME NEW s, DupAck(s)
            PROVE  asked' = asked
        BY <4>2 DEF DupAck
      <4>3. \E s : Progress(s) \/ DupAck(s)
        BY <3>2 DEF PushAck
      <4> QED
        BY <4>1, <4>2, <4>3
    <3> QED
      BY <1>4, <3>1, <3>2 DEF AckArrives
  <2> QED
    BY <2>1, <2>2 DEF Apart
<1>5. CASE DataArrives \/ AppReads \/ DataLost \/ AckLost
  BY <1>5 DEF DataArrives, AppReads, DataLost, AckLost, sendVars, Apart
<1>6. CASE UNCHANGED streamVars
  BY <1>6 DEF streamVars, sendVars, Apart
<1> QED
  BY <1>1, <1>2, <1>3, <1>4, <1>5, <1>6 DEF StreamNext

\* What the two ends have done, in the pipe's terms: taken, arrived, put.
InPipe ==
    /\ asked \in Nat /\ rwnd.seq_back \in Nat /\ Len(returned) \in Nat
    /\ Len(returned) <= rwnd.seq_back /\ rwnd.seq_back <= asked
    /\ Len(returned) = rwnd.seq_front
    /\ sock \in {"Established", "Fin_Wait1"}

LEMMA PipeIs ==
    ASSUME StreamInv, ~ wrapped
    PROVE  InPipe
<1>1. /\ Rings(rwnd) /\ ReadOnce /\ rwnd \in RecvWindow
      /\ sock \in {"Established", "Fin_Wait1"}
  BY RecvInvGives DEF StreamInv, RecvInv, SendInv, SendTypeOK
<1>2. /\ rwnd.seq_front \in Nat /\ rwnd.seq_back \in Nat
      /\ rwnd.seq_front <= rwnd.seq_back /\ Len(returned) = rwnd.seq_front
  BY <1>1 DEF Rings, ReadOnce, RecvWindow
<1>3. asked \in Nat /\ swnd.buf_back \in Nat /\ rwnd.seq_back <= asked
  <2>1. /\ asked \in Nat /\ swnd.buf_back \in Nat
        /\ rwnd.seq_back <= swnd.buf_back /\ swnd.buf_back <= asked
    BY KnownAsked, TypesAre DEF StreamInv, SendInv
  <2> QED
    BY <1>2, <2>1
<1> QED
  BY <1>1, <1>2, <1>3 DEF InPipe

\* A step of the connection is one of the pipe.
LEMMA PipeStep ==
    ASSUME InPipe, InPipe', FinMeansDrained', StreamEffect, Apart
    PROVE  [Pipe!PipeNext]_(Pipe!pipeVars)
<1>1. /\ asked \in Nat /\ rwnd.seq_back \in Nat /\ Len(returned) \in Nat
      /\ Len(returned) <= rwnd.seq_back /\ rwnd.seq_back <= asked
      /\ sock \in {"Established", "Fin_Wait1"}
  BY DEF InPipe
<1>2. /\ asked' \in Nat /\ rwnd'.seq_back \in Nat /\ Len(returned') \in Nat
      /\ Len(returned') <= rwnd'.seq_back /\ rwnd'.seq_back <= asked'
      /\ sock' \in {"Established", "Fin_Wait1"}
  BY DEF InPipe
<1>3. rwnd'.seq_back >= rwnd.seq_back /\ Len(returned') >= Len(returned)
  <2>1. Len(returned) = rwnd.seq_front /\ Len(returned') = rwnd'.seq_front
    BY DEF InPipe
  <2>2. CASE Receives
    BY <2>1, <2>2 DEF Receives, RecvOnward
  <2>3. CASE \E i \in Arrivals(acks) : Hears(i)
    BY <1>1, <2>3 DEF Hears
  <2> QED
    BY <2>2, <2>3 DEF StreamEffect
<1>4. \/ asked' = asked
      \/ sock = "Established" /\ sock' = "Established" /\ asked' \in (asked + 1)..MaxSeq
         /\ UNCHANGED <<rwnd, returned>>
  <2> SUFFICES ASSUME asked' # asked
               PROVE  /\ sock = "Established" /\ sock' = "Established"
                      /\ asked' \in (asked + 1)..MaxSeq /\ UNCHANGED <<rwnd, returned>>
    OBVIOUS
  <2>1. UNCHANGED <<rwnd, returned>> /\ asked' <= MaxSeq
    BY DEF Apart
  <2>2. PICK n \in WriteSizes : Takes(n)
    BY DEF StreamEffect, Effect, StoresNone, Answers
  <2>3. /\ n \in Nat /\ asked' = asked + n
        /\ sock = "Established" /\ sock' = sock
    BY <2>2, WritesAssumption DEF Takes
  <2>4. n > 0
    BY <1>1, <2>3
  <2> QED
    BY <1>1, <1>2, <2>1, <2>3, <2>4, MaxSeqAssumption
<1>5. CASE asked' # asked
  <2>1. Pipe!Put
    BY <1>4, <1>5 DEF Pipe!Put
  <2> QED
    BY <2>1 DEF Pipe!PipeNext
<1>6. CASE asked' = asked /\ sock' # sock
  <2>1. UNCHANGED <<rwnd, returned>>
    BY <1>6 DEF Apart
  <2>2. sock = "Established" /\ sock' = "Fin_Wait1"
    BY <1>1, <1>2, <1>6 DEF StreamEffect, Effect, Onward
  <2>3. rwnd.seq_back = asked
    BY <1>6, <2>1, <2>2 DEF FinMeansDrained
  <2>4. Pipe!End
    BY <1>6, <2>1, <2>2, <2>3 DEF Pipe!End
  <2> QED
    BY <2>4 DEF Pipe!PipeNext
<1>7. CASE asked' = asked /\ sock' = sock
  <2>1. CASE rwnd'.seq_back # rwnd.seq_back
    <3>1. /\ rwnd'.seq_back \in (rwnd.seq_back + 1)..asked
          /\ Len(returned') \in Len(returned)..rwnd'.seq_back
      BY <1>1, <1>2, <1>3, <1>7, <2>1
    <3>2. Pipe!Carry
      BY <1>7, <3>1 DEF Pipe!Carry
    <3> QED
      BY <3>2 DEF Pipe!PipeNext
  <2>2. CASE rwnd'.seq_back = rwnd.seq_back /\ Len(returned') # Len(returned)
    <3>1. Len(returned') \in (Len(returned) + 1)..rwnd.seq_back
      BY <1>1, <1>2, <1>3, <2>2
    <3>2. Pipe!Get
      BY <1>7, <2>2, <3>1 DEF Pipe!Get
    <3> QED
      BY <3>2 DEF Pipe!PipeNext
  <2>3. CASE rwnd'.seq_back = rwnd.seq_back /\ Len(returned') = Len(returned)
    BY <1>7, <2>3 DEF Pipe!pipeVars
  <2> QED
    BY <2>1, <2>2, <2>3
<1> QED
  BY <1>5, <1>6, <1>7

\* The two halves and the network are a pipe of bytes, with buffers and windows
\* of every size: bytes come out in the order and number they were put in, and
\* the end is announced when all are through (tcp_backend.cc:228-234).  So it is
\* while cwnd has not wrapped, for requests that fit an empty queue, and as long
\* as no acknowledgement arrives inside a segment in flight.
THEOREM StreamIsPipe ==
    ASSUME WritesFit
    PROVE  StreamSpec /\ []WholeSegments /\ []~ wrapped => ImplementsPipe
<1>1. StreamInit => Pipe!PipeInit
  <2> SUFFICES ASSUME StreamInit
               PROVE  Pipe!PipeInit
    OBVIOUS
  <2>1. /\ asked = 0 /\ rwnd.seq_back = 0 /\ Len(returned) = 0
        /\ sock = "Established"
    BY DEF StreamInit, SendInit, RecvInit, InitRecv
  <2> QED
    BY <2>1 DEF Pipe!PipeInit
<1>2. /\ StreamInv /\ InPipe /\ InPipe' /\ FinMeansDrained'
      /\ [StreamNext]_streamVars
      => [Pipe!PipeNext]_(Pipe!pipeVars)
  BY StreamStep, StreamApart, PipeStep
<1>3. StreamInv /\ ~ wrapped => InPipe
  BY PipeIs
<1> QED
  BY <1>1, <1>2, <1>3, AlwaysStreamInv, FinDrains, PTL
     DEF StreamSpec, ImplementsPipe, Pipe!PipeSpec

\* With segments of one byte no acknowledgement is inside one: the sender gives
\* up nothing unacknowledged, sends nothing there is no room for, and the pipe
\* holds for every size of the buffers, as the run of MCTcpStream checks it for
\* one (tcp_backend.cc:168-191, tcp_window.hh:80-88).
THEOREM OneByteSegments ==
    ASSUME WritesFit, SegmentSize = 1
    PROVE  /\ StreamSpec => []AckedIsReceived
           /\ ~ Reordering => (StreamSpec => [](~ wrapped => NoOverrun))
           /\ StreamSpec /\ []~ wrapped => ImplementsPipe
<1>1. StreamInv => WholeSegments
  BY OneByteWhole
<1>2. StreamSpec => []WholeSegments
  BY <1>1, AlwaysStreamInv, PTL
<1>3. StreamSpec => []AckedIsReceived
  BY <1>2, AckedReceived, PTL
<1>4. StreamSpec /\ []~ wrapped => ImplementsPipe
  BY <1>2, StreamIsPipe, PTL
<1>5. ASSUME ~ Reordering
      PROVE  StreamSpec => [](~ wrapped => NoOverrun)
  BY <1>2, <1>5, NothingOverrun, PTL
<1> QED
  BY <1>3, <1>4, <1>5
=============================================================================
