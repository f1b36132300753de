----------------------------- MODULE TcpWindow -----------------------------
(***************************************************************************)
(* The two window structures of the TCP backend, src/src/tcp_window.hh,    *)
(* and the operations on them: TcpSendWindow (swnd) and TcpRecvWindow      *)
(* (rwnd) of one TcpBlock.  Both are round queues over the byte stream of  *)
(* the connection, addressed by sequence number modulo their size.         *)
(*                                                                         *)
(* Sequence numbers are natural numbers: every bound used with this module *)
(* stays far below 2^32, and the wrap at 2^32 is not modelled.  cwnd keeps *)
(* its width, through CwndMod.                                             *)
(***************************************************************************)
EXTENDS Naturals, Sequences

CONSTANTS
    BufferSize,    \* TcpBufferSize, size of the round queues buf
    SegmentSize,   \* TcpSegmentSize, largest payload of a data packet
    RecvMaxAhead,  \* TcpRecvMaxAhead, size of the ring of disorder flags
    CwndMod,       \* 2^16: cwnd, c_threshold and succs are uint16_t
    Unwritten,     \* what a byte of buf is before anything is stored there
    MaxSeq,        \* bound: the stream of a connection has this many bytes
    LinkCap        \* bound: packets a half on its own leaves on the link

ASSUME BufferAssumption == BufferSize \in Nat /\ BufferSize > 1
ASSUME SegmentAssumption == SegmentSize \in Nat /\ SegmentSize > 0
ASSUME AheadAssumption == RecvMaxAhead \in Nat /\ RecvMaxAhead > 1
ASSUME CwndAssumption == CwndMod \in Nat /\ CwndMod > 2
ASSUME UnwrittenAssumption == Unwritten \notin Nat
ASSUME MaxSeqAssumption == MaxSeq \in Nat

Least(a, b) == IF a < b THEN a ELSE b
Greatest(a, b) == IF a > b THEN a ELSE b

-----------------------------------------------------------------------------
(* Copies between a round queue and a packet.                              *)

\* A byte of the application's stream is named by its place in the order in
\* which the application asked for it to be sent.
Byte == Nat \cup {Unwritten}
Buffer == [0..(BufferSize - 1) -> Byte]

\* tcp_from_wnd: the two memcpys read the cells l..h-1 modulo size; when both
\* ends fall on the same cell nothing is copied and the packet keeps whatever
\* it held.
FromWnd(buf, l, h) ==
    [k \in 1..(h - l) |-> IF l % BufferSize = h % BufferSize THEN Unwritten
                          ELSE buf[(l + k - 1) % BufferSize]]

\* tcp_to_wnd: the converse, storing bytes from position l on.
ToWnd(buf, bytes, l) ==
    IF l % BufferSize = (l + Len(bytes)) % BufferSize THEN buf
    ELSE [c \in 0..(BufferSize - 1) |->
            LET k == ((c + BufferSize - (l % BufferSize)) % BufferSize) + 1
            IN  IF k <= Len(bytes) THEN bytes[k] ELSE buf[c]]

-----------------------------------------------------------------------------
(* TcpRecvWindow.                                                          *)

Cells == 0..(RecvMaxAhead - 1)

\* disorder is the set of the cells whose flag is true; wait holds the sizes
\* of the Recv requests not yet answered.
RecvWindow == [seq_front : Nat, seq_back : Nat, buf_back : Nat,
               disorder : SUBSET Cells, wait : Seq(Nat)]

InitRecv == [seq_front |-> 0, seq_back |-> 0, buf_back |-> 0,
             disorder |-> {}, wait |-> <<>>]

\* Seeded fault: a full round queue, which looks like an empty one.
FaultRecvMaxGrow(r) == BufferSize - (r.seq_back - r.seq_front)

RecvMaxGrow(r) == BufferSize - (r.seq_back - r.seq_front) - 1
MaxRecv(r) == r.seq_back - r.seq_front
MaxTail(r) == Least(RecvMaxGrow(r) + r.seq_back, RecvMaxAhead + r.seq_back - 1)

\* The cells the loops of mark_disorder and check_disorder visit for the
\* positions l..h-1.
Area(l, h) ==
    LET a == l % RecvMaxAhead
        b == h % RecvMaxAhead
    IN  IF a <= b THEN a..(b - 1) ELSE (a..(RecvMaxAhead - 1)) \cup (0..(b - 1))

MarkDisorder(r, l, h) ==
    [r EXCEPT !.buf_back = Greatest(@, h), !.disorder = @ \cup Area(l, h)]

CheckDisorder(r, l, h) ==
    /\ l % RecvMaxAhead # h % RecvMaxAhead
    /\ Area(l, h) \subseteq r.disorder

\* forward() stops at position stop: every position before it was flagged, it
\* is not, or it is the end of what was ever marked.
StopsAt(r, stop) ==
    /\ \A p \in r.seq_back..(stop - 1) : p % RecvMaxAhead \in r.disorder
    /\ stop < r.buf_back => stop % RecvMaxAhead \notin r.disorder

\* Seeded fault: flags left set for the next turn of the ring.
FaultForward(r, stop) == [r EXCEPT !.seq_back = stop]

Forward(r, stop) ==
    [r EXCEPT !.seq_back = stop,
              !.disorder = @ \ {p % RecvMaxAhead : p \in r.seq_back..(stop - 1)}]

-----------------------------------------------------------------------------
(* TcpSendWindow.                                                          *)

\* The source keeps in the deque wnd the lengths of the segments in flight,
\* the first one starting at seq_front.  Here wnd holds the positions where
\* they end, which says the same: segment k is SegStart(s, k)..wnd[k]-1.
\* wait holds the payloads of the Send requests that did not fit in buf.
\* fails only matters up to FailLimit, where fast retransmission starts.
FailLimit == 3

SendWindow == [seq_front : Nat, seq_back : Nat, buf_back : Nat,
               wnd : Seq(Nat), rwnd : 0..(BufferSize - 1),
               cwnd : 0..(CwndMod - 1), c_threshold : 0..(CwndMod - 1),
               succs : 0..(CwndMod - 1), fails : 0..FailLimit,
               fin : BOOLEAN, wait : Seq(Seq(Nat)),
               timer : {"null", "idle", "armed"}]

InitSend == [seq_front |-> 0, seq_back |-> 0, buf_back |-> 0,
             wnd |-> <<>>, rwnd |-> BufferSize - 1,
             cwnd |-> 1, c_threshold |-> CwndMod - 1, succs |-> 0, fails |-> 0,
             fin |-> FALSE, wait |-> <<>>, timer |-> "idle"]

SegStart(s, k) == IF k = 1 THEN s.seq_front ELSE s.wnd[k - 1]
LastEnd(s) == IF s.wnd = <<>> THEN s.seq_front ELSE s.wnd[Len(s.wnd)]

\* Seeded faults: a full round queue; bytes freed when sent, not when
\* acknowledged.
FaultMaxBuffer(s) == BufferSize - (s.buf_back - s.seq_front)
FaultMaxBufferSent(s) == BufferSize - (s.buf_back - s.seq_back) - 1

MaxBuffer(s) == BufferSize - (s.buf_back - s.seq_front) - 1

\* Seeded fault: bytes in flight not taken off the peer's window.
FaultRoom(s) ==
    IF Len(s.wnd) >= s.cwnd \/ s.seq_back < s.seq_front THEN 0
    ELSE Least(s.buf_back - s.seq_back, s.rwnd)

\* How many bytes TcpSendWindow::max_grow lets the loop "while
\* (try_grow_send(i))" send before the peer's window or the buffer ends, and
\* none once cwnd segments are in flight.  A negative difference is a huge
\* uint32_t, larger than every rwnd.
Room(s) ==
    IF \/ Len(s.wnd) >= s.cwnd
       \/ s.seq_back < s.seq_front
       \/ s.rwnd < s.seq_back - s.seq_front
    THEN 0
    ELSE LET left == s.rwnd - (s.seq_back - s.seq_front)
         IN  IF s.buf_back < s.seq_back THEN left
             ELSE Least(s.buf_back - s.seq_back, left)

\* How many segments that loop sends: full ones and one shorter, as long as
\* the congestion window has place.
Burst(s) ==
    IF Room(s) = 0 THEN 0
    ELSE Least((Room(s) + SegmentSize - 1) \div SegmentSize, s.cwnd - Len(s.wnd))

\* Where the k-th segment of the burst ends, relative to seq_back.
BurstEnd(s, k) == Least(k * SegmentSize, Room(s))

GrowSend(s) ==
    [s EXCEPT !.wnd = @ \o [k \in 1..Burst(s) |-> LastEnd(s) + BurstEnd(s, k)],
              !.seq_back = @ + BurstEnd(s, Burst(s))]

=============================================================================
