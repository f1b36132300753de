------------------------------ MODULE TcpSend ------------------------------
(***************************************************************************)
(* The sending half of TcpBackend for one established connection:          *)
(* src/src/tcp_backend.cc, the Ack branch of push_tcp, the timer           *)
(* sending_timer and the Send and Close requests of push, over the         *)
(* TcpSendWindow of tcp_window.hh.                                         *)
(*                                                                         *)
(* Here the environment acknowledges any position up to the last byte sent *)
(* with any window, in any order; TcpStream puts the receiving half and a  *)
(* lossy link in its place.  The timer may fire whenever it is armed: the  *)
(* code says nothing about how TIMEOUT compares to the round trip.         *)
(***************************************************************************)
EXTENDS TcpWindow, FiniteSets, SequencesExt

CONSTANTS
    WriteSizes,  \* the sizes of the Send requests the application makes
    MaxWrites    \* bound: requests the application leaves unanswered

ASSUME WritesAssumption == WriteSizes \subseteq Nat /\ MaxWrites \in Nat

VARIABLES
    swnd,      \* tcb[i].swnd
    sbuf,      \* tcb[i].swnd.buf
    sock,      \* the state of the socket in the frontend
    data,      \* data packets pushed to output(0), oldest first
    asked,     \* history: bytes the application has asked to send
    sent,      \* history: one past the last byte ever sent
    wrapped,   \* history: cwnd has gone past the end of uint16_t
    aborted    \* front() was taken of an empty deque

sendVars == <<swnd, sbuf, sock, data, asked, sent, wrapped, aborted>>

SendInit ==
    /\ swnd = InitSend
    /\ sbuf = [c \in 0..(BufferSize - 1) |-> Unwritten]
    /\ sock = "Established"
    /\ data = <<>>
    /\ asked = 0 /\ sent = 0
    /\ wrapped = FALSE /\ aborted = FALSE

-----------------------------------------------------------------------------
(* Packets.                                                                *)

\* packet_from_wnd: the bytes l..h-1 of the round queue b.
PacketFromWnd(b, l, h) == [seq |-> l, payload |-> FromWnd(b, l, h)]

\* What the loop "while (try_grow_send(i))" pushes.
BurstPackets(s, b) ==
    [k \in 1..Burst(s) |->
        PacketFromWnd(b, s.seq_back + BurstEnd(s, k - 1), s.seq_back + BurstEnd(s, k))]

-----------------------------------------------------------------------------
(* Timeouts and fast retransmission.                                       *)

\* Seeded fault: segments behind the first kept in flight.
FaultCollapse(s) ==
    IF s.cwnd >= Len(s.wnd) /\ s.cwnd > 1
    THEN [s EXCEPT !.c_threshold = s.cwnd \div 2, !.cwnd = 1]
    ELSE s

\* send_timeout, tcp_backend.cc:274-284: halve the threshold, start again
\* from one segment, and forget all segments in flight but the first.
Collapse(s) ==
    IF s.cwnd >= Len(s.wnd) /\ s.cwnd > 1
    THEN [s EXCEPT !.c_threshold = s.cwnd \div 2,
                   !.cwnd = 1,
                   !.wnd = SubSeq(@, 1, Least(1, Len(@)))]
    ELSE s

\* Seeded fault: a resend that does not set the timer again.
FaultResend(s) == [Collapse(s) EXCEPT !.seq_back = s.wnd[1], !.timer = "idle"]

\* send_timeout on a window with a segment in flight: send the first again.
\* What was sent after it is no longer counted as sent.
Resend(s) == [Collapse(s) EXCEPT !.seq_back = s.wnd[1], !.timer = "armed"]

SendTimeout(s) ==
    IF s.wnd = <<>>
    THEN \* front() of an empty deque: Click's Deque asserts and the router stops
         /\ aborted' = TRUE
         /\ UNCHANGED <<swnd, data>>
    ELSE /\ swnd' = Resend(s)
         /\ data' = Append(data, PacketFromWnd(sbuf, s.seq_front, s.wnd[1]))
         /\ UNCHANGED aborted

\* send_probe: an empty segment, which any acknowledgement answers.
SendProbe(s) ==
    /\ swnd' = [s EXCEPT !.wnd = Append(@, s.seq_front), !.timer = "armed"]
    /\ data' = Append(data, PacketFromWnd(sbuf, s.seq_front, s.seq_front))
    /\ UNCHANGED aborted

\* sending_timer.  The timer is the backend's own: it fires whatever state
\* the frontend is in.
TimerFires ==
    /\ ~ aborted
    /\ swnd.timer = "armed"
    /\ IF swnd.wnd = <<>> THEN SendProbe(swnd) ELSE SendTimeout(swnd)
    /\ UNCHANGED <<sbuf, sock, asked, sent, wrapped>>

-----------------------------------------------------------------------------
(* Requests of the application, forwarded by the frontend while the socket *)
(* is Established.                                                         *)

Unanswered == Len(swnd.wait) + (IF swnd.fin THEN 1 ELSE 0)

\* try_buffer_send of the bytes of one or more requests.
Buffered(s, bytes) == [s EXCEPT !.buf_back = @ + Len(bytes)]

\* A Send request of n bytes: buffered when it fits, made to wait when it
\* does not; either way the window is filled.
Send(n) ==
    LET bytes == [k \in 1..n |-> asked + k - 1]
        fits == n <= MaxBuffer(swnd)
        s == IF fits THEN Buffered(swnd, bytes)
             ELSE [swnd EXCEPT !.wait = Append(@, bytes)]
        b == IF fits THEN ToWnd(sbuf, bytes, swnd.buf_back) ELSE sbuf
        g == GrowSend(s)
    IN  /\ ~ aborted /\ sock = "Established" /\ Unanswered < MaxWrites
        /\ swnd' = IF g.wnd # <<>> THEN [g EXCEPT !.timer = "armed"] ELSE g
        /\ sbuf' = b
        /\ data' = data \o BurstPackets(s, b)
        /\ asked' = asked + n
        /\ sent' = Greatest(sent, g.seq_back)
        /\ UNCHANGED <<sock, wrapped, aborted>>

\* Seeded fault: FIN announced whatever is still to be sent.
FaultCloseCall ==
    /\ ~ aborted /\ sock = "Established" /\ Unanswered < MaxWrites /\ ~ swnd.fin
    /\ sock' = "Fin_Wait1"
    /\ UNCHANGED <<swnd, sbuf, data, asked, sent, wrapped, aborted>>

\* A Close request: with everything acknowledged the frontend is told to send
\* FIN at once, and nothing of the connection is cleaned up; otherwise it is
\* told when the last byte is acknowledged.
CloseCall ==
    /\ ~ aborted /\ sock = "Established" /\ Unanswered < MaxWrites /\ ~ swnd.fin
    /\ IF swnd.seq_front = swnd.buf_back
       THEN sock' = "Fin_Wait1" /\ UNCHANGED swnd
       ELSE swnd' = [swnd EXCEPT !.fin = TRUE] /\ UNCHANGED sock
    /\ UNCHANGED <<sbuf, data, asked, sent, wrapped, aborted>>

-----------------------------------------------------------------------------
(* An acknowledgement, tcp_backend.cc:161-235.                             *)

\* Seeded fault: an acknowledgement of its first byte's position frees a
\* segment.
FaultPopsExactly(s, ack, n) ==
    LET Pops(k) == ack >= SegStart(s, k)
    IN  /\ \A k \in 1..n : Pops(k)
        /\ n < Len(s.wnd) => ~ Pops(n + 1)

\* The loop that takes segments off the window takes n of them: a segment goes
\* when it is empty or when the acknowledgement is past its first byte.
PopsExactly(s, ack, n) ==
    LET Pops(k) == SegStart(s, k) = s.wnd[k] \/ ack > SegStart(s, k)
    IN  /\ \A k \in 1..n : Pops(k)
        /\ n < Len(s.wnd) => ~ Pops(n + 1)

Popped(s, n) ==
    IF n = 0 THEN s
    ELSE [s EXCEPT !.seq_front = s.wnd[n], !.wnd = SubSeq(@, n + 1, Len(@))]

\* The window is taken as it comes; an empty one arms the timer.
Advertised(s, w) ==
    [s EXCEPT !.rwnd = w, !.timer = IF w = 0 THEN "armed" ELSE @]

\* Seeded fault: an old acknowledgement moves the window back.
FaultJumped(s, ack) == [s EXCEPT !.seq_front = ack, !.seq_back = Greatest(@, ack)]

\* An acknowledgement beyond the window, after Collapse forgot segments.
Jumped(s, ack) ==
    IF ack > s.seq_front
    THEN [s EXCEPT !.seq_front = ack, !.seq_back = Greatest(@, ack)]
    ELSE s

\* Seeded fault: a congestion window past its width.
FaultCwndGrown(s) == [s EXCEPT !.cwnd = @ + 1]

\* Slow start up to the threshold, then one more segment per window.
CwndGrown(s) ==
    IF s.cwnd <= s.c_threshold THEN [s EXCEPT !.cwnd = (@ + 1) % CwndMod]
    ELSE IF s.succs + 1 >= s.cwnd
    THEN [s EXCEPT !.cwnd = (@ + 1) % CwndMod, !.succs = 0]
    ELSE [s EXCEPT !.succs = @ + 1]

\* Seeded fault: requests left waiting when there is room.
FaultResolvesSend(s, k, bytes) == k = 0 /\ bytes = <<>>

\* try_resolve_send buffers the first k waiting requests, bytes in all: those
\* that fit, up to the first that does not.
ResolvesSend(s, k, bytes) ==
    /\ bytes = FlattenSeq(SubSeq(s.wait, 1, k))
    /\ Len(bytes) <= MaxBuffer(s)
    /\ k < Len(s.wait) => Len(bytes) + Len(s.wait[k + 1]) > MaxBuffer(s)

\* Seeded fault: no probe of a closed window.
FaultRearmed(s) == [s EXCEPT !.timer = IF s.wnd # <<>> THEN "armed" ELSE "idle"]

Rearmed(s) ==
    [s EXCEPT !.timer = IF s.wnd # <<>> \/ s.rwnd = 0 THEN "armed" ELSE "idle"]

\* clean_link: the timer is deleted, waiting requests are answered with Error.
Cleaned(s) == [s EXCEPT !.timer = "null", !.wnd = <<>>, !.wait = <<>>]

\* Something new is acknowledged: s is the window with the acknowledgement in.
Progress(s) ==
    LET c == [CwndGrown(s) EXCEPT !.fails = 0] IN
    \E k \in 0..Len(s.wait) :
      LET bytes == FlattenSeq(SubSeq(s.wait, 1, k))
          r == [Buffered(c, bytes) EXCEPT !.wait = SubSeq(@, k + 1, Len(@))]
          b == ToWnd(sbuf, bytes, c.buf_back)
          g == Rearmed(GrowSend(r))
          done == g.fin /\ g.seq_front = g.buf_back
      IN  /\ ResolvesSend(c, k, bytes)
          /\ sbuf' = b
          /\ data' = data \o BurstPackets(r, b)
          /\ sent' = Greatest(sent, g.seq_back)
          /\ wrapped' = (wrapped \/ c.cwnd < s.cwnd)
          /\ swnd' = IF done THEN Cleaned(g) ELSE g
          /\ sock' = IF done THEN "Fin_Wait1" ELSE sock
          /\ UNCHANGED <<asked, aborted>>

\* Nothing new: the third one in a row sends the first segment again.
DupAck(s) ==
    LET f == [s EXCEPT !.fails = Least(@ + 1, FailLimit)] IN
    /\ IF f.fails >= FailLimit /\ f.cwnd > 1
       THEN SendTimeout(f)
       ELSE swnd' = f /\ UNCHANGED <<data, aborted>>
    /\ UNCHANGED <<sbuf, sock, asked, sent, wrapped>>

PushAck(ack, w) ==
    /\ ~ aborted /\ sock = "Established"
    /\ \E n \in 0..Len(swnd.wnd) :
        LET a == Advertised(Popped(swnd, n), w)
            s == Jumped(a, ack)
        IN  /\ PopsExactly(swnd, ack, n)
            /\ IF n > 0 \/ ack > a.seq_front THEN Progress(s) ELSE DupAck(s)

-----------------------------------------------------------------------------
(* The environment of this half alone.                                     *)

Write == \E n \in WriteSizes : asked + n <= MaxSeq /\ Send(n)

Acknowledged == \E ack \in 0..sent, w \in 0..(BufferSize - 1) : PushAck(ack, w)

\* The oldest packet leaves the router.
Depart == /\ data # <<>>
          /\ data' = Tail(data)
          /\ UNCHANGED <<swnd, sbuf, sock, asked, sent, wrapped, aborted>>

SendNext ==
    \/ Len(data) < LinkCap /\ (Write \/ CloseCall \/ Acknowledged \/ TimerFires)
    \/ Depart

SendSpec == SendInit /\ [][SendNext]_sendVars

-----------------------------------------------------------------------------
(* Properties.                                                             *)

\* The state has the shape of TcpSendWindow, tcp_window.hh:16-28, and of the
\* packets packet_from_wnd makes.
SendTypeOK ==
    /\ swnd \in SendWindow
    /\ sbuf \in Buffer
    /\ sock \in {"Established", "Fin_Wait1"}
    /\ data \in Seq([seq : Nat, payload : Seq(Byte)])
    /\ asked \in Nat /\ sent \in Nat
    /\ wrapped \in BOOLEAN /\ aborted \in BOOLEAN

\* What is acknowledged, sent and buffered come in this order, and what is not
\* acknowledged fits in the round queue, through resends that move seq_back
\* back and acknowledgements of segments already forgotten.  All of it is lost
\* once cwnd has wrapped below the number of segments in flight, which a timeout
\* then does not forget (tcp_backend.cc:275).
QueueHolds ==
    ~ wrapped =>
        /\ swnd.seq_front <= swnd.seq_back /\ swnd.seq_back <= swnd.buf_back
        /\ swnd.buf_back - swnd.seq_front < BufferSize

\* The segments in flight cover seq_front..seq_back-1 one after the other, no
\* longer than SegmentSize, and there are no more of them than cwnd; only the
\* first may be an empty probe.  This is what lets max_grow and send_timeout
\* compute with seq_back (tcp_backend.cc:168-177, 275-290).
SegmentsTile ==
    ~ wrapped =>
        /\ LastEnd(swnd) = swnd.seq_back
        /\ Len(swnd.wnd) <= swnd.cwnd
        /\ \A k \in 1..Len(swnd.wnd) :
            /\ swnd.wnd[k] - SegStart(swnd, k) <= SegmentSize
            /\ IF k = 1 THEN SegStart(swnd, k) <= swnd.wnd[k]
                        ELSE SegStart(swnd, k) < swnd.wnd[k]

\* Every data packet, first sent or sent again, carries the bytes the
\* application asked to send at those positions of its stream: the round queue
\* is not overwritten while something may be resent from it.  It needs an
\* application that waits for its answers: tcp_backend.cc:347 lets a Send that
\* fits overtake one that waits.
PayloadIsStream ==
    ~ wrapped =>
        \A i \in 1..Len(data) : \A k \in 1..Len(data[i].payload) :
            data[i].payload[k] = data[i].seq + k - 1

\* While something is not acknowledged the timer is armed, so that the
\* connection never waits for a packet nobody will send; only the wrap of cwnd
\* to 0 (tcp_backend.cc:206) can leave it idle.
NeverIdle ==
    /\ ~ aborted /\ ~ wrapped
    /\ sock = "Established" /\ swnd.seq_front < swnd.buf_back
    => swnd.timer = "armed"

\* A Send request waits only while it does not fit (tcp_backend.cc:107-118).
WaitsForRoom == swnd.wait # <<>> => Len(Head(swnd.wait)) > MaxBuffer(swnd)

\* A step never gives up an acknowledged byte nor a buffered one.
Advances == [][/\ swnd'.seq_front >= swnd.seq_front
               /\ swnd'.buf_back >= swnd.buf_back]_sendVars
=============================================================================
