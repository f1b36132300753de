------------------------------ MODULE TcpRecv ------------------------------
(***************************************************************************)
(* The receiving half of TcpBackend for one established connection:        *)
(* src/src/tcp_backend.cc, the Syn branch of push_tcp and the Recv request *)
(* of push, over the TcpRecvWindow of tcp_window.hh.                       *)
(*                                                                         *)
(* Router elements run to completion one call at a time, so an action is a *)
(* whole call of TcpBackend::push.  Here the environment delivers data     *)
(* segments in any order, any number of times; TcpStream puts the sending  *)
(* half and a lossy link in its place.                                     *)
(***************************************************************************)
EXTENDS TcpWindow, FiniteSets, SequencesExt

CONSTANTS
    ReadSizes,   \* the sizes of the Recv requests the application makes
    MaxReads     \* bound: Recv requests waiting at a time

ASSUME ReadsAssumption == ReadSizes \subseteq Nat /\ MaxReads \in Nat

VARIABLES
    rwnd,       \* tcb[i].rwnd
    rbuf,       \* tcb[i].rwnd.buf
    returned,   \* the bytes handed to the application, in order
    acks,       \* acknowledgements pushed to output(0), oldest first
    got         \* history: the positions of the bytes taken from segments

recvVars == <<rwnd, rbuf, returned, acks, got>>

RecvInit ==
    /\ rwnd = InitRecv
    /\ rbuf = [c \in 0..(BufferSize - 1) |-> Unwritten]
    /\ returned = <<>>
    /\ acks = <<>>
    /\ got = {}

-----------------------------------------------------------------------------
\* Seeded fault: a window that ignores what is not read yet.
FaultAckOf(r) == [ack |-> r.seq_back, wnd |-> BufferSize - 1]

\* The acknowledgement sent for a data segment, whatever became of it.
AckOf(r) == [ack |-> r.seq_back, wnd |-> RecvMaxGrow(r)]

TailExceeds(r, tail) == tail > MaxTail(r)
DupSequence(r, seq, tail) == seq < r.seq_back \/ CheckDisorder(r, seq, tail)

\* The sum of the first k waiting sizes.
Asked(wait, k) == FoldLeft(+, 0, SubSeq(wait, 1, k))

\* Seeded fault: requests left waiting when data arrives.
FaultResolvesRecv(r, k, front) == k = 0 /\ front = r.seq_front

\* try_resolve_recv answers waiting requests, oldest first, as long as there
\* is something to read: it stops after k of them, at position front.
ResolvesRecv(r, k, front) ==
    /\ front = Least(r.seq_back, r.seq_front + Asked(r.wait, k))
    /\ k > 0 => r.seq_front + Asked(r.wait, k - 1) < r.seq_back
    /\ k < Len(r.wait) => front = r.seq_back

\* Seeded fault: bytes handed out without being taken off the queue.
FaultTake(r, k, front) ==
    /\ rwnd' = [r EXCEPT !.wait = SubSeq(@, k + 1, Len(@))]
    /\ returned' = returned \o FromWnd(rbuf, r.seq_front, front)

\* Requests answered by now: those up to position front have their bytes.
Take(r, k, front) ==
    /\ rwnd' = [r EXCEPT !.seq_front = front,
                         !.wait = SubSeq(@, k + 1, Len(@))]
    /\ returned' = returned \o FromWnd(rbuf, r.seq_front, front)

\* A segment that is neither too far ahead nor known: mark it, move seq_back
\* over what is now contiguous, answer waiting requests.  Its payload is not
\* stored: tcp_to_wnd is called on the sending side only.
Accept(seq, len) ==
    LET marked == MarkDisorder(rwnd, seq, seq + len) IN
    /\ ~ TailExceeds(rwnd, seq + len)
    /\ ~ DupSequence(rwnd, seq, seq + len)
    /\ \E stop \in marked.seq_back..marked.buf_back :
        /\ StopsAt(marked, stop)
        /\ \E k \in 0..Len(rwnd.wait), front \in rwnd.seq_front..stop :
            /\ ResolvesRecv(Forward(marked, stop), k, front)
            /\ Take(Forward(marked, stop), k, front)
    /\ got' = got \cup seq..(seq + len - 1)

Refuse(seq, len) ==
    /\ TailExceeds(rwnd, seq + len) \/ DupSequence(rwnd, seq, seq + len)
    /\ UNCHANGED <<rwnd, returned, got>>

\* push_tcp for a segment of len bytes from position seq on.
PushData(seq, len) ==
    /\ Accept(seq, len) \/ Refuse(seq, len)
    /\ acks' = Append(acks, AckOf(rwnd'))
    /\ UNCHANGED rbuf

\* A Recv request for at most n bytes: answered with what there is, or made
\* to wait when there is nothing.
Recv(n) ==
    /\ Len(rwnd.wait) < MaxReads
    /\ IF MaxRecv(rwnd) = 0
       THEN /\ rwnd' = [rwnd EXCEPT !.wait = Append(@, n)]
            /\ UNCHANGED returned
       ELSE LET len == Least(n, MaxRecv(rwnd)) IN
            /\ rwnd' = [rwnd EXCEPT !.seq_front = @ + len]
            /\ returned' = returned \o
                           FromWnd(rbuf, rwnd.seq_front, rwnd.seq_front + len)
    /\ UNCHANGED <<rbuf, acks, got>>

-----------------------------------------------------------------------------
(* The environment of this half alone.                                     *)

Segment == {s \in (0..MaxSeq) \X (0..SegmentSize) : s[1] + s[2] <= MaxSeq}

Arrive == /\ Len(acks) < LinkCap
          /\ \E s \in Segment : PushData(s[1], s[2])

Read == \E n \in ReadSizes : Recv(n)

\* The oldest acknowledgement leaves the router.
Leave == /\ acks # <<>>
         /\ acks' = Tail(acks)
         /\ UNCHANGED <<rwnd, rbuf, returned, got>>

RecvNext == Arrive \/ Read \/ Leave

RecvSpec == RecvInit /\ [][RecvNext]_recvVars

-----------------------------------------------------------------------------
(* Properties.                                                             *)

\* The state has the shape of TcpRecvWindow, tcp_window.hh:30-44, and of the
\* packets pushed by tcp_backend.cc:257-263.
RecvTypeOK ==
    /\ rwnd \in RecvWindow
    /\ rbuf \in Buffer
    /\ returned \in Seq(Byte)
    /\ acks \in Seq([ack : Nat, wnd : 0..(BufferSize - 1)])
    /\ got \subseteq Nat

\* The round queues never overrun: what is read, what is acknowledged and
\* what was ever marked come in this order, unread bytes fit in buf, and what
\* is marked ahead of the acknowledgement fits in the ring of flags, so that
\* no cell stands for two positions (max_tail, tcp_window.hh:108-112).
RingsHold ==
    /\ rwnd.seq_front <= rwnd.seq_back
    /\ rwnd.seq_back <= rwnd.buf_back
    /\ rwnd.buf_back - rwnd.seq_front < BufferSize
    /\ rwnd.buf_back - rwnd.seq_back < RecvMaxAhead

\* Every byte before the acknowledgement number was taken from some segment,
\* and the one it names was not: push_tcp acknowledges what arrived, all of it
\* and nothing else, however segments overlap and the ring of flags wraps.
AckIsExact ==
    /\ \A p \in 0..(rwnd.seq_back - 1) : p \in got
    /\ rwnd.seq_back \notin got

\* The flags are those of the bytes taken ahead of the acknowledgement: a flag
\* left set by an earlier turn of the ring would acknowledge a byte that never
\* arrived (forward, tcp_window.hh:143-148).
FlagsAreExact ==
    rwnd.disorder = {p % RecvMaxAhead : p \in {q \in got : q >= rwnd.seq_back}}

\* The application has been given the bytes before seq_front, each once.
ReadOnce == Len(returned) = rwnd.seq_front

\* A Recv request waits only while there is nothing to read: data that
\* arrives wakes it (try_resolve_recv, tcp_backend.cc:145-156).
NoStarvedRecv == rwnd.wait # <<>> => rwnd.seq_front = rwnd.seq_back

\* What an acknowledgement promises is never taken back by a later one: the
\* right edge of the advertised window does not move left, nor does the
\* acknowledgement number.
PromiseKept ==
    /\ \A j \in 1..Len(acks), k \in 1..Len(acks) :
        j <= k => /\ acks[j].ack <= acks[k].ack
                  /\ acks[j].ack + acks[j].wnd <= acks[k].ack + acks[k].wnd
    /\ \A k \in 1..Len(acks) :
        /\ acks[k].ack <= rwnd.seq_back
        /\ acks[k].ack + acks[k].wnd <= rwnd.seq_front + BufferSize - 1
=============================================================================
