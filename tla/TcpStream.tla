----------------------------- MODULE TcpStream -----------------------------
(***************************************************************************)
(* One direction of a connection: the sending half of the TcpBackend of    *)
(* one router (TcpSend), the receiving half of the TcpBackend of another   *)
(* (TcpRecv), and the routers and links between them, which carry the      *)
(* packets in data and acks.                                               *)
(*                                                                         *)
(* The network is what click/network and click/test put between the        *)
(* routers: queues that drop when they are full (click/network/            *)
(* bdrouter.click), links that lose packets (lossy_net1.click) or delay    *)
(* them (delayed_net3.click).  A packet overtakes another only when the    *)
(* route changes between them.  TIMEOUT is a constant of the               *)
(* configuration, unrelated to the round trip.                             *)
(***************************************************************************)
EXTENDS TcpSend, TcpRecv

CONSTANTS
    Lossy,      \* packets may be lost
    Reordering, \* packets may overtake each other
    Impatient   \* the timer may fire while packets are on their way

ASSUME NetworkAssumption == {Lossy, Reordering, Impatient} \subseteq BOOLEAN

streamVars == <<sendVars, recvVars>>

StreamInit == SendInit /\ RecvInit

\* The packets of queue q that may come out next.
Arrivals(q) == 1..(IF Reordering THEN Len(q) ELSE Least(1, Len(q)))

\* A bound of the runs: the writer and the timer add packets only while fewer
\* than LinkCap are on their way, in both directions.
RoomOnLink == Len(data) + Len(acks) < LinkCap

-----------------------------------------------------------------------------
(* Steps of the sending side.                                              *)

AppWrites == RoomOnLink /\ Write /\ UNCHANGED recvVars

AppCloses == CloseCall /\ UNCHANGED recvVars

TimeOut ==
    /\ RoomOnLink
    /\ Impatient \/ (data = <<>> /\ acks = <<>>)
    /\ TimerFires
    /\ UNCHANGED recvVars

\* An acknowledgement reaches the sender.  Once the frontend has left
\* Established it keeps data acknowledgements for itself.
AckArrives ==
    /\ \E i \in Arrivals(acks) :
        /\ acks' = RemoveAt(acks, i)
        /\ IF sock = "Established" THEN PushAck(acks[i].ack, acks[i].wnd)
           ELSE ~ aborted /\ UNCHANGED sendVars
    /\ UNCHANGED <<rwnd, rbuf, returned, got>>

-----------------------------------------------------------------------------
(* Steps of the receiving side and of the network.                         *)

DataArrives ==
    /\ \E i \in Arrivals(data) :
        /\ data' = RemoveAt(data, i)
        /\ PushData(data[i].seq, Len(data[i].payload))
    /\ UNCHANGED <<swnd, sbuf, sock, asked, sent, wrapped, aborted>>

AppReads == Read /\ UNCHANGED sendVars

DataLost ==
    /\ Lossy
    /\ \E i \in Arrivals(data) : data' = RemoveAt(data, i)
    /\ UNCHANGED <<swnd, sbuf, sock, asked, sent, wrapped, aborted, recvVars>>

AckLost ==
    /\ Lossy
    /\ \E i \in Arrivals(acks) : acks' = RemoveAt(acks, i)
    /\ UNCHANGED <<rwnd, rbuf, returned, got, sendVars>>

StreamNext ==
    \/ AppWrites \/ AppCloses \/ TimeOut \/ AckArrives
    \/ DataArrives \/ AppReads \/ DataLost \/ AckLost

StreamSpec == StreamInit /\ [][StreamNext]_streamVars

TimerDue == RoomOnLink /\ swnd.timer = "armed" /\ ~ aborted
            /\ (Impatient \/ (data = <<>> /\ acks = <<>>))

\* Timers fire, links do not lose every packet, and the reader reads on, as
\* SocketServer::push does by scheduling its timer again: TimeOut and AppReads
\* are weakly fair, DataArrives and AckArrives strongly.  These are the
\* formulas WF and SF stand for, with what enables each action written out in
\* place of ENABLED, which costs TLC minutes for actions of this size.
FairStreamSpec ==
    /\ StreamSpec
    /\ []<> ~ TimerDue \/ []<><<TimeOut>>_streamVars
    /\ <>[](data = <<>>) \/ []<><<DataArrives>>_streamVars
    /\ <>[](acks = <<>> \/ aborted) \/ []<><<AckArrives>>_streamVars
    /\ []<>(Len(rwnd.wait) = MaxReads) \/ []<><<AppReads>>_streamVars

-----------------------------------------------------------------------------
(* Properties.                                                             *)

\* The sender takes for acknowledged only what the receiver has acknowledged:
\* it frees no byte of its buffer that still has to be sent
\* (tcp_backend.cc:168-191).
AckedIsReceived == swnd.seq_front <= rwnd.seq_back

\* Nothing is sent that the receiver has no room for (tcp_window.hh:80-88).
NoOverrun ==
    \A i \in 1..Len(data) :
        data[i].seq + Len(data[i].payload) <= rwnd.seq_front + BufferSize - 1

\* FIN is sent when everything the application asked to send has arrived
\* (tcp_backend.cc:228-234 and 332-335).
FinMeansDrained == sock = "Fin_Wait1" => rwnd.seq_back = asked /\ swnd.wait = <<>>

\* front() is never taken of an empty deque (tcp_backend.cc:287).
NeverAborts == ~ aborted

\* The bytes a reader gets are those the writer wrote.
ReadIsWritten ==
    \A k \in 1..Len(returned) : returned[k] = k - 1

\* What the application asked to send is read by the other one, through
\* losses, closed windows and probes.  Only the wrap of cwnd to 0
\* (tcp_backend.cc:206) may stop it.
Delivers ==
    \A n \in 1..MaxSeq : asked >= n ~> Len(returned) >= n \/ wrapped

\* A Close waiting for data to be acknowledged is carried out: the frontend is
\* told to send FIN (tcp_backend.cc:228-234).
CloseCompletes == swnd.fin ~> sock = "Fin_Wait1" \/ wrapped

\* The two halves and the network implement a pipe of bytes: a step of theirs
\* is one of the pipe or changes nothing there.
Pipe == INSTANCE BytePipe WITH
    Limit <- MaxSeq, put <- asked, arrived <- rwnd.seq_back,
    taken <- Len(returned), ended <- (sock = "Fin_Wait1")

ImplementsPipe == Pipe!PipeSpec
=============================================================================
