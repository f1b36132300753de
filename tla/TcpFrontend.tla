---------------------------- MODULE TcpFrontend ----------------------------
(***************************************************************************)
(* The socket state machine of every router, src/src/tcp_frontend.cc, with *)
(* the applications that call it, the links between the routers and, in    *)
(* place of TcpBackend, what the frontend sees of it: which connections it *)
(* keeps, what it has sent, acknowledged, received and handed out, counted *)
(* in messages.  TcpSend and TcpRecv model the backend byte by byte.       *)
(*                                                                         *)
(* TcpFrontend::push runs to completion, and so do the pushes it makes to  *)
(* TcpBackend and back: an action is a whole call.  A handler is written   *)
(* as the state s of the host it leaves behind, s.out being what it pushed *)
(* to output(0) on the way.                                                *)
(***************************************************************************)
EXTENDS Naturals, FiniteSets, Sequences, SequencesExt, FiniteSetsExt

CONSTANTS
    Hosts,     \* the routers
    Ports,     \* the port numbers applications use
    Methods,   \* Methods[h]: the requests the application of h makes
    Lossy,     \* packets may be lost
    MaxSockets,\* bound: sockets of a host; the source grows the vector
    MaxOpen,   \* bound: requests a host's application leaves unanswered
    MaxData,   \* bound: Send requests on a connection
    Buffer,    \* unacknowledged messages a backend buffers
    LinkCap    \* bound: packets on a link when a host adds one by itself

ASSUME BoundsAssumption ==
    {MaxSockets, MaxOpen, MaxData, Buffer, LinkCap} \subseteq Nat

VARIABLES
    host,      \* host[h]: the sockets and the backend of router h
    wire       \* wire[<<g, h>>]: the packets on their way from g to h

vars == <<host, wire>>

Ids == 0..(MaxSockets - 1)
Requests == 1..MaxOpen
Null == 0          \* no request in connectWait or closeWait
Nowhere == "0.0.0.0"

\* The address of an empty slot is no router's.
ASSUME HostsAssumption == Nowhere \notin Hosts
\* TcpSocket, tcp_socket.hh:24-33.  A slot that was never used is all zeroes.
EmptySocket ==
    [state |-> "Nil", ip |-> Nowhere, sport |-> 0, dport |-> 0,
     listenWait |-> <<>>, acceptWait |-> <<>>, connectWait |-> Null, closeWait |-> Null]

\* What the frontend can tell of TcpBlock: live while its timer exists, fin
\* while a Close waits, messages sent and acknowledged, received and read,
\* and the Recv and Send requests that wait.
EmptyBlock == [live |-> FALSE, fin |-> FALSE, sent |-> 0, acked |-> 0,
               rcvd |-> 0, read |-> 0, wait |-> <<>>, sendWait |-> <<>>]

\* size is tcb.size(); open holds the requests of the application that were
\* not answered, failed those that the last call answered with Error, and
\* owned the sockets it was given and has not freed; crashed: an access out of
\* a vector's range or through a null pointer.
EmptyHost == [sock |-> [i \in Ids |-> EmptySocket],
              tcb |-> [i \in Ids |-> EmptyBlock], size |-> 0,
              open |-> {}, failed |-> {}, owned |-> {}, crashed |-> FALSE, out |-> <<>>]

Init == /\ host = [h \in Hosts |-> EmptyHost]
        /\ wire = [c \in Hosts \X Hosts |-> <<>>]

-----------------------------------------------------------------------------
(* Helpers of the frontend, on the state s of a host.                      *)

State(s, i) == s.sock[i].state
Goto(s, i, state) == [s EXCEPT !.sock[i].state = state]

\* Seeded fault: find_bind_socket called with listen left at its default.
FaultBound(s, port) == {i \in Ids : s.sock[i].sport = port /\ State(s, i) = "Listening"}

\* find_socket, find_bind_socket and find_empty_socket return the first of:
Connected(s, ip, sport, dport) ==
    {i \in Ids : /\ s.sock[i].ip = ip /\ s.sock[i].sport = sport
                 /\ s.sock[i].dport = dport /\ State(s, i) \notin {"Nil", "Closed"}}
Bound(s, port) == {i \in Ids : s.sock[i].sport = port /\ State(s, i) # "Nil"}
Listeners(s, port) == {i \in Bound(s, port) : State(s, i) = "Listening"}
Unused(s) == {i \in Ids : State(s, i) = "Nil"}

\* A packet without data: flag to peer ip.
Push(s, ip, sport, dport, flag, n) ==
    [s EXCEPT !.out = Append(@, [to |-> ip, sport |-> sport, dport |-> dport,
                                 flag |-> flag, n |-> n])]
SendShort(s, i, flag) ==
    Push(s, s.sock[i].ip, s.sock[i].sport, s.sock[i].dport, flag, 0)

\* send_return: the application gets its answer.
SendReturn(s, r) ==
    IF r = Null THEN [s EXCEPT !.crashed = TRUE] ELSE [s EXCEPT !.open = @ \ {r}]
Fail(s, calls) ==
    [s EXCEPT !.open = @ \ calls, !.failed = @ \cup (calls \cap s.open)]
ReturnClose(s, i) ==
    [SendReturn(s, s.sock[i].closeWait) EXCEPT !.sock[i].closeWait = Null]
ReturnConnect(s, i) ==
    [SendReturn(s, s.sock[i].connectWait) EXCEPT !.sock[i].connectWait = Null]

-----------------------------------------------------------------------------
(* The backend, as far as the frontend can tell.                           *)

\* Seeded fault: the vector is resized to i entries.
FaultBackEstablish(s, i) ==
    [s EXCEPT !.tcb[i] = [EmptyBlock EXCEPT !.live = TRUE],
              !.size = IF @ > i THEN @ ELSE i]

\* Seeded fault: the window keeps what was acknowledged on it before.
FaultInit(s, i) ==
    [s EXCEPT !.tcb[i] = [EmptyBlock EXCEPT !.live = TRUE, !.acked = s.tcb[i].acked],
              !.size = IF @ > i THEN @ ELSE i + 1]

\* back_establish, TcpBackend::build_link.
BackEstablish(s, i) ==
    [s EXCEPT !.tcb[i] = [EmptyBlock EXCEPT !.live = TRUE],
              !.size = IF @ > i THEN @ ELSE i + 1]

\* back_close with Free, TcpBackend::clean_link: waiting requests are answered
\* with Error.  Nothing says the connection was ever built: tcb[i] may be out
\* of range.
BackFree(s, i) ==
    IF i >= s.size THEN [s EXCEPT !.crashed = TRUE]
    ELSE [Fail(s, Range(s.tcb[i].wait \o s.tcb[i].sendWait)) EXCEPT
              !.tcb[i].live = FALSE, !.tcb[i].wait = <<>>, !.tcb[i].sendWait = <<>>]

\* The backend tells the frontend, on input 2, that FIN may be sent.
CompleteClose(s, i) == SendShort(Goto(s, i, "Fin_Wait1"), i, "Fin")

\* back_close with Close: at once when all is acknowledged, else later.
BackClose(s, i) ==
    IF s.tcb[i].acked = s.tcb[i].sent THEN CompleteClose(s, i)
    ELSE [s EXCEPT !.tcb[i].fin = TRUE]

PushMessage(s, i, n) ==
    Push(s, s.sock[i].ip, s.sock[i].sport, s.sock[i].dport, "Syn", n)

\* Seeded fault: waiting Recv requests are resolved on duplicates too.
FaultBackData(s, i, n) ==
    LET b == s.tcb[i]
        inOrder == n = b.rcvd + 1
        wakes == b.wait # <<>>
        kept == [b EXCEPT !.rcvd = IF inOrder THEN n ELSE @,
                          !.read = IF wakes THEN @ + 1 ELSE @,
                          !.wait = IF wakes THEN Tail(@) ELSE @]
        t == [s EXCEPT !.tcb[i] = kept,
                       !.open = IF wakes THEN @ \ {Head(b.wait)} ELSE @]
    IN  Push(t, s.sock[i].ip, s.sock[i].sport, s.sock[i].dport, "Ack", kept.rcvd)

\* A message in order is kept, and given to a Recv that waits for it; whatever
\* arrives is answered with what was received so far.
BackData(s, i, n) ==
    LET b == s.tcb[i]
        inOrder == n = b.rcvd + 1
        wakes == inOrder /\ b.wait # <<>>
        kept == [b EXCEPT !.rcvd = IF inOrder THEN n ELSE @,
                          !.read = IF wakes THEN @ + 1 ELSE @,
                          !.wait = IF wakes THEN Tail(@) ELSE @]
        t == [s EXCEPT !.tcb[i] = kept,
                       !.open = IF wakes THEN @ \ {Head(b.wait)} ELSE @]
    IN  Push(t, s.sock[i].ip, s.sock[i].sport, s.sock[i].dport, "Ack", kept.rcvd)

\* A Send is buffered, sent and answered.
Buffered(s, i, r) ==
    LET n == s.tcb[i].sent + 1
    IN  PushMessage([s EXCEPT !.open = @ \ {r}, !.tcb[i].sent = n], i, n)

HasRoom(b) == b.sent < b.acked + Buffer

\* try_resolve_send on r, the first Send that waits ...
ResolveSend(s, i, r) ==
    IF HasRoom(s.tcb[i])
    THEN [Buffered(s, i, r) EXCEPT !.tcb[i].sendWait = Tail(@)]
    ELSE s

\* ... and on all that wait.
ResolveSends(s, i) ==
    LET waiting == s.tcb[i].sendWait
        upTo[k \in 0..Len(waiting)] ==
            IF k = 0 THEN s ELSE ResolveSend(upTo[k - 1], i, waiting[k])
    IN  upTo[Len(waiting)]

BackAck(s, i, n) ==
    LET b == s.tcb[i]
        t == ResolveSends([s EXCEPT !.tcb[i].acked = n], i)
    IN  IF n <= b.acked THEN s
        ELSE IF b.fin /\ n = t.tcb[i].sent THEN CompleteClose(BackFree(t, i), i)
        ELSE t

-----------------------------------------------------------------------------
(* Resetting.                                                              *)

\* Seeded fault: an answered request stays in connectWait.
FaultFreeCalls(s, i) ==
    [Fail(s, {s.sock[i].connectWait, s.sock[i].closeWait} \cup Range(s.sock[i].acceptWait))
        EXCEPT !.sock[i].closeWait = Null, !.sock[i].acceptWait = <<>>]

\* free_wait: the calls that wait on socket i are answered with Error ...
FreeCalls(s, i) ==
    [Fail(s, {s.sock[i].connectWait, s.sock[i].closeWait} \cup Range(s.sock[i].acceptWait))
        EXCEPT !.sock[i].connectWait = Null, !.sock[i].closeWait = Null,
               !.sock[i].acceptWait = <<>>]

\* Seeded fault: connections nobody accepted are freed without RST.
FaultResetQueued(s, i) ==
    LET t == IF State(s, i) \in {"Listening", "Closed"} THEN s
             ELSE BackFree(FreeCalls(s, i), i)
    IN  Goto(t, i, "Nil")

\* ... and the connections nobody accepted are reset and freed.  These have
\* no such connections themselves.
ResetQueued(s, i) ==
    LET r == SendShort(s, i, "Rst")
        t == IF State(s, i) \in {"Listening", "Closed"} THEN r
             ELSE BackFree(FreeCalls(r, i), i)
    IN  Goto(t, i, "Nil")

ResetAll(s, queue) ==
    LET upTo[k \in 0..Len(queue)] ==
            IF k = 0 THEN s ELSE ResetQueued(upTo[k - 1], queue[k])
    IN  upTo[Len(queue)]

FreeWait(s, i) ==
    [ResetAll(FreeCalls(s, i), s.sock[i].listenWait) EXCEPT !.sock[i].listenWait = <<>>]

\* reset_socket, after the RST it may send.
ResetSocket(s, i) ==
    IF State(s, i) \in {"Listening", "Closed"} THEN s
    ELSE BackFree(FreeWait(Goto(s, i, "Closed"), i), i)

-----------------------------------------------------------------------------
(* Requests of the application.  Those the source answers at once with     *)
(* Error, or that change nothing, are not steps: New on a port in use,     *)
(* requests on a socket in the wrong state, Close on a closed socket.      *)

\* What h pushed to output(0) goes on the links; w is the wire it found.
Leaves(h, w, s) ==
    /\ host' = [host EXCEPT ![h] = [s EXCEPT !.out = <<>>, !.failed = @ \ host[h].failed]]
    /\ wire' = [c \in Hosts \X Hosts |->
                    IF c[1] # h THEN w[c]
                    ELSE w[c] \o SelectSeq(s.out, LAMBDA p : p.to = c[2])]

\* A bound of the runs: a host starts something only while few
\* packets are on its links.
RoomOnLinks(h) ==
    \A g \in Hosts : Len(wire[<<h, g>>]) + Len(wire[<<g, h>>]) < LinkCap

Calls(h, method) ==
    /\ method \in Methods[h] /\ ~ host[h].crashed
    /\ host[h].open # Requests /\ RoomOnLinks(h)

\* A request that is not answered at once gets a number until it is.
Request(h) == Min(Requests \ host[h].open)
Asks(h) == [host[h] EXCEPT !.open = @ \cup {Request(h)}]

New(h) ==
    LET s == host[h]
        i == Min(Unused(s)) IN
    /\ Calls(h, "New") /\ Unused(s) # {}
    /\ \E port \in Ports :
        /\ Bound(s, port) = {}
        /\ Leaves(h, wire, [Goto(s, i, "Closed") EXCEPT !.sock[i].sport = port,
                                                        !.owned = @ \cup {i}])

Listen(h, i) ==
    /\ Calls(h, "Listen") /\ State(host[h], i) = "Closed"
    /\ Leaves(h, wire, Goto(host[h], i, "Listening"))

\* queue_accept
Accept(h, i) ==
    LET s == host[h]
        queue == s.sock[i].listenWait IN
    /\ Calls(h, "Accept") /\ State(s, i) = "Listening"
    /\ \/ /\ queue = <<>>
          /\ Leaves(h, wire, [Asks(h) EXCEPT !.sock[i].acceptWait = Append(@, Request(h))])
       \/ /\ queue # <<>>
          /\ Leaves(h, wire, [s EXCEPT !.sock[i].listenWait = Tail(@),
                                       !.owned = @ \cup {Head(queue)}])

Connect(h, i) ==
    /\ Calls(h, "Connect") /\ State(host[h], i) = "Closed"
    /\ \E ip \in Hosts \ {h}, port \in Ports :
        Leaves(h, wire,
            SendShort([Goto(Asks(h), i, "Syn_Sent") EXCEPT
                          !.sock[i].ip = ip, !.sock[i].dport = port,
                          !.sock[i].connectWait = Request(h)], i, "Syn"))

Send(h, i) ==
    LET b == host[h].tcb[i] IN
    /\ Calls(h, "Send") /\ State(host[h], i) = "Established"
    /\ b.sent + Len(b.sendWait) < MaxData
    /\ \/ HasRoom(b) /\ Leaves(h, wire, Buffered(host[h], i, Request(h)))
       \/ /\ ~ HasRoom(b)
          /\ Leaves(h, wire, [Asks(h) EXCEPT !.tcb[i].sendWait = Append(@, Request(h))])

Recv(h, i) ==
    LET b == host[h].tcb[i] IN
    /\ Calls(h, "Recv") /\ State(host[h], i) = "Established"
    /\ \/ /\ b.read < b.rcvd
          /\ Leaves(h, wire, [host[h] EXCEPT !.tcb[i].read = @ + 1])
       \/ /\ b.read = b.rcvd
          /\ Leaves(h, wire, [Asks(h) EXCEPT !.tcb[i].wait = Append(@, Request(h))])

\* Close on a socket where it has to wait replaces the closeWait of an
\* earlier Close.
Close(h, i) ==
    LET s == host[h]
        waiting == [Asks(h) EXCEPT !.sock[i].closeWait = Request(h)] IN
    /\ Calls(h, "Close")
    /\ \/ /\ State(s, i) \in {"Syn_Sent", "Listening"}
          /\ Leaves(h, wire, Goto(FreeWait(s, i), i, "Closed"))
       \/ /\ State(s, i) = "Established"
          /\ Leaves(h, wire, BackClose(waiting, i))
       \/ /\ State(s, i) = "Close_Wait"
          /\ Leaves(h, wire, SendShort(BackFree(Goto(waiting, i, "Last_Ack"), i), i, "Fin"))
       \/ /\ State(s, i) \in {"Syn_Rcvd", "Fin_Wait1", "Fin_Wait2", "Closing", "Last_Ack"}
          /\ Leaves(h, wire, ResetSocket(SendShort(s, i, "Rst"), i))

Free(h, i) ==
    /\ Calls(h, "Free") /\ State(host[h], i) = "Closed"
    /\ Leaves(h, wire, [Goto(host[h], i, "Nil") EXCEPT !.owned = @ \ {i}])

\* An application uses the sockets it was given.  It is assumed to listen
\* only on a slot that was never a connection: New and Listen leave dst_ip and
\* dst_port as they were, and find_socket would take the listening socket for
\* the connection it was (tcp_frontend.cc:20-22, 154-156, 181).
NeverConnected(h, i) == host[h].sock[i].ip = Nowhere

AppStep(h) ==
    \/ New(h)
    \/ \E i \in host[h].owned :
        \/ NeverConnected(h, i) /\ Listen(h, i)
        \/ Accept(h, i) \/ Connect(h, i)
        \/ Send(h, i) \/ Recv(h, i) \/ Close(h, i) \/ Free(h, i)

-----------------------------------------------------------------------------
(* Packets from the network, push_tcp.  p has come from g to h; w is the   *)
(* wire without it.  Combinations of flag and state that are not listed    *)
(* drop the packet.  No router of this repository sends FIN with ACK.      *)

OnRst(h, i, w) == Leaves(h, w, ResetSocket(host[h], i))

\* Seeded fault: the Connect is not answered.
FaultOnSynAck(h, i, w) ==
    LET s == host[h] IN
    /\ State(s, i) = "Syn_Sent"
    /\ Leaves(h, w, SendShort(BackEstablish(Goto(s, i, "Established"), i), i, "Ack"))

OnSynAck(h, i, w) ==
    LET s == host[h] IN
    /\ State(s, i) = "Syn_Sent"
    /\ Leaves(h, w, SendShort(ReturnConnect(BackEstablish(Goto(s, i, "Established"), i), i),
                              i, "Ack"))

\* create_accept: a new socket for the caller g, port dport.
OnSyn(h, i, g, p, w) ==
    LET s == host[h]
        child == Min(Unused(s))
        created == [s EXCEPT !.sock[child] =
                        [@ EXCEPT !.state = "Syn_Rcvd", !.ip = g,
                                  !.sport = s.sock[i].sport, !.dport = p.sport]] IN
    \/ State(s, i) = "Established" /\ Leaves(h, w, BackData(s, i, p.n))
    \/ /\ State(s, i) = "Listening" /\ Unused(s) # {}
       /\ Leaves(h, w, SendShort(created, child, "SynAck"))

OnFin(h, i, w) ==
    LET s == host[h] IN
    \/ /\ State(s, i) = "Established"
       /\ Leaves(h, w, BackFree(SendShort(Goto(s, i, "Close_Wait"), i, "Ack"), i))
    \/ /\ State(s, i) = "Fin_Wait1"
       /\ Leaves(h, w, SendShort(Goto(s, i, "Closing"), i, "Ack"))
    \/ /\ State(s, i) = "Fin_Wait2"
       /\ Leaves(h, w, SendShort(ReturnClose(Goto(s, i, "Closed"), i), i, "Ack"))

\* queue_listen: connection i of listener l waits for an Accept, or meets one
\* that waits.
QueueListen(s, l, i) ==
    LET calls == s.sock[l].acceptWait IN
    IF calls = <<>> THEN [s EXCEPT !.sock[l].listenWait = Append(@, i)]
    ELSE [s EXCEPT !.sock[l].acceptWait = Tail(@), !.open = @ \ {Head(calls)},
                   !.owned = @ \cup {i}]

OnAck(h, i, p, w) ==
    LET s == host[h]
        listeners == Listeners(s, s.sock[i].sport) IN
    \/ State(s, i) = "Established" /\ Leaves(h, w, BackAck(s, i, p.n))
    \/ /\ State(s, i) = "Syn_Rcvd" /\ listeners = {}
       /\ Leaves(h, w, ResetSocket(SendShort(s, i, "Rst"), i))
    \/ /\ State(s, i) = "Syn_Rcvd" /\ listeners # {}
       /\ Leaves(h, w, QueueListen(BackEstablish(Goto(s, i, "Established"), i),
                                   Min(listeners), i))
    \/ /\ State(s, i) = "Fin_Wait1"
       /\ Leaves(h, w, Goto(s, i, "Fin_Wait2"))
    \/ /\ State(s, i) \in {"Closing", "Last_Ack"}
       /\ Leaves(h, w, ReturnClose(Goto(s, i, "Closed"), i))

\* The states that do something with a packet of each flag.
Expects(flag) ==
    CASE flag = "Rst" -> {"Closed", "Listening", "Syn_Rcvd", "Syn_Sent", "Established",
                          "Fin_Wait1", "Fin_Wait2", "Closing", "Close_Wait", "Last_Ack"}
      [] flag = "SynAck" -> {"Syn_Sent"}
      [] flag = "Syn" -> {"Established", "Listening"}
      [] flag = "Fin" -> {"Established", "Fin_Wait1", "Fin_Wait2"}
      [] flag = "Ack" -> {"Established", "Syn_Rcvd", "Fin_Wait1", "Closing", "Last_Ack"}

Without(c) == [wire EXCEPT ![c] = Tail(@)]

PacketArrives(g, h) ==
    LET c == <<g, h>>
        p == Head(wire[c])
        s == host[h]
        connected == Connected(s, g, p.dport, p.sport)
        found == IF connected # {} THEN connected ELSE Listeners(s, p.dport)
        i == Min(found)
        w == Without(c) IN
    /\ wire[c] # <<>> /\ ~ s.crashed
    /\ \/ /\ found = {}
          /\ Leaves(h, w, IF p.flag = "Rst" THEN s
                          ELSE Push(s, g, p.dport, p.sport, "Rst", 0))
       \/ /\ found # {} /\ State(s, i) \notin Expects(p.flag)
          /\ Leaves(h, w, s)
       \/ found # {} /\ p.flag = "Rst" /\ OnRst(h, i, w)
       \/ found # {} /\ p.flag = "SynAck" /\ OnSynAck(h, i, w)
       \/ found # {} /\ p.flag = "Syn" /\ OnSyn(h, i, g, p, w)
       \/ found # {} /\ p.flag = "Fin" /\ OnFin(h, i, w)
       \/ found # {} /\ p.flag = "Ack" /\ OnAck(h, i, p, w)

-----------------------------------------------------------------------------
(* The backend's timer and the links.                                      *)

\* The first message not acknowledged is sent again, however long it is out.
TimeOut(h, i) ==
    LET b == host[h].tcb[i] IN
    /\ ~ host[h].crashed /\ b.live /\ b.acked < b.sent
    /\ RoomOnLinks(h)
    /\ Leaves(h, wire, PushMessage(host[h], i, b.acked + 1))

PacketLost(c) ==
    /\ Lossy /\ wire[c] # <<>>
    /\ wire' = Without(c)
    /\ UNCHANGED host

Links == {c \in Hosts \X Hosts : c[1] # c[2]}

Next ==
    \/ \E h \in Hosts : AppStep(h)
    \/ \E c \in Links : PacketArrives(c[1], c[2])
    \/ \E h \in Hosts, i \in Ids : TimeOut(h, i)
    \/ \E c \in Links : PacketLost(c)

Spec == Init /\ [][Next]_vars

\* Links deliver what is on them.  Deliverable is what enables PacketArrives
\* (MaxSockets may keep a new connection from being made); the formulas are
\* those of WF with it in place of ENABLED, which costs TLC minutes here.
Deliverable(c) == wire[c] # <<>> /\ ~ host[c[2]].crashed /\ Unused(host[c[2]]) # {}

FairSpec ==
    /\ Spec
    /\ \A c \in Links : []<> ~ Deliverable(c) \/ []<><<PacketArrives(c[1], c[2])>>_vars

-----------------------------------------------------------------------------
(* Properties.                                                             *)

SocketStates == {"Nil", "Closed", "Listening", "Syn_Rcvd", "Syn_Sent", "Established",
                 "Fin_Wait1", "Fin_Wait2", "Closing", "Close_Wait", "Last_Ack"}

\* The state has the shape of TcpSocket, tcp_socket.hh:16-33.
TypeOK ==
    \A h \in Hosts :
        /\ host[h].open \subseteq Requests /\ host[h].failed \subseteq Requests
        /\ host[h].owned \subseteq Ids
        /\ host[h].size \in 0..MaxSockets /\ host[h].out = <<>>
        /\ \A i \in Ids :
            /\ host[h].sock[i].state \in SocketStates
            /\ host[h].sock[i].ip \in Hosts \cup {Nowhere}
            /\ host[h].sock[i].listenWait \in Seq(Ids)
            /\ {host[h].sock[i].connectWait, host[h].sock[i].closeWait}
                   \subseteq Requests \cup {Null}
            /\ host[h].sock[i].acceptWait \in Seq(Requests)
            /\ host[h].tcb[i].read <= host[h].tcb[i].rcvd

\* What is acknowledged on a connection was sent on it, not on an earlier one
\* between the same ports: sequence numbers start from 0 on each
\* (TcpBackend::build_link, tcp_backend.cc:16-27).
AckedIsSent ==
    \A h \in Hosts, i \in Ids : host[h].tcb[i].acked <= host[h].tcb[i].sent


\* The requests that are held for socket i, to be answered later.
Held(h, i) ==
    LET k == host[h].sock[i] IN
    <<k.connectWait, k.closeWait>> \o k.acceptWait
        \o host[h].tcb[i].wait \o host[h].tcb[i].sendWait

\* Every request left unanswered is held in exactly one place, and nothing
\* else is: none is lost, none is answered twice.
RequestsHeld ==
    \A h \in Hosts : ~ host[h].crashed =>
        LET places == {c \in Ids \X (1..(2 + 3 * MaxOpen)) :
                          c[2] <= Len(Held(h, c[1])) /\ Held(h, c[1])[c[2]] # Null}
        IN  /\ Cardinality(places) = Cardinality(host[h].open)
            /\ {Held(h, c[1])[c[2]] : c \in places} = host[h].open

\* An open connection has a backend that was built for it and not cleaned
\* since: what the frontend forwards reaches a live TcpBlock.
OpenHasBackend ==
    \A h \in Hosts, i \in Ids :
        ~ host[h].crashed /\ State(host[h], i) = "Established"
            => i < host[h].size /\ host[h].tcb[i].live

\* Two sockets of a host never stand for the same connection, so that
\* find_socket finds the one a packet is for.
OneSocketEach ==
    \A h \in Hosts, i \in Ids, j \in Ids :
        LET s == host[h] IN
        i # j /\ {State(s, i), State(s, j)} \cap {"Nil", "Closed", "Listening"} = {} =>
            j \notin Connected(s, s.sock[i].ip, s.sock[i].sport, s.sock[i].dport)

\* clean_link is only called on a connection that was built (tcp_frontend.cc:143,
\* tcp_backend.cc:30), and an answer is only sent to a request that was made.
NeverCrashes == \A h \in Hosts : ~ host[h].crashed

\* While no packet is lost, an open connection is open or being opened on the
\* other side too, or the news that it is not is on the way (the RST and
\* FIN of tcp_frontend.cc:138, 247 and 449).
PeersAgree ==
    \A h \in Hosts, i \in Ids :
        LET k == host[h].sock[i] IN
        State(host[h], i) = "Established" /\ ~ host[k.ip].crashed =>
            \/ Connected(host[k.ip], h, k.dport, k.sport) # {}
            \/ \E n \in 1..Len(wire[<<k.ip, h>>]) :
                LET p == wire[<<k.ip, h>>][n] IN
                p.flag \in {"Rst", "Fin"} /\ p.sport = k.dport /\ p.dport = k.sport

SomeCrash == \E h \in Hosts : host[h].crashed
SomeFull == \E h \in Hosts : Unused(host[h]) = {}

\* While no packet is lost, a Connect is answered, with success or with Error
\* (tcp_frontend.cc:195-207, 307-332 and 110-114).
ConnectAnswered ==
    \A h \in Hosts, i \in Ids :
        host[h].sock[i].connectWait # Null ~>
            host[h].sock[i].connectWait = Null \/ SomeCrash \/ SomeFull
=============================================================================
