----------------------------- MODULE TcpClients -----------------------------
(***************************************************************************)
(* TcpFrontend with the programs that call it: SocketSender, which         *)
(* connects, sends Limit bytes and closes (src/src/socket_sender.cc),      *)
(* SocketServer, which accepts one connection after the other and reads it *)
(* (src/src/socket_server.cc), and SimpleSocket, the console from which a  *)
(* user makes any request (src/src/simple_socket.cc).                      *)
(*                                                                         *)
(* A client is a timer and a state: run_timer makes one request, push      *)
(* takes its answer.  An answer is pushed inside the call that causes it,  *)
(* so that it belongs to the same step: a request h had open and has no    *)
(* longer was answered, with Error when it is in failed.                   *)
(***************************************************************************)
EXTENDS TcpFrontend

CONSTANTS
    Senders,     \* the hosts whose client is a SocketSender
    Limit,       \* bytes a sender sends: LIMIT times the length of DATA
    Pattern,     \* the length of DATA
    Chunk,       \* BUFFER, the bytes of one Send
    ConsoleData  \* bound: Send requests of a console on a connection

ASSUME ClientsAssumption ==
    /\ Senders \subseteq Hosts
    /\ {Limit, ConsoleData} \subseteq Nat /\ {Pattern, Chunk} \subseteq Nat \ {0}

VARIABLES
    console,     \* the hosts with a SimpleSocket instead of their client
    client       \* client[h]: the client of host h

clientVars == <<host, wire, console, client>>

\* socket_sender.hh and socket_server.hh.  The server's own socket is id, the
\* one it serves id1.
ClientsInit ==
    /\ Init
    /\ console \in SUBSET Hosts
    /\ client = [h \in Hosts |-> [state |-> "Nothing", timer |-> h \notin console,
                                  id |-> 0, id1 |-> 0, offset |-> 0]]

-----------------------------------------------------------------------------
(* What a client asks for, and what it does with the answer.               *)

SenderAsks == [Nothing |-> "New", Start |-> "Connect", Writing |-> "Send",
               Closing |-> "Close"]
SenderDone == [Nothing |-> "Start", Start |-> "Writing", Writing |-> "Writing",
               Closing |-> "Start"]
SenderError == [Nothing |-> "Err", Start |-> "Closing", Writing |-> "Closing",
                Closing |-> "Start"]

ServerAsks == [Nothing |-> "New", Start |-> "Listen", Listened |-> "Accept",
               Reading |-> "Recv", Closing |-> "Close", AcceptClose |-> "Free"]

\* Seeded fault: the connection that is freed is read again.
FaultServerDone == [Nothing |-> "Start", Start |-> "Listened", Listened |-> "Reading",
                    Reading |-> "Reading", Closing |-> "AcceptClose",
                    AcceptClose |-> "Reading"]

ServerDone == [Nothing |-> "Start", Start |-> "Listened", Listened |-> "Reading",
               Reading |-> "Reading", Closing |-> "AcceptClose",
               AcceptClose |-> "Listened"]

\* Seeded fault: a Recv that fails is taken for a socket that is closed.
FaultServerError(state) ==
    IF state \in {"Reading", "Closing"} THEN "AcceptClose" ELSE "Err"

ServerError(state) ==
    CASE state = "Reading" -> "Closing"
      [] state = "Closing" -> "AcceptClose"
      [] OTHER -> "Err"

\* SocketSender::push.  After a Close nothing is left to do.
SenderPush(c, error, socket) ==
    IF error THEN [c EXCEPT !.state = SenderError[@], !.timer = c.state # "Nothing"]
    ELSE [c EXCEPT !.state = SenderDone[@], !.timer = c.state # "Closing",
                   !.id = IF c.state = "Nothing" THEN socket ELSE @,
                   !.offset = IF c.state = "Start" THEN 0 ELSE @]

\* SocketServer::push.
ServerPush(c, error, socket) ==
    IF error THEN [c EXCEPT !.state = ServerError(@), !.timer = ServerError(c.state) # "Err"]
    ELSE [c EXCEPT !.state = ServerDone[@], !.timer = TRUE,
                   !.id = IF c.state = "Nothing" THEN socket ELSE @,
                   !.id1 = IF c.state = "Listened" THEN socket ELSE @]

\* New and Accept answer with a socket.
Given(h) == Min((host'[h].owned \ host[h].owned) \cup {MaxSockets})

ClientPush(h, c, error) ==
    IF h \in Senders THEN SenderPush(c, error, Given(h)) ELSE ServerPush(c, error, Given(h))

\* Seeded fault: a rest that is as long as what is left does not count.
FaultSendNext(offset) ==
    LET len == Min({Chunk, Limit - offset})
    IN  IF offset % Pattern >= len THEN offset ELSE offset + len

\* send_next: where the next Send starts.  Of a position in DATA beyond what
\* is left to send, line 43 forgets the length it has just cleared.
SendNext(offset) ==
    LET len == Min({Chunk, Limit - offset})
    IN  IF offset % Pattern > len THEN offset ELSE offset + len

-----------------------------------------------------------------------------
(* A client's request.                                                     *)

Makes(h, method, i) ==
    \/ method = "New" /\ New(h)
    \/ method = "Listen" /\ Listen(h, i)
    \/ method = "Accept" /\ Accept(h, i)
    \/ method = "Connect" /\ Connect(h, i) /\ host'[h].sock[i].ip \notin Senders
    \/ method = "Send" /\ Send(h, i)
    \/ method = "Recv" /\ Recv(h, i)
    \/ method = "Close" /\ Close(h, i)
    \/ method = "Free" /\ Free(h, i)

\* The states in which push_socket does something for a request on a socket.
Takes == [Listen |-> {"Closed"}, Accept |-> {"Listening"}, Connect |-> {"Closed"},
          Send |-> {"Established"}, Recv |-> {"Established"}, Free |-> {"Closed"},
          Close |-> SocketStates \ {"Nil", "Closed"}]

Refused(h, method, i) ==
    IF method = "New" THEN \A port \in Ports : Bound(host[h], port) # {}
    ELSE State(host[h], i) \notin Takes[method]

\* The requests that are answered at once with Error: those refused but Close
\* on a closed socket, and Close where it resets.
FailsAtOnce(h, method, i) ==
    IF method = "Close"
    THEN State(host[h], i) \in {"Nil", "Syn_Rcvd", "Fin_Wait1", "Fin_Wait2",
                                "Closing", "Last_Ack"}
    ELSE Refused(h, method, i)

\* SocketSender waits 5 s before it starts, SocketServer does not
\* (socket03.click:11, 18): by then the server listens.
MayStart(h) ==
    h \in Senders /\ client[h].state = "Nothing" =>
        \A g \in Hosts \ (Senders \cup console) : client[g].state \notin {"Nothing", "Start"}

\* The sender's request at its limit is Close.
Turned(h) ==
    IF h \in Senders /\ client[h].state = "Writing" /\ client[h].offset >= Limit
    THEN "Closing" ELSE client[h].state

\* Seeded fault: the timer is set again for the case that no answer comes, as
\* in the lines 80 and 95 of socket_sender.cc that are commented out.
FaultAsked(h, method) == [client[h] EXCEPT
    !.state = Turned(h), !.timer = method \in {"Connect", "Close"},
    !.offset = IF method = "Send" THEN SendNext(@) ELSE @]

Asked(h, method) == [client[h] EXCEPT
    !.state = Turned(h), !.timer = FALSE,
    !.offset = IF method = "Send" THEN SendNext(@) ELSE @]

\* run_timer of the client of h, and push when the answer comes at once.
ClientTimer(h) ==
    LET c == client[h]
        method == IF h \in Senders THEN SenderAsks[Turned(h)] ELSE ServerAsks[c.state]
        i == IF h \in Senders \/ c.state \in {"Start", "Listened"} THEN c.id ELSE c.id1 IN
    /\ c.timer /\ MayStart(h)
    /\ \/ Makes(h, method, i)
       \/ ~ host[h].crashed /\ Refused(h, method, i) /\ UNCHANGED vars
    /\ client' = [client EXCEPT ![h] =
                      IF host'[h].open # {} THEN Asked(h, method)
                      ELSE ClientPush(h, Asked(h, method), FailsAtOnce(h, method, i))]
    /\ UNCHANGED console

-----------------------------------------------------------------------------
(* Everything else that happens, and push when it answers a client.        *)

Answered(h) == h \notin console /\ host[h].open # {} /\ host'[h].open = {}

Answers ==
    client' = [h \in Hosts |->
                  IF Answered(h) THEN ClientPush(h, client[h], host'[h].failed # {})
                  ELSE client[h]]

\* SimpleSocket::push with a line of the user.
Console(h) ==
    /\ AppStep(h)
    /\ \A i \in Ids : host'[h].tcb[i].sent + Len(host'[h].tcb[i].sendWait)
                          <= Max({ConsoleData, host[h].tcb[i].sent})

Elsewhere ==
    \/ \E h \in console : Console(h)
    \/ \E c \in Links : PacketArrives(c[1], c[2])
    \/ \E h \in Hosts, i \in Ids : TimeOut(h, i)
    \/ \E c \in Links : PacketLost(c)

ClientsNext ==
    \/ \E h \in Hosts : ClientTimer(h)
    \/ Elsewhere /\ Answers /\ UNCHANGED console

ClientsSpec == ClientsInit /\ [][ClientsNext]_clientVars

\* Links deliver, and timers fire; a user need not do anything.
FairClientsSpec ==
    /\ ClientsSpec
    /\ \A c \in Links : []<> ~ Deliverable(c) \/ []<><<PacketArrives(c[1], c[2])>>_vars
    /\ WF_clientVars(\E h \in Hosts : ClientTimer(h))

-----------------------------------------------------------------------------
(* Properties.                                                             *)

\* A client does not make a request while it waits for an answer, so that no
\* answer is taken for that of another request, not even when two requests
\* have the same number (socket_sender.cc:85, 108).
OneCallEach == \A h \in Hosts : client[h].timer => host[h].open = {}

\* Whatever the other side does, a user included, no client is told Error
\* where it expects none (socket_sender.cc:116, socket_server.cc:75).
NeverGivesUp == \A h \in Hosts : client[h].state # "Err"

\* Clients and users are an application as TcpFrontend has it: in whatever order
\* their calls are answered and connections end, they use sockets they were
\* given and have not freed, and listen only where no connection ever was
\* (socket_sender.cc:100-133, socket_server.cc:45-108).
ImplementsFrontend == Spec

\* A sender that has sent everything and a server that waits for the next
\* connection, with no socket left over but the two they started with.
Finished ==
    \A h \in Hosts :
        LET c == client[h]
            others == {i \in Ids \ {c.id} : State(host[h], i) # "Nil"} IN
        /\ others = {}
        /\ IF h \in Senders
           THEN c.state = "Start" /\ c.offset >= Limit /\ State(host[h], c.id) = "Closed"
           ELSE c.state = "Listened" /\ host[h].sock[c.id].acceptWait # <<>>

\* Sender and server come to an end: everything is sent and both sides are
\* closed, without the help of a user (socket_sender.cc:83-95,
\* socket_server.cc:70-104).
Finishes == console = {} ~> Finished
=============================================================================
