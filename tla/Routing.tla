------------------------------ MODULE Routing -------------------------------
(***************************************************************************)
(* A network of routers as click/test/ip03.click builds them: in each an   *)
(* InfraFrontend that notes the port a packet came in by, an IpFrontend, an *)
(* LspFrontend that finds its neighbours and floods announcements, an      *)
(* LspBackend that computes paths (LspRoutes), and an InfraBackend.  Click  *)
(* pushes a packet through all of them but the LspBackend in one call, so a *)
(* step of a router is one packet, one timer or one task.  A wire delivers  *)
(* in the order sent; a router whose power is off passes no packets, but   *)
(* its timers and its task run (ip03_shutdown.click).                      *)
(***************************************************************************)
EXTENDS LspRoutes

CONSTANTS
    Peers,       \* Peers[r]: the routers at the ports of r
    Switchable,  \* the routers that may be shut down
    Senders,     \* pairs <<r, s>>: r sends datagrams to s (ip03_sender.click)
    MaxSequence, \* bound: announcements of a router
    MaxFaults,   \* bound: how often power is switched or a router announces
                 \* before all answers are in, over all routers
    MaxSent,     \* bound: datagrams sent
    MaxAtOnce    \* bound: routers that make a round at the same time

ASSUME RoutingAssumption ==
    /\ Switchable \subseteq Routers /\ Senders \subseteq Routers \X Routers
    /\ {MaxSequence, MaxFaults, MaxSent, MaxAtOnce} \subseteq Nat
    /\ \A r \in Routers :
        /\ Peers[r] \in Seq(Routers \ {r})
        /\ Cardinality(Range(Peers[r])) = Len(Peers[r])
        /\ \A s \in Range(Peers[r]) : r \in Range(Peers[s])

VARIABLES
    front,     \* front[r]: the LspFrontend
    back,      \* back[r]: the LspBackend
    power,     \* power[r]: InfraFrontend and InfraBackend are on
    wire,      \* wire[<<r, s>>]: packets on the way from r to s
    announced, \* history: announced[r] is all that r announced
    fresh,     \* history: how much of a round r made since power was switched
    faults, sent,  \* how much of the bounds is used
    due        \* history: datagrams sent over settled routes, on their way

vars == <<front, back, power, wire, announced, fresh, faults, sent, due>>

Links == {l \in Routers \X Routers : l[2] \in Range(Peers[l[1]])}

\* The port of r that s is at.
PortOf(r, s) == CHOOSE i \in DOMAIN Peers[r] : Peers[r][i] = s

\* ip_packet.hh: a packet starts with the full TTL.
Hello(r) == [type |-> "Hello", src |-> r, ttl |-> TTL]
Ack(r) == [type |-> "Ack", src |-> r, ttl |-> TTL]
Sequence(r, n, l) == [type |-> "Sequence", src |-> r, ttl |-> TTL, sequence |-> n, entry |-> l]
Data(r, s) == [type |-> "Data", src |-> r, dst |-> s, ttl |-> TTL]

RoutingInit ==
    /\ front = [r \in Routers |->
          [state |-> "Sleep", sequence |-> 0, portInfo |-> <<>>,
           sequenceInfo |-> [s \in Routers |-> 0]]]
    /\ back = [r \in Routers |-> EmptyBack]
    /\ power = [r \in Routers |-> TRUE]
    /\ wire = [l \in Links |-> <<>>]
    /\ announced = [r \in Routers |-> <<>>]
    /\ fresh = [r \in Routers |-> "no"]
    /\ faults = 0 /\ sent = 0 /\ due = {}

\* InfraBackend::push: wires w with p sent by r to the routers in S.
Pushed(w, r, S, p) ==
    IF power[r]
    THEN [l \in Links |-> IF l[1] = r /\ l[2] \in S THEN Append(w[l], p) ELSE w[l]]
    ELSE w

\* Seeded fault: the last port is left out.
FaultBroadcast(w, r, p) == Pushed(w, r, Range(Front(Peers[r])), p)

Broadcast(w, r, p) == Pushed(w, r, Range(Peers[r]), p)

-----------------------------------------------------------------------------
(* Timers.                                                                 *)

OnTheWay == UNION {Range(wire[l]) : l \in Links}

\* Something that r's last timer started is still on its way.
Waits(r) ==
    \/ \E p \in OnTheWay : p.src = r /\ p.type \in {"Hello", "Sequence"}
    \/ \E s \in Range(Peers[r]) : \E p \in Range(wire[<<s, r>>]) : p.type = "Ack"
    \/ \E s \in Routers : \E a \in Range(back[s].que) : a.ip = r

\* Seeded fault: the neighbours found before are kept.
FaultForgotten(info) == info

\* The neighbour table at the start of a round.
Forgotten(info) == <<>>

\* LspFrontend::run_timer in Sleep: INTERVAL (10 s) is long against a wire
\* (0.2 s, delayed_net3.click).
Discover(r) ==
    /\ front[r].state = "Sleep" /\ front[r].sequence < MaxSequence
    /\ ~Waits(r)
    /\ Cardinality({s \in Routers : front[s].state = "WaitAck" \/ Waits(s)}) < MaxAtOnce
    /\ front' = [front EXCEPT ![r].state = "WaitAck", ![r].portInfo = Forgotten(@)]
    /\ wire' = Broadcast(wire, r, Hello(r))
    /\ fresh' = [fresh EXCEPT ![r] = "discovers"]
    /\ UNCHANGED <<back, power, announced, faults, sent, due>>

\* LspFrontend::run_timer in WaitAck: TIMEOUT (1 s) may be short.  A router that
\* announces early has a round left, to find whom it missed.
Announce(r) ==
    /\ front[r].state = "WaitAck"
    /\ IF Waits(r)
       THEN /\ faults < MaxFaults /\ front[r].sequence + 1 < MaxSequence
            /\ faults' = faults + 1
            /\ fresh' = [fresh EXCEPT ![r] = "no"]
       ELSE /\ fresh' = [fresh EXCEPT ![r] = IF @ = "discovers" THEN "yes" ELSE @]
            /\ UNCHANGED faults
    /\ LET f == front[r]
           p == Sequence(r, f.sequence + 1, f.portInfo)
       IN  /\ front' = [front EXCEPT ![r].state = "Sleep", ![r].sequence = p.sequence]
           /\ back' = [back EXCEPT ![r] = Queue(@, [ip |-> r, entry |-> p.entry])]
           /\ wire' = Broadcast(wire, r, p)
           /\ announced' = [announced EXCEPT ![r] = Append(@, p.entry)]
    /\ UNCHANGED <<power, sent, due>>

\* InfraAsync::run_task
RunTask(r) ==
    /\ back[r].scheduled
    /\ back' = [back EXCEPT ![r] = TaskRun(@, r)]
    /\ UNCHANGED <<front, power, wire, announced, fresh, faults, sent, due>>

-----------------------------------------------------------------------------
(* Packets.                                                                *)

Taken(s, r) == [wire EXCEPT ![<<s, r>>] = Tail(@)]

\* p is not dropped by IpFrontend::push, which decrements its TTL.
Passed(p) == [p EXCEPT !.ttl = @ - 1]

\* InfraFrontend::push and IpFrontend::push let the next packet from s to r in.
Arrives(s, r, type) ==
    /\ wire[<<s, r>>] # <<>>
    /\ Head(wire[<<s, r>>]).type = type
    /\ power[r] /\ Head(wire[<<s, r>>]).ttl > 1

Dropped(s, r) ==
    /\ wire[<<s, r>>] # <<>>
    /\ ~power[r] \/ Head(wire[<<s, r>>]).ttl = 1
    /\ wire' = Taken(s, r)
    /\ UNCHANGED <<front, back, power, announced, fresh, faults, sent, due>>

GetsHello(s, r) ==
    /\ Arrives(s, r, "Hello")
    /\ wire' = Pushed(Taken(s, r), r, {s}, Ack(r))
    /\ UNCHANGED <<front, back, power, announced, fresh, faults, sent, due>>

\* Seeded fault: the neighbours are noted in the order they answer in.
FaultNoted(info, port, ip) == Append(info, ip)

\* portInfo with ip at a port; the holes are 0.
Noted(info, port, ip) ==
    [i \in 1..Max({Len(info), port}) |->
        IF i = port THEN ip ELSE IF i <= Len(info) THEN info[i] ELSE NoAddress]

GetsAck(s, r) ==
    /\ Arrives(s, r, "Ack")
    /\ wire' = Taken(s, r)
    /\ front' = IF front[r].state = "WaitAck"
                THEN [front EXCEPT ![r].portInfo = Noted(@, PortOf(r, s), Head(wire[<<s, r>>]).src)]
                ELSE front
    /\ UNCHANGED <<back, power, announced, fresh, faults, sent, due>>

\* Seeded fault: an announcement r has already is taken once more.
FaultNewer(r, p) == front[r].sequenceInfo[p.src] <= p.sequence

\* check_sequence: p is newer than all that r has of its router.
Newer(r, p) == front[r].sequenceInfo[p.src] < p.sequence

GetsSequence(s, r) ==
    /\ Arrives(s, r, "Sequence")
    /\ LET p == Passed(Head(wire[<<s, r>>]))
       IN  IF p.src # r /\ Newer(r, p)
           THEN /\ front' = [front EXCEPT ![r].sequenceInfo[p.src] = p.sequence]
                /\ back' = [back EXCEPT ![r] = Queue(@, [ip |-> p.src, entry |-> p.entry])]
                /\ wire' = Broadcast(Taken(s, r), r, p)
           ELSE wire' = Taken(s, r) /\ UNCHANGED <<front, back>>
    /\ UNCHANGED <<power, announced, fresh, faults, sent, due>>

\* IpFrontend::route: wires w with p sent by r on the way to its destination.
Routed(w, r, p) ==
    LET port == PortTo(back[r], p.dst)
    IN  IF port = NoPort THEN w ELSE Pushed(w, r, {Peers[r][port]}, p)

GetsData(s, r) ==
    /\ Arrives(s, r, "Data")
    /\ LET p == Passed(Head(wire[<<s, r>>]))
       IN  IF p.dst = r
           THEN wire' = Taken(s, r) /\ due' = due \ {<<p.src, r>>}
           ELSE wire' = Routed(Taken(s, r), r, p) /\ UNCHANGED due
    /\ UNCHANGED <<front, back, power, announced, fresh, faults, sent>>

-----------------------------------------------------------------------------
(* Power, and what is sent.                                                *)

\* The routers with power, and the distance between two over them.
Alive == {r \in Routers : power[r]}
AliveConn == [r \in Alive |-> [ip |-> r, entry |-> Peers[r]]]

\* Every live router has found its neighbours and announced them since power
\* was last switched, and all of it has arrived.
Settled ==
    /\ \A r \in Alive : fresh[r] = "yes"
    /\ \A r \in Routers : back[r].que = <<>>
    /\ \A p \in OnTheWay : p.type # "Sequence"

\* IpSender and IpFrontend::send
IpSend(r, s) ==
    /\ sent < MaxSent
    /\ wire' = Routed(wire, r, Data(r, s))
    /\ sent' = sent + 1
    /\ due' = IF Settled /\ r \in Alive /\ s \in Alive /\ Distance(AliveConn, r, s) < TTL
              THEN due \cup {<<r, s>>} ELSE due
    /\ UNCHANGED <<front, back, power, announced, fresh, faults>>

\* The Script of ip03_shutdown.click; what is on the wires then may be lost.
\* Every router still has a round to make, or nothing would ever settle.
Switch(r) ==
    /\ faults < MaxFaults
    /\ \A s \in Routers :
        front[s].sequence + (IF front[s].state = "WaitAck" THEN 1 ELSE 0) < MaxSequence
    /\ power' = [power EXCEPT ![r] = ~@]
    /\ faults' = faults + 1
    /\ fresh' = [s \in Routers |-> "no"]
    /\ due' = {}
    /\ UNCHANGED <<front, back, wire, announced, sent>>

Arrive(s, r) ==
    \/ Dropped(s, r)
    \/ GetsHello(s, r) \/ GetsAck(s, r) \/ GetsSequence(s, r) \/ GetsData(s, r)

\* What happens by itself: timers and scheduled tasks run, wires deliver.
System ==
    \/ \E l \in Links : Arrive(l[1], l[2])
    \/ \E r \in Routers : Discover(r) \/ Announce(r)
    \/ \E r \in Routers : RunTask(r)

RoutingNext ==
    \/ System
    \/ \E r \in Switchable : Switch(r)
    \/ \E l \in Senders : IpSend(l[1], l[2])

RoutingSpec == RoutingInit /\ [][RoutingNext]_vars

FairRoutingSpec == RoutingSpec /\ WF_vars(System)

-----------------------------------------------------------------------------
(* Properties.                                                             *)

\* The shape of the state: lsp_frontend.hh:19-32, infra_frontend.hh:9.  A port
\* holds the address of the router it leads to or none.
RoutingTypeOK ==
    /\ \A r \in Routers :
        /\ front[r].state \in {"WaitAck", "Sleep"}
        /\ front[r].sequence \in 0..MaxSequence
        /\ Len(front[r].portInfo) <= Len(Peers[r])
        /\ \A i \in DOMAIN front[r].portInfo : front[r].portInfo[i] \in {NoAddress, Peers[r][i]}
        /\ back[r].scheduled \in BOOLEAN /\ Len(back[r].dis) = Len(back[r].conn)
    /\ power \in [Routers -> BOOLEAN]
    /\ \A l \in Links : \A i \in DOMAIN wire[l] : wire[l][i].ttl \in 1..TTL

Untold == <<NoAddress>>

\* What a backend b last heard of s: the last in the queue, or what is in the
\* table.
Latest(b, s) ==
    LET queued == {i \in DOMAIN b.que : b.que[i].ip = s}
    IN  IF queued # {} THEN b.que[Max(queued)].entry
        ELSE IF Places(b.conn, s) # {} THEN b.conn[Min(Places(b.conn, s))].entry
        ELSE Untold

\* LspFrontend's sequence numbers and LspBackend's table stay in step, whatever
\* ways the copies of an announcement take (lsp_frontend.cc:90-104, 132-149): a
\* router goes by the newest announcement it has seen of each other, and by its
\* own last one.
TablesAnnounced ==
    \A r, s \in Routers :
        LET n == IF r = s THEN front[r].sequence ELSE front[r].sequenceInfo[s]
        IN  Latest(back[r], s) = IF n = 0 THEN Untold ELSE announced[s][n]

\* Flooding ends (lsp_frontend.cc:132-149): a router sends an announcement on
\* once, when it takes it for itself, so that no wire has two copies of it.
FloodOnce ==
    \A l \in Links : \A i \in DOMAIN wire[l] :
        LET p == wire[l][i]
        IN  p.type = "Sequence" =>
                /\ \A j \in DOMAIN wire[l] : wire[l][j].type = "Sequence" /\ i # j =>
                    <<wire[l][j].src, wire[l][j].sequence>> # <<p.src, p.sequence>>
                /\ l[1] # p.src => front[l[1]].sequenceInfo[p.src] >= p.sequence

\* Where the routes agree with the network: every live router sends to every
\* other one it can reach on a first link that brings it nearer.
RoutesAgree ==
    \A r, s \in Alive : r # s =>
        LET far == Distance(AliveConn, r, s)
            port == PortTo(back[r], s)
        IN  IF far = TTL THEN port = NoPort
            ELSE /\ port # NoPort
                 /\ power[Peers[r][port]]
                 /\ Distance(AliveConn, Peers[r][port], s) = far - 1

\* Once every live router has made a round and its announcements have arrived,
\* the tables lead along shortest paths, although those of routers that are off
\* are still in them (lsp_backend.cc:24-45).
SettledAgree == Settled => RoutesAgree

\* A datagram sent over settled routes arrives, though routers go on to discover
\* and announce (lsp_frontend.cc:35-36 clears the neighbours meanwhile).
DatagramsArrive == due # {} ~> due = {}

\* After power was switched for the last time the tables get right, and stay so.
Converges == <>[]RoutesAgree
=============================================================================
