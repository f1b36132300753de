----------------------------- MODULE LspRoutes ------------------------------
(***************************************************************************)
(* What a step of LspBackend (src/src/lsp_backend.cc) and of the InfraAsync *)
(* it derives from (src/src/infra_async.cc) makes of the state b of one     *)
(* router's backend, and the definition of shortest paths to hold it to.    *)
(* LspBackend is one such backend, Routing has one in every router.         *)
(*                                                                         *)
(* An announcement is the router it is of, ip, and its list of neighbours, *)
(* entry, by port; ports count from 1 here and from 0 in the source.       *)
(***************************************************************************)
EXTENDS Naturals, FiniteSets, Sequences, SequencesExt, FiniteSetsExt

CONSTANTS
    Routers,   \* the addresses of the routers
    NoAddress, \* 0, announced for a port where nobody answered
    TTL        \* IpTTL: how far a packet goes, and "infinity" as a distance

ASSUME BackendAssumption == NoAddress \notin Routers /\ TTL \in Nat /\ TTL > 1

NoPort == 0

EmptyBack == [que |-> <<>>, scheduled |-> FALSE, conn |-> <<>>, dis |-> <<>>]

-----------------------------------------------------------------------------
(* Shortest paths.                                                         *)

\* find_ip: where ip is in the connection table.
Places(conn, ip) == {i \in DOMAIN conn : conn[i].ip = ip}

\* The known routers the one at place u announces as its neighbours.
NeighboursOf(conn, u) == {v \in DOMAIN conn : conn[v].ip \in Range(conn[u].entry)}

\* Distance and first hop before the search: the router itself, at place k,
\* and its neighbours, each behind the last of its ports.  (TLC evaluates a
\* function whenever it is applied; joined to <<>> it is evaluated once.)
Start(conn, k) ==
    <<>> \o [v \in DOMAIN conn |->
        LET ports == {i \in DOMAIN conn[k].entry : conn[k].entry[i] = conn[v].ip}
        IN  IF ports # {} THEN [d |-> 1, hop |-> Max(ports)]
            ELSE IF v = k THEN [d |-> 0, hop |-> NoPort]
            ELSE [d |-> TTL, hop |-> NoPort]]

\* The places not visited that are nearest, and nearer than infinity.
Nearest(s) ==
    {u \in DOMAIN s.dis \ s.vis :
        /\ s.dis[u].d < TTL
        /\ \A w \in DOMAIN s.dis \ s.vis : s.dis[u].d <= s.dis[w].d}

\* Seeded fault: the first hop is not taken over with the distance.
FaultVisit(conn, s) ==
    IF Nearest(s) = {} THEN s
    ELSE LET u == Min(Nearest(s))
             far == {v \in NeighboursOf(conn, u) : s.dis[v].d > s.dis[u].d + 1}
         IN  [vis |-> s.vis \cup {u},
              dis |-> <<>> \o [v \in DOMAIN s.dis |->
                          IF v \in far THEN [s.dis[v] EXCEPT !.d = s.dis[u].d + 1]
                          ELSE s.dis[v]]]

\* One round of the loop: visit the first of the nearest and relax.
Visit(conn, s) ==
    IF Nearest(s) = {} THEN s
    ELSE LET u == Min(Nearest(s))
             far == {v \in NeighboursOf(conn, u) : s.dis[v].d > s.dis[u].d + 1}
         IN  [vis |-> s.vis \cup {u},
              dis |-> <<>> \o [v \in DOMAIN s.dis |->
                          IF v \in far THEN [s.dis[u] EXCEPT !.d = @ + 1]
                          ELSE s.dis[v]]]

\* dijkstra: after[t] holds the state after t rounds.  A router that does not
\* know itself knows no way.
Dijkstra(conn, self) ==
    IF Places(conn, self) = {}
    THEN [v \in DOMAIN conn |-> [d |-> TTL, hop |-> NoPort]]
    ELSE LET k == Min(Places(conn, self))
             after[t \in Nat] ==
                 IF t = 0 THEN {[dis |-> Start(conn, k), vis |-> {k}]}
                 ELSE {Visit(conn, s) : s \in after[t - 1]}
         IN  (CHOOSE s \in after[Len(conn) - 1] : TRUE).dis

\* The port IpFrontend::route finds for ip in the table pull makes.
PortTo(b, ip) ==
    LET found == {i \in DOMAIN b.dis : b.conn[i].ip = ip /\ b.dis[i].hop # NoPort}
    IN  IF found = {} THEN NoPort ELSE b.dis[Min(found)].hop

-----------------------------------------------------------------------------
(* The queue and the task.                                                 *)

\* InfraAsync::push
Queue(b, a) == [b EXCEPT !.scheduled = TRUE, !.que = Append(@, a)]

\* Seeded fault: every announcement is inserted as that of an unknown router.
FaultUpdated(conn, a) == Append(conn, a)

\* The connection table with announcement a in it.
Updated(conn, a) ==
    IF Places(conn, a.ip) = {} THEN Append(conn, a)
    ELSE [conn EXCEPT ![Min(Places(conn, a.ip))] = a]

\* do_work.  (The table is taken out of a set of one, as in Dijkstra: TLC
\* evaluates an element of a set once, and a LET at each of its uses.)
Work(b, a, self) ==
    CHOOSE w \in {[b EXCEPT !.conn = conn, !.dis = Dijkstra(conn, self)] :
                     conn \in {Updated(b.conn, a)}} : TRUE

\* Seeded fault: the task is not scheduled again for the rest of the queue.
FaultTaskRun(b, self) ==
    [Work(b, Head(b.que), self) EXCEPT !.que = Tail(@), !.scheduled = FALSE]

\* InfraAsync::run_task on a queue with something in it.
TaskRun(b, self) ==
    [Work(b, Head(b.que), self) EXCEPT !.que = Tail(@),
                                       !.scheduled = Len(b.que) > 1]

-----------------------------------------------------------------------------
(* What the paths should be.                                               *)

\* The routers at most n links from x, over links to known routers.
Within(conn, x, n) ==
    LET ball[k \in Nat] ==
            IF k = 0 THEN {x}
            ELSE LET near == ball[k - 1]
                     places == {u \in DOMAIN conn : conn[u].ip \in near}
                 IN  near \cup {conn[v].ip : v \in UNION {NeighboursOf(conn, u) : u \in places}}
    IN  ball[n]

\* The number of links of a shortest path from x to y, TTL when there is none
\* a packet survives.
Distance(conn, x, y) ==
    LET far == {n \in 0..(TTL - 1) : y \in Within(conn, x, n)}
    IN  IF far = {} THEN TTL ELSE Min(far)
=============================================================================
