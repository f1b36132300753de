-------------------------- MODULE LspBackendProofs --------------------------
(***************************************************************************)
(* Proofs about LspBackend.                                                *)
(***************************************************************************)
EXTENDS LspBackend, LspRoutesProofs

\* The fields of the backend, and that none of the queue is forgotten.
BackInv == IsBackend(back) /\ NoneForgotten

LEMMA BackInvInit == BackInit => BackInv
BY EmptyIsBackend, Zenon DEF BackInit, BackInv, NoneForgotten

LEMMA BackInvNext == BackInv /\ [BackNext]_back => BackInv'
<1> SUFFICES ASSUME BackInv, [BackNext]_back
             PROVE  BackInv'
  OBVIOUS
<1>1. ASSUME NEW r \in Routers, NEW l \in Lists[r], Push(r, l)
      PROVE  BackInv'
  <2> DEFINE a == [ip |-> r, entry |-> l]
  <2>1. a \in Ann
    BY ListsAssumption DEF Ann
  <2> HIDE DEF a
  <2>2. back' = Queue(back, a)
    BY <1>1, Zenon DEF Push, a
  <2> QED
    BY <2>1, <2>2, Queued, Zenon DEF BackInv, NoneForgotten
<1>2. CASE RunTask
  <2>1. back.que # <<>>
    BY <1>2, Zenon DEF RunTask, BackInv, NoneForgotten
  <2>2. back' = TaskRun(back, self)
    BY <1>2, Zenon DEF RunTask
  <2> QED
    BY <2>1, <2>2, Worked, Zenon DEF BackInv, NoneForgotten
<1>3. CASE UNCHANGED back
  BY <1>3, Zenon DEF BackInv, NoneForgotten
<1> QED
  BY <1>1, <1>2, <1>3, Zenon DEF BackNext

\* An announcement never waits in the backend while the task is not scheduled,
\* for any routers, announcements and order of arrival
\* (infra_async.cc:12-26).
THEOREM NothingForgotten == BackSpec => []NoneForgotten
<1>1. BackInv => NoneForgotten
  BY DEF BackInv
<1> QED
  BY <1>1, BackInvInit, BackInvNext, PTL DEF BackSpec

-----------------------------------------------------------------------------
(* The tables.                                                             *)

\* No router is in the connection table twice, and the distances are those
\* dijkstra computes from it as it is.
TablesInv ==
    /\ IsBackend(back)
    /\ Once(back.conn) /\ back.dis = Dijkstra(back.conn, self)

LEMMA BackFields ==
    ASSUME NEW b, IsBackend(b)
    PROVE  b.que \in Seq(Ann) /\ b.scheduled \in BOOLEAN /\ b.conn \in Seq(Ann)
BY DEF IsBackend

LEMMA TablesInvInit == BackInit => TablesInv
<1>1. ASSUME NEW r
      PROVE  Dijkstra(<<>>, r) = <<>> /\ Once(<<>>)
  <2>1. Places(<<>>, r) = {} /\ Once(<<>>)
    BY DEF Places, Once
  <2>2. Dijkstra(<<>>, r) = [v \in DOMAIN <<>> |-> [d |-> TTL, hop |-> NoPort]]
    BY <2>1 DEF Dijkstra
  <2> QED
    BY <2>1, <2>2
<1>2. EmptyBack.dis = <<>>
  BY DEF EmptyBack
<1> QED
  BY <1>1, <1>2, EmptyIsBackend, Zenon DEF BackInit, TablesInv

LEMMA TablesInvNext == BackInv /\ TablesInv /\ [BackNext]_back => TablesInv'
<1> SUFFICES ASSUME BackInv, TablesInv, [BackNext]_back
             PROVE  TablesInv'
  OBVIOUS
<1>1. ASSUME NEW r \in Routers, NEW l \in Lists[r], Push(r, l)
      PROVE  TablesInv'
  <2> DEFINE a == [ip |-> r, entry |-> l]
  <2>1. a \in Ann
    BY ListsAssumption DEF Ann
  <2> HIDE DEF a
  <2>2. back' = Queue(back, a)
    BY <1>1, Zenon DEF Push, a
  <2> QED
    BY <2>1, <2>2, Queued, Zenon DEF TablesInv
<1>2. CASE RunTask
  <2>1. back.que # <<>>
    BY <1>2, Zenon DEF RunTask, BackInv, NoneForgotten
  <2>2. back' = TaskRun(back, self)
    BY <1>2, Zenon DEF RunTask
  <2>3. /\ IsBackend(back') /\ back'.conn = Updated(back.conn, Head(back.que))
        /\ back'.dis = Dijkstra(back'.conn, self)
    BY <2>1, <2>2, Worked, Zenon DEF TablesInv
  <2>4. Head(back.que) \in Ann /\ back.conn \in Seq(Ann)
    BY <2>1, BackFields DEF TablesInv
  <2>5. Once(back.conn)
    BY DEF TablesInv
  <2>6. Once(Updated(back.conn, Head(back.que)))
    BY <2>4, <2>5, UpdatedTable
  <2> QED
    BY <2>3, <2>6, Zenon DEF TablesInv
<1>3. CASE UNCHANGED back
  BY <1>3, Zenon DEF TablesInv
<1> QED
  BY <1>1, <1>2, <1>3, Zenon DEF BackNext

LEMMA TablesTyped == TablesInv => BackTypeOK
<1> SUFFICES ASSUME TablesInv
             PROVE  BackTypeOK
  OBVIOUS
<1> DEFINE conn == back.conn
           dis == back.dis
<1>1. back.que \in Seq(Ann) /\ back.scheduled \in BOOLEAN /\ conn \in Seq(Ann)
  BY BackFields DEF TablesInv
<1>2. Once(conn) /\ dis = Dijkstra(conn, self)
  BY DEF TablesInv
<1> HIDE DEF conn, dis
<1>3. /\ dis \in [DOMAIN conn -> Reached] /\ Len(dis) = Len(conn)
      /\ \A v \in DOMAIN conn : HasPort(conn, Min(Places(conn, self)), dis[v])
  BY <1>1, <1>2, DijkstraShape
<1>4. ASSUME NEW i \in DOMAIN dis
      PROVE  /\ dis[i].d \in 0..TTL
             /\ dis[i].hop # NoPort => dis[i].hop \in DOMAIN EntryOf(self)
  <2>1. i \in DOMAIN conn
    BY <1>3
  <2> QED
    BY <1>3, <2>1 DEF Reached, HasPort, EntryOf, conn
<1> QED
  BY <1>1, <1>2, <1>3, <1>4 DEF BackTypeOK, Once, Ann, conn, dis

LEMMA TablesShortest == TablesInv => RoutesShortest
<1> SUFFICES ASSUME TablesInv
             PROVE  RoutesShortest
  OBVIOUS
<1> DEFINE conn == back.conn
           dis == back.dis
           entry == conn[Min(Places(conn, self))].entry
<1>1. conn \in Seq(Ann) /\ Once(conn) /\ dis = Dijkstra(conn, self)
  BY BackFields DEF TablesInv
<1>2. /\ Known = {conn[i].ip : i \in DOMAIN conn} /\ EntryOf(self) = entry
      /\ \A r : PortTo(back, r) =
           LET found == {i \in DOMAIN dis : conn[i].ip = r /\ dis[i].hop # NoPort}
           IN  IF found = {} THEN NoPort ELSE dis[Min(found)].hop
  BY Zenon DEF Known, EntryOf, PortTo
<1> HIDE DEF conn, dis
<1>3. dis \in [DOMAIN conn -> Reached] /\ DOMAIN dis = DOMAIN conn
  BY <1>1, DijkstraShape
<1> SUFFICES ASSUME NEW r \in Known \ {self}
             PROVE  LET far == IF self \in Known THEN Distance(conn, self, r) ELSE TTL
                        port == PortTo(back, r)
                    IN  IF far = TTL THEN port = NoPort
                        ELSE /\ port \in DOMAIN entry
                             /\ entry[port] \in Known
                             /\ Distance(conn, entry[port], r) = far - 1
  BY <1>2, Zenon DEF RoutesShortest, conn
<1>4. PICK v \in DOMAIN conn : conn[v].ip = r
  BY <1>2
\* The port found is that of the one place of r.
<1>5. PortTo(back, r) = dis[v].hop
  <2> DEFINE found == {i \in DOMAIN dis : conn[i].ip = r /\ dis[i].hop # NoPort}
  <2>1. PortTo(back, r) = IF found = {} THEN NoPort ELSE dis[Min(found)].hop
    BY <1>2
  <2>2. \A i \in found : i = v
    BY <1>1, <1>3, <1>4 DEF Once
  <2>3. CASE dis[v].hop = NoPort
    <3>1. found = {}
      BY <2>2, <2>3
    <3> QED
      BY <2>1, <2>3, <3>1
  <2>4. CASE dis[v].hop # NoPort
    <3>1. v \in found /\ found \subseteq Nat
      BY <1>1, <1>3, <1>4, <2>4
    <3>2. Min(found) = v
      BY <2>2, <3>1, MinIs
    <3> HIDE DEF found
    <3> QED
      BY <2>1, <3>1, <3>2
  <2> QED
    BY <2>3, <2>4
<1>6. CASE self \notin Known
  <2>1. Places(conn, self) = {}
    BY <1>2, <1>6 DEF Places
  <2>2. dis[v].hop = NoPort
    BY <1>1, <1>4, <2>1, DijkstraShape
  <2> QED
    BY <1>5, <1>6, <2>2
<1>7. CASE self \in Known
  <2>1. Places(conn, self) # {}
    BY <1>2, <1>7 DEF Places
  <2>2. /\ dis[v].d = Distance(conn, self, r)
        /\ IF dis[v].d = TTL THEN dis[v].hop = NoPort
           ELSE /\ dis[v].hop \in DOMAIN entry
                /\ \E w \in DOMAIN conn : conn[w].ip = entry[dis[v].hop]
                /\ Distance(conn, entry[dis[v].hop], r) = dis[v].d - 1
    BY <1>1, <1>4, <2>1, ShortestFound
  <2> HIDE DEF entry
  <2> QED
    BY <1>2, <1>5, <1>7, <2>2
<1> QED
  BY <1>6, <1>7

LEMMA TablesKept == BackSpec => []TablesInv
BY BackInvInit, BackInvNext, TablesInvInit, TablesInvNext, PTL DEF BackSpec

\* In every reachable state the tables have their shape: no router is in the
\* connection table twice, there is a distance for each, and a first hop is a
\* port the router itself announced (lsp_backend.cc:29-60).
THEOREM BackTyped == BackSpec => []BackTypeOK
BY TablesKept, TablesTyped, PTL

\* dijkstra is correct: whatever has been announced, by whichever routers and
\* in whichever order, the table pull makes gives for every other known router
\* the first port of a shortest path over the links announced, and a port
\* exactly for those a packet can reach before its TTL is used up
\* (lsp_backend.cc:62-112).
THEOREM ShortestRoutes == BackSpec => []RoutesShortest
BY TablesKept, TablesShortest, PTL
=============================================================================
