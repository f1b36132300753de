-------------------------- MODULE LspRoutesProofs ---------------------------
(***************************************************************************)
(* What queueing an announcement and running the task do to a backend, and *)
(* that dijkstra finds shortest paths, for any number of routers.          *)
(***************************************************************************)
EXTENDS LspRoutes, NaturalLemmas, FiniteSetTheorems, Integers, TLAPS

-----------------------------------------------------------------------------
(* The connection table and the task.                                      *)

Ann == [ip : Routers, entry : Seq(Routers \cup {NoAddress})]

\* A backend with all its fields; nothing is said of dis.
IsBackend(b) ==
    b \in [que : Seq(Ann), scheduled : BOOLEAN, conn : Seq(Ann), dis : {b.dis}]

\* No router is in the table twice.
Once(conn) == \A i, j \in DOMAIN conn : conn[i].ip = conn[j].ip => i = j

\* A router that is known is found.
LEMMA PlaceFound ==
    ASSUME NEW conn \in Seq(Ann), NEW s, Places(conn, s) # {}
    PROVE  /\ Min(Places(conn, s)) \in DOMAIN conn
           /\ conn[Min(Places(conn, s))].ip = s
<1>1. Places(conn, s) \subseteq Nat
  BY DEF Places
<1>2. Min(Places(conn, s)) \in Places(conn, s)
  BY <1>1, MinIs
<1> QED
  BY <1>2 DEF Places

\* An announcement is put where its router is found, and nowhere else.
LEMMA UpdatedTable ==
    ASSUME NEW conn \in Seq(Ann), NEW a \in Ann
    PROVE  /\ Updated(conn, a) \in Seq(Ann) /\ (Once(conn) => Once(Updated(conn, a)))
           /\ Places(Updated(conn, a), a.ip) # {}
           /\ Updated(conn, a)[Min(Places(Updated(conn, a), a.ip))] = a
           /\ \A s : s # a.ip =>
                /\ Places(Updated(conn, a), s) = Places(conn, s)
                /\ \A i \in Places(conn, s) : Updated(conn, a)[i] = conn[i]
<1> DEFINE new == Updated(conn, a)
           k == Min(Places(conn, a.ip))
<1>1. CASE Places(conn, a.ip) = {}
  <2>1. new = Append(conn, a)
    BY <1>1 DEF Updated
  <2>2. /\ new \in Seq(Ann) /\ DOMAIN new = 1..(Len(conn) + 1)
        /\ new[Len(conn) + 1] = a /\ \A i \in 1..Len(conn) : new[i] = conn[i]
        /\ DOMAIN conn = 1..Len(conn) /\ Len(conn) \in Nat
    BY <2>1
  <2> HIDE DEF new
  <2>3. Places(new, a.ip) = {Len(conn) + 1}
    BY <2>2, <1>1 DEF Places
  <2>4. Min(Places(new, a.ip)) = Len(conn) + 1
    BY <2>2, <2>3, MinIs
  <2>5. \A s : s # a.ip => Places(new, s) = Places(conn, s)
    BY <2>2 DEF Places
  <2>6. \A s : \A i \in Places(conn, s) : new[i] = conn[i]
    BY <2>2 DEF Places
  <2>7. Once(conn) => Once(new)
    BY <1>1, <2>2 DEF Places, Once
  <2> QED
    BY <2>2, <2>3, <2>4, <2>5, <2>6, <2>7 DEF new
<1>2. CASE Places(conn, a.ip) # {}
  <2>1. new = [conn EXCEPT ![k] = a]
    BY <1>2 DEF Updated
  <2>2. k \in DOMAIN conn /\ conn[k].ip = a.ip
    BY <1>2, PlaceFound
  <2> HIDE DEF k
  <2>3. /\ new \in Seq(Ann) /\ DOMAIN new = DOMAIN conn /\ new[k] = a
        /\ \A i \in DOMAIN conn : i # k => new[i] = conn[i]
    BY <2>1, <2>2
  <2> HIDE DEF new
  <2>4. \A s : Places(new, s) = Places(conn, s)
    BY <2>2, <2>3 DEF Places
  <2>5. \A s : s # a.ip => \A i \in Places(conn, s) : new[i] = conn[i]
    BY <2>2, <2>3 DEF Places
  <2>6. new[Min(Places(new, a.ip))] = a
    BY <2>3, <2>4 DEF k
  <2>7. Once(conn) => Once(new)
    BY <2>2, <2>3 DEF Once
  <2> QED
    BY <1>2, <2>3, <2>4, <2>5, <2>6, <2>7 DEF new
<1> QED
  BY <1>1, <1>2

\* The backend a router starts with.
LEMMA EmptyIsBackend ==
    /\ IsBackend(EmptyBack) /\ EmptyBack.que = <<>> /\ EmptyBack.conn = <<>>
    /\ EmptyBack.scheduled = FALSE
<1>1. /\ EmptyBack \in [que : Seq(Ann), scheduled : BOOLEAN, conn : Seq(Ann), dis : {EmptyBack.dis}]
      /\ EmptyBack.que = <<>> /\ EmptyBack.conn = <<>> /\ ~EmptyBack.scheduled
  BY DEF EmptyBack
<1> QED
  BY <1>1, Zenon DEF IsBackend

\* A queue after push has what was in it and the announcement.
LEMMA Queued ==
    ASSUME NEW b, IsBackend(b), NEW a \in Ann
    PROVE  /\ IsBackend(Queue(b, a))
           /\ Queue(b, a).que = Append(b.que, a) /\ Queue(b, a).conn = b.conn
           /\ Queue(b, a).dis = b.dis
           /\ Queue(b, a).que # <<>> /\ Queue(b, a).scheduled
<1> DEFINE e == [b EXCEPT !.scheduled = TRUE, !.que = Append(b.que, a)]
           R == [que : Seq(Ann), scheduled : BOOLEAN, conn : Seq(Ann), dis : {b.dis}]
<1>1. Queue(b, a) = e
  BY Zenon DEF Queue
<1>2. b \in R
  BY Zenon DEF IsBackend
<1>3. Append(b.que, a) \in Seq(Ann) /\ Append(b.que, a) # <<>>
  BY <1>2
<1>4. /\ e \in R /\ e.que = Append(b.que, a) /\ e.scheduled /\ e.conn = b.conn
      /\ e.dis = b.dis
  BY <1>2, <1>3
<1> HIDE DEF e
<1>5. IsBackend(e)
  BY <1>4, Zenon DEF IsBackend
<1> QED
  BY <1>1, <1>3, <1>4, <1>5, Zenon

\* The task takes the first announcement off the queue and into the table, and
\* asks to run again exactly when there is another one.
LEMMA Worked ==
    ASSUME NEW b, IsBackend(b), b.que # <<>>, NEW r
    PROVE  /\ IsBackend(TaskRun(b, r))
           /\ TaskRun(b, r).que = Tail(b.que)
           /\ TaskRun(b, r).conn = Updated(b.conn, Head(b.que))
           /\ TaskRun(b, r).dis = Dijkstra(TaskRun(b, r).conn, r)
           /\ TaskRun(b, r).que # <<>> <=> TaskRun(b, r).scheduled
<1> DEFINE c == Updated(b.conn, Head(b.que))
           d == Dijkstra(c, r)
           more == Len(b.que) > 1
           D == {b.dis, d}
           R == [que : Seq(Ann), scheduled : BOOLEAN, conn : Seq(Ann), dis : D]
           w == [b EXCEPT !.conn = c, !.dis = d]
           e == [w EXCEPT !.que = Tail(w.que), !.scheduled = more]
<1>1. b \in [que : Seq(Ann), scheduled : BOOLEAN, conn : Seq(Ann), dis : {b.dis}]
  BY Zenon DEF IsBackend
<1>2. b.que \in Seq(Ann) /\ b.conn \in Seq(Ann)
  BY <1>1
<1>3. Head(b.que) \in Ann /\ Tail(b.que) \in Seq(Ann)
  BY <1>2
<1>4. Tail(b.que) # <<>> <=> Len(b.que) > 1
  <2>1. Len(Tail(b.que)) = Len(b.que) - 1 /\ Len(b.que) \in Nat
    BY <1>2
  <2>2. \A t \in Seq(Ann) : t = <<>> <=> Len(t) = 0
    OBVIOUS
  <2>3. Tail(b.que) = <<>> <=> Len(Tail(b.que)) = 0
    BY <1>3, <2>2
  <2>4. Len(b.que) # 0
    BY <1>2, <2>2
  <2>5. Len(Tail(b.que)) # 0 <=> Len(b.que) > 1
    BY <2>1, <2>4
  <2> QED
    BY <2>3, <2>5, Zenon
<1>5. c \in Seq(Ann)
  BY <1>2, <1>3, UpdatedTable
<1>6. Work(b, Head(b.que), r) = w
  BY DEF Work
<1>7. TaskRun(b, r) = e
  BY <1>6, Zenon DEF TaskRun
<1> HIDE DEF c, d
<1>8. b \in R
  BY <1>1
<1>9. w \in R /\ w.que = b.que /\ w.conn = c /\ w.dis = d
  BY <1>5, <1>8
<1>10. more \in BOOLEAN
  OBVIOUS
<1> HIDE DEF w, more
<1>11. /\ e \in R /\ e.que = Tail(b.que) /\ e.scheduled = more /\ e.conn = c
       /\ e.dis = d
  BY <1>3, <1>9, <1>10
<1>12. e \in [que : Seq(Ann), scheduled : BOOLEAN, conn : Seq(Ann), dis : {e.dis}]
  BY <1>11
<1> HIDE DEF e
<1>13. IsBackend(e)
  BY <1>12, Zenon DEF IsBackend
<1> QED
  BY <1>4, <1>7, <1>11, <1>13, Zenon DEF c, d, more

-----------------------------------------------------------------------------
(* What is how far away.                                                   *)

\* The known neighbours of what is near.
Beyond(conn, near) ==
    {conn[v].ip : v \in UNION {NeighboursOf(conn, u) :
                                   u \in {u \in DOMAIN conn : conn[u].ip \in near}}}

LEMMA EntryIs ==
    ASSUME NEW conn \in Seq(Ann), NEW v \in DOMAIN conn
    PROVE  conn[v].ip \in Routers /\ conn[v].entry \in Seq(Routers \cup {NoAddress})
<1>1. conn[v] \in Ann
  OBVIOUS
<1> QED
  BY <1>1 DEF Ann

\* All that Within needs to know of a table.
OfRouters(conn) == \A v \in DOMAIN conn : conn[v].ip \in Routers

LEMMA TableIs == ASSUME NEW conn \in Seq(Ann) PROVE OfRouters(conn)
BY EntryIs DEF OfRouters

\* Within is the recursive function it says.
LEMMA WithinIs ==
    ASSUME NEW conn, OfRouters(conn), NEW x
    PROVE  /\ Within(conn, x, 0) = {x}
           /\ \A n \in Nat : Within(conn, x, n + 1) =
                  Within(conn, x, n) \cup Beyond(conn, Within(conn, x, n))
<1> DEFINE S == SUBSET (Routers \cup {x})
           f == [y \in (Nat \X S) |-> y[2] \cup Beyond(conn, y[2])]
           Body(g) == [k \in Nat |->
                        IF k = 0 THEN {x}
                        ELSE LET near == g[k - 1]
                                 places == {u \in DOMAIN conn : conn[u].ip \in near}
                             IN  near \cup {conn[v].ip : v \in UNION {NeighboursOf(conn, u) : u \in places}}]
           ball == CHOOSE g : g = Body(g)
<1>1. \A n : Within(conn, x, n) = ball[n]
  BY DEF Within
<1>2. ASSUME NEW k \in Nat, NEW near \in S
      PROVE  /\ f[<<k, near>>] = near \cup Beyond(conn, near)
             /\ f[<<k, near>>] \in S
  <2>1. Beyond(conn, near) \subseteq Routers
    BY DEF Beyond, NeighboursOf, OfRouters
  <2>2. <<k, near>> \in Nat \X S
    OBVIOUS
  <2> QED
    BY <2>1, <2>2
<1>3. {x} \in S
  OBVIOUS
<1>4. StaysIn(f, S)
  BY <1>2 DEF StaysIn
<1> HIDE DEF f, S
<1>5. PICK g \in [Nat -> S] : FollowsOn(g, f, {x})
  BY <1>3, <1>4, NatFoldExists
<1>6. g = Body(g)
  <2>1. ASSUME NEW k \in Nat
        PROVE  g[k] = Body(g)[k]
    <3>1. CASE k = 0
      BY <1>5, <3>1 DEF FollowsOn
    <3>2. CASE k # 0
      <4>1. k \in Nat \ {0} /\ k - 1 \in Nat
        BY <3>2
      <4>2. g[k - 1] \in S /\ g[k] = f[<<k, g[k - 1]>>]
        BY <1>5, <4>1 DEF FollowsOn
      <4>3. g[k] = g[k - 1] \cup Beyond(conn, g[k - 1])
        BY <1>2, <4>2
      <4> QED
        BY <3>2, <4>3 DEF Beyond
    <3> QED
      BY <3>1, <3>2
  <2>2. g = [k \in Nat |-> g[k]] /\ Body(g) = [k \in Nat |-> Body(g)[k]]
    OBVIOUS
  <2> HIDE DEF Body
  <2> QED
    BY <2>1, <2>2
<1>7. ball = Body(ball)
  BY <1>6
<1> HIDE DEF ball
<1>8. ball[0] = {x}
  BY <1>7
<1>9. ASSUME NEW n \in Nat
      PROVE  ball[n + 1] = ball[n] \cup Beyond(conn, ball[n])
  <2>1. n + 1 \in Nat /\ n + 1 # 0 /\ (n + 1) - 1 = n
    OBVIOUS
  <2> QED
    BY <1>7, <2>1 DEF Beyond
<1> QED
  BY <1>1, <1>8, <1>9

LEMMA WithinGrows ==
    ASSUME NEW conn, OfRouters(conn), NEW x, NEW n \in Nat
    PROVE  /\ \A y \in Within(conn, x, n) : y \in Within(conn, x, n + 1)
           /\ \A u \in DOMAIN conn : \A v \in NeighboursOf(conn, u) :
                conn[u].ip \in Within(conn, x, n) => conn[v].ip \in Within(conn, x, n + 1)
           /\ \A y \in Within(conn, x, n + 1) :
                \/ y \in Within(conn, x, n)
                \/ \E u \in DOMAIN conn : \E v \in NeighboursOf(conn, u) :
                       conn[u].ip \in Within(conn, x, n) /\ y = conn[v].ip
<1> DEFINE near == Within(conn, x, n)
<1>1. Within(conn, x, n + 1) = near \cup Beyond(conn, near)
  BY WithinIs
<1> HIDE DEF near
<1> QED
  BY <1>1 DEF Beyond, near

\* What is near a neighbour is one link further.
LEMMA WithinAhead ==
    ASSUME NEW conn, OfRouters(conn), NEW k \in DOMAIN conn, NEW w \in NeighboursOf(conn, k)
    PROVE  \A n \in Nat :
              Within(conn, conn[w].ip, n) \subseteq Within(conn, conn[k].ip, n + 1)
<1> DEFINE S == {n \in Nat :
                   Within(conn, conn[w].ip, n) \subseteq Within(conn, conn[k].ip, n + 1)}
<1>1. 0 \in S
  <2>1. Within(conn, conn[w].ip, 0) = {conn[w].ip} /\ Within(conn, conn[k].ip, 0) = {conn[k].ip}
    BY WithinIs
  <2>2. conn[w].ip \in Within(conn, conn[k].ip, 0 + 1)
    BY <2>1, WithinGrows
  <2> QED
    BY <2>1, <2>2
<1>2. ASSUME NEW n \in Nat, n \in S
      PROVE  n + 1 \in S
  <2>1. n + 1 \in Nat
    OBVIOUS
  <2>2. ASSUME NEW y \in Within(conn, conn[w].ip, n + 1)
        PROVE  y \in Within(conn, conn[k].ip, (n + 1) + 1)
    <3>1. CASE y \in Within(conn, conn[w].ip, n)
      <4>1. y \in Within(conn, conn[k].ip, n + 1)
        BY <1>2, <3>1
      <4> QED
        BY <2>1, <4>1, WithinGrows
    <3>2. CASE \E u \in DOMAIN conn : \E v \in NeighboursOf(conn, u) :
                 conn[u].ip \in Within(conn, conn[w].ip, n) /\ y = conn[v].ip
      <4>0. PICK u \in DOMAIN conn : \E v \in NeighboursOf(conn, u) :
                 conn[u].ip \in Within(conn, conn[w].ip, n) /\ y = conn[v].ip
        BY <3>2
      <4>1. PICK v \in NeighboursOf(conn, u) :
                 conn[u].ip \in Within(conn, conn[w].ip, n) /\ y = conn[v].ip
        BY <4>0
      <4>2. conn[u].ip \in Within(conn, conn[k].ip, n + 1)
        BY <1>2, <4>1
      <4>3. conn[v].ip \in Within(conn, conn[k].ip, (n + 1) + 1)
        BY <2>1, <4>2, WithinGrows
      <4> QED
        BY <4>1, <4>3
    <3> QED
      BY <3>1, <3>2, WithinGrows
  <2> QED
    BY <2>1, <2>2
<1> HIDE DEF S
<1>3. Nat \subseteq S
  BY <1>1, <1>2, NatAll
<1> QED
  BY <1>3 DEF S

LEMMA DistanceIs ==
    ASSUME NEW conn, NEW x, NEW y, NEW n \in 0..(TTL - 1), y \in Within(conn, x, n),
           \A m \in 0..(TTL - 1) : y \in Within(conn, x, m) => n <= m
    PROVE  Distance(conn, x, y) = n
<1> DEFINE far == {m \in 0..(TTL - 1) : y \in Within(conn, x, m)}
<1>1. n \in far /\ far \subseteq Nat
  BY BackendAssumption
<1>2. Min(far) \in far /\ \A m \in far : Min(far) <= m
  BY <1>1, MinIs
<1>3. Min(far) <= n /\ n <= Min(far) /\ Min(far) \in Nat /\ n \in Nat
  BY <1>1, <1>2
<1> QED
  BY <1>1, <1>3 DEF Distance

LEMMA DistanceNone ==
    ASSUME NEW conn, NEW x, NEW y, \A m \in 0..(TTL - 1) : y \notin Within(conn, x, m)
    PROVE  Distance(conn, x, y) = TTL
BY DEF Distance

-----------------------------------------------------------------------------
(* dijkstra.  k is the place of the router itself.                         *)

Reached == [d : 0..TTL, hop : Nat]

\* Distances dis that lead where they say: the first hop is a port of k, and
\* the router behind it one link nearer.
Leads(conn, k, v, r) ==
    /\ r.hop \in DOMAIN conn[k].entry
    /\ \E w \in NeighboursOf(conn, k) :
         conn[w].ip = conn[k].entry[r.hop] /\ conn[v].ip \in Within(conn, conn[w].ip, r.d - 1)

Sound(conn, k, dis) ==
    \A v \in DOMAIN conn \ {k} :
        /\ dis[v].d >= 1
        /\ IF dis[v].d = TTL THEN dis[v].hop = NoPort ELSE Leads(conn, k, v, dis[v])

\* The distance of a place, with that of k itself 0.
Depth(k, dis, u) == IF u = k THEN 0 ELSE dis[u].d

\* The first hop of a place, if it has one, is a port.
HasPort(conn, k, r) == r.hop # NoPort => r.hop \in DOMAIN conn[k].entry

\* Every link from a place visited was looked at, and none is further than one
\* that was not.
Searched(conn, k, s) ==
    /\ \A u \in s.vis : \A v \in NeighboursOf(conn, u) \ {k} :
           s.dis[v].d <= Depth(k, s.dis, u) + 1
    /\ \A u \in s.vis : \A v \in DOMAIN conn \ s.vis : Depth(k, s.dis, u) <= s.dis[v].d

Search(conn, k, s) ==
    /\ s \in [dis : [DOMAIN conn -> Reached], vis : SUBSET DOMAIN conn]
    /\ k \in s.vis /\ s.dis[k].d <= 1 /\ HasPort(conn, k, s.dis[k])
    /\ Sound(conn, k, s.dis) /\ Searched(conn, k, s)

LEMMA Joined ==
    ASSUME NEW T, NEW n \in Nat, NEW f \in [1..n -> T]
    PROVE  <<>> \o f = f
<1>1. f \in Seq(T) /\ Len(f) = n
  OBVIOUS
<1>2. <<>> \in Seq(T) /\ Len(<<>>) = 0
  OBVIOUS
<1>3. Len(<<>> \o f) = n /\ \A i \in 1..n : (<<>> \o f)[i] = f[i]
  BY <1>1, <1>2
<1> QED
  BY <1>1, <1>3

LEMMA StartIs ==
    ASSUME NEW conn \in Seq(Ann), NEW k \in DOMAIN conn
    PROVE  Search(conn, k, [dis |-> Start(conn, k), vis |-> {k}])
<1> DEFINE ports(v) == {i \in DOMAIN conn[k].entry : conn[k].entry[i] = conn[v].ip}
           first(v) == IF ports(v) # {} THEN [d |-> 1, hop |-> Max(ports(v))]
                       ELSE IF v = k THEN [d |-> 0, hop |-> NoPort]
                       ELSE [d |-> TTL, hop |-> NoPort]
           dis == [v \in DOMAIN conn |-> first(v)]
<1>1. DOMAIN conn = 1..Len(conn) /\ Len(conn) \in Nat
  OBVIOUS
<1>2. conn[k].entry \in Seq(Routers \cup {NoAddress})
  BY EntryIs
<1>3. ASSUME NEW v, ports(v) # {}
      PROVE  Max(ports(v)) \in ports(v) /\ Max(ports(v)) \in Nat
  <2>1. ports(v) \subseteq 1..Len(conn[k].entry) /\ Len(conn[k].entry) \in Nat
    BY <1>2
  <2> HIDE DEF ports
  <2>2. Max(ports(v)) \in ports(v)
    BY <1>3, <2>1, MaxIs
  <2> QED
    BY <2>1, <2>2
<1>4. ASSUME NEW v
      PROVE  first(v) \in Reached
  <2>1. CASE ports(v) # {}
    <3>1. Max(ports(v)) \in Nat
      BY <1>3, <2>1

    <3> QED
      BY <2>1, <3>1, BackendAssumption DEF Reached
  <2>2. CASE ports(v) = {}
    BY <2>2, BackendAssumption DEF Reached, NoPort
  <2> QED
    BY <2>1, <2>2
<1>5. dis \in [DOMAIN conn -> Reached]
  BY <1>4
<1>6. Start(conn, k) = dis
  <2>1. Start(conn, k) = <<>> \o dis
    BY DEF Start
  <2> HIDE DEF dis
  <2> QED
    BY <1>1, <1>5, <2>1, Joined
<1>7. ASSUME NEW v \in NeighboursOf(conn, k)
      PROVE  ports(v) # {}
  BY DEF NeighboursOf, Range
<1>8. ASSUME NEW v \in DOMAIN conn, ports(v) # {}
      PROVE  /\ dis[v].d = 1 /\ dis[v].hop = Max(ports(v))
             /\ Leads(conn, k, v, dis[v])
  <2>1. dis[v].d = 1 /\ dis[v].hop = Max(ports(v))
    BY <1>8
  <2>2. Max(ports(v)) \in DOMAIN conn[k].entry /\ conn[k].entry[Max(ports(v))] = conn[v].ip
    BY <1>3, <1>8
  <2>3. v \in NeighboursOf(conn, k)
    BY <2>2 DEF NeighboursOf, Range
  <2>4. conn[v].ip \in Within(conn, conn[v].ip, 1 - 1)
    BY TableIs, WithinIs
  <2> HIDE DEF dis, ports
  <2> QED
    BY <2>1, <2>2, <2>3, <2>4 DEF Leads
<1>9. ASSUME NEW v \in DOMAIN conn, ports(v) = {}
      PROVE  IF v = k THEN dis[v].d = 0 ELSE dis[v].d = TTL /\ dis[v].hop = NoPort
  BY <1>9
<1>hop. HasPort(conn, k, dis[k])
  <2>1. CASE ports(k) # {}
    BY <1>8, <2>1 DEF HasPort, Leads
  <2>2. CASE ports(k) = {}
    BY <2>2 DEF HasPort
  <2> QED
    BY <2>1, <2>2
<1> HIDE DEF dis, ports
<1>10. Sound(conn, k, dis)
  BY <1>8, <1>9, BackendAssumption DEF Sound
<1>11. dis[k].d <= 1
  BY <1>8, <1>9
<1>12. \A v \in NeighboursOf(conn, k) \ {k} : dis[v].d <= 1
  BY <1>7, <1>8 DEF NeighboursOf
<1>13. \A v \in DOMAIN conn : 0 <= dis[v].d
  BY <1>5 DEF Reached
<1> DEFINE s == [dis |-> dis, vis |-> {k}]
<1>14. /\ s \in [dis : [DOMAIN conn -> Reached], vis : SUBSET DOMAIN conn]
       /\ s.dis = dis /\ s.vis = {k}
  BY <1>5
<1> HIDE DEF s
<1>15. Searched(conn, k, s)
  BY <1>12, <1>13, <1>14 DEF Searched, Depth
<1>16. Search(conn, k, s)
  BY <1>10, <1>11, <1>14, <1>15, <1>hop DEF Search
<1> QED
  BY <1>6, <1>16 DEF s

LEMMA NearestIs ==
    ASSUME NEW conn \in Seq(Ann), NEW k, NEW s, Search(conn, k, s), Nearest(s) # {}
    PROVE  /\ Min(Nearest(s)) \in DOMAIN conn \ s.vis
           /\ s.dis[Min(Nearest(s))].d < TTL
           /\ \A w \in DOMAIN conn \ s.vis : s.dis[Min(Nearest(s))].d <= s.dis[w].d
<1>1. s.dis \in [DOMAIN conn -> Reached] /\ DOMAIN s.dis = DOMAIN conn
  BY DEF Search
<1>2. Nearest(s) \subseteq Nat
  BY <1>1 DEF Nearest
<1>3. Min(Nearest(s)) \in Nearest(s)
  BY <1>2, MinIs
<1> QED
  BY <1>1, <1>3 DEF Nearest

\* A round of the search keeps what it has found.
LEMMA VisitIs ==
    ASSUME NEW conn \in Seq(Ann), NEW k \in DOMAIN conn, NEW s, Search(conn, k, s)
    PROVE  /\ Search(conn, k, Visit(conn, s))
           /\ IF Nearest(s) = {} THEN Visit(conn, s) = s
              ELSE \E u \in DOMAIN conn \ s.vis : Visit(conn, s).vis = s.vis \cup {u}
<1>1. CASE Nearest(s) = {}
  BY <1>1 DEF Visit
<1>2. CASE Nearest(s) # {}
  <2> DEFINE u == Min(Nearest(s))
             far == {v \in NeighboursOf(conn, u) : s.dis[v].d > s.dis[u].d + 1}
             next(v) == IF v \in far THEN [s.dis[u] EXCEPT !.d = @ + 1] ELSE s.dis[v]
             dis == [v \in DOMAIN s.dis |-> next(v)]
             t == [vis |-> s.vis \cup {u}, dis |-> dis]
  <2>1. /\ s.dis \in [DOMAIN conn -> Reached] /\ s.vis \in SUBSET DOMAIN conn
        /\ DOMAIN s.dis = DOMAIN conn /\ DOMAIN conn = 1..Len(conn) /\ Len(conn) \in Nat
        /\ k \in s.vis /\ s.dis[k].d <= 1 /\ HasPort(conn, k, s.dis[k])
        /\ Sound(conn, k, s.dis) /\ Searched(conn, k, s)

    BY DEF Search
  <2>2. /\ u \in DOMAIN conn \ s.vis /\ s.dis[u].d < TTL
        /\ \A w \in DOMAIN conn \ s.vis : s.dis[u].d <= s.dis[w].d
    BY <1>2, NearestIs
  <2> HIDE DEF u, far
  <2>3. u # k /\ s.dis[u].d >= 1 /\ Leads(conn, k, u, s.dis[u])
    <3>1. u \in DOMAIN conn \ {k}
      BY <2>1, <2>2
    <3>2. s.dis[u].d # TTL
      BY <2>2, BackendAssumption
    <3> QED
      BY <2>1, <3>1, <3>2 DEF Sound
  <2> USE DEF u, far
  <2>4. \A v \in DOMAIN conn : s.dis[v] \in Reached /\ s.dis[v].d \in 0..TTL /\ s.dis[v].hop \in Nat
    BY <2>1 DEF Reached
  <2>5. \A v \in far : v \in DOMAIN conn /\ v \in NeighboursOf(conn, u) /\ s.dis[v].d > s.dis[u].d + 1
    BY DEF NeighboursOf
  <2>6. Visit(conn, s) = [vis |-> s.vis \cup {u}, dis |-> <<>> \o dis]
    BY <1>2 DEF Visit
  <2> HIDE DEF u, far
  <2>7. k \notin far /\ u \notin far
    BY <2>1, <2>2, <2>3, <2>4, <2>5
  <2>8. s.dis[u].d + 1 < TTL \/ far = {}
    <3>1. ASSUME NEW v \in far
          PROVE  s.dis[u].d + 1 < TTL
      <4>1. s.dis[v].d \in 0..TTL /\ s.dis[v].d > s.dis[u].d + 1 /\ s.dis[u].d \in 0..TTL
        BY <2>2, <2>4, <2>5
      <4> QED
        BY <4>1, BackendAssumption
    <3> QED
      BY <3>1
  <2>9. ASSUME NEW v \in DOMAIN conn
        PROVE  /\ next(v) \in Reached
               /\ v \in far => next(v).d = s.dis[u].d + 1 /\ next(v).hop = s.dis[u].hop
               /\ v \notin far => next(v) = s.dis[v]
    <3>0. s.dis[u] \in [d : 0..TTL, hop : Nat]
      BY <2>2, <2>4 DEF Reached
    <3>1. [s.dis[u] EXCEPT !.d = @ + 1] = [d |-> s.dis[u].d + 1, hop |-> s.dis[u].hop]
      BY <3>0
    <3>2. CASE v \in far
      <4>1. s.dis[u].d + 1 \in 0..TTL /\ s.dis[u].hop \in Nat
        BY <2>2, <2>4, <2>8, <3>2, BackendAssumption
      <4> QED
        BY <3>1, <3>2, <4>1 DEF Reached
    <3>3. CASE v \notin far
      BY <2>4, <3>3
    <3> QED
      BY <3>2, <3>3
  <2> HIDE DEF next
  <2>10. /\ dis \in [DOMAIN conn -> Reached] /\ <<>> \o dis = dis
         /\ \A v \in DOMAIN conn : dis[v] = next(v)
    <3>1. dis \in [DOMAIN conn -> Reached] /\ \A v \in DOMAIN conn : dis[v] = next(v)
      BY <2>1, <2>9
    <3> HIDE DEF dis
    <3> QED
      BY <2>1, <3>1, Joined
  <2> HIDE DEF dis
  <2>11. /\ t \in [dis : [DOMAIN conn -> Reached], vis : SUBSET DOMAIN conn]
         /\ t.dis = dis /\ t.vis = s.vis \cup {u} /\ Visit(conn, s) = t
    BY <2>1, <2>2, <2>6, <2>10
  <2>12. ASSUME NEW v \in DOMAIN conn \ {k}
         PROVE  /\ dis[v].d >= 1
                /\ IF dis[v].d = TTL THEN dis[v].hop = NoPort ELSE Leads(conn, k, v, dis[v])
    <3>1. CASE v \notin far
      <4>1. dis[v] = s.dis[v]
        BY <2>9, <2>10, <3>1
      <4> QED
        BY <2>1, <4>1 DEF Sound
    <3>2. CASE v \in far
      <4>1. dis[v].d = s.dis[u].d + 1 /\ dis[v].hop = s.dis[u].hop
        BY <2>9, <2>10, <3>2
      <4>2. s.dis[u].hop \in DOMAIN conn[k].entry
        BY <2>3 DEF Leads
      <4>3. PICK w \in NeighboursOf(conn, k) :
              conn[w].ip = conn[k].entry[s.dis[u].hop]
                /\ conn[u].ip \in Within(conn, conn[w].ip, s.dis[u].d - 1)
        BY <2>3 DEF Leads
      <4>4. s.dis[u].d \in Nat /\ s.dis[u].d - 1 \in Nat /\ (s.dis[u].d - 1) + 1 = dis[v].d - 1
        BY <2>2, <2>3, <2>4, <4>1
      <4>5. conn[v].ip \in Within(conn, conn[w].ip, (s.dis[u].d - 1) + 1)
        BY <2>2, <2>5, <3>2, <4>3, <4>4, TableIs, WithinGrows
      <4>6. dis[v].d < TTL /\ dis[v].d >= 1
        BY <2>8, <3>2, <4>1, <4>4
      <4>7. Leads(conn, k, v, dis[v])
        BY <4>1, <4>2, <4>3, <4>4, <4>5 DEF Leads
      <4> QED
        BY <4>6, <4>7, BackendAssumption
    <3> QED
      BY <3>1, <3>2
  <2>13. \A v \in DOMAIN conn :
            /\ s.dis[v].d \in Nat /\ s.dis[u].d \in Nat
            /\ IF v \in far THEN dis[v].d = s.dis[u].d + 1 /\ s.dis[v].d > s.dis[u].d + 1
               ELSE dis[v] = s.dis[v]
    BY <2>2, <2>4, <2>5, <2>9, <2>10
  <2>14. \A w \in s.vis : w \in DOMAIN conn /\ Depth(k, s.dis, w) <= s.dis[u].d
    BY <2>1, <2>2 DEF Searched
  <2>15. \A w \in s.vis : Depth(k, dis, w) = Depth(k, s.dis, w) /\ Depth(k, s.dis, w) \in Nat
    BY <2>13, <2>14 DEF Depth
  <2>16. Depth(k, dis, u) = s.dis[u].d
    BY <2>2, <2>3, <2>7, <2>13 DEF Depth
  <2>17. ASSUME NEW w \in t.vis, NEW v \in NeighboursOf(conn, w) \ {k}
         PROVE  dis[v].d <= Depth(k, dis, w) + 1
    <3>1. v \in DOMAIN conn
      BY DEF NeighboursOf
    <3>2. CASE w = u
      <4>1. v \notin far => s.dis[v].d <= s.dis[u].d + 1
        BY <2>13, <3>1, <3>2 DEF far
      <4> QED
        BY <2>13, <2>16, <3>1, <3>2, <4>1
    <3>3. CASE w \in s.vis
      <4>1. s.dis[v].d <= Depth(k, s.dis, w) + 1
        BY <2>1, <3>3 DEF Searched
      <4>2. dis[v].d <= s.dis[v].d /\ dis[v].d \in Nat
        <5>1. s.dis[v].d \in Nat /\ s.dis[u].d \in Nat
          BY <2>13, <3>1
        <5>2. CASE v \in far
          <6>1. dis[v].d = s.dis[u].d + 1 /\ s.dis[v].d > s.dis[u].d + 1
            BY <2>13, <3>1, <5>2, Zenon
          <6> QED
            BY <5>1, <6>1
        <5>3. CASE v \notin far
          BY <2>13, <3>1, <5>1, <5>3
        <5> QED
          BY <5>2, <5>3
      <4> QED
        BY <2>13, <2>15, <3>1, <3>3, <4>1, <4>2
    <3> QED
      BY <2>11, <3>2, <3>3
  <2>18. ASSUME NEW w \in t.vis, NEW v \in DOMAIN conn \ t.vis
         PROVE  Depth(k, dis, w) <= dis[v].d
    <3>1. v \in DOMAIN conn \ s.vis /\ s.dis[u].d <= dis[v].d /\ dis[v].d \in Nat
      BY <2>2, <2>11, <2>13
    <3>2. Depth(k, dis, w) <= s.dis[u].d /\ Depth(k, dis, w) \in Nat
      BY <2>2, <2>11, <2>13, <2>14, <2>15, <2>16
    <3> QED
      BY <2>2, <2>13, <3>1, <3>2
  <2>19. Sound(conn, k, dis) /\ Searched(conn, k, t)
    BY <2>11, <2>12, <2>17, <2>18, Zenon DEF Sound, Searched
  <2> HIDE DEF t
  <2>20. Search(conn, k, t)
    BY <2>1, <2>7, <2>9, <2>10, <2>11, <2>19 DEF Search
  <2> QED
    BY <1>2, <2>2, <2>11, <2>20

<1> QED
  BY <1>1, <1>2

\* The rounds a router with that many entries searches leave nothing to visit.
LEMMA DijkstraIs ==
    ASSUME NEW conn \in Seq(Ann), NEW r, Places(conn, r) # {}
    PROVE  \E s : /\ Search(conn, Min(Places(conn, r)), s) /\ Nearest(s) = {}
                  /\ Dijkstra(conn, r) = s.dis
<1> DEFINE k == Min(Places(conn, r))
           s0 == [dis |-> Start(conn, k), vis |-> {k}]
           Q == {s \in [dis : [DOMAIN conn -> Reached], vis : SUBSET DOMAIN conn] :
                    Search(conn, k, s)}
           S == {{s} : s \in Q}
           f == [y \in (Nat \X S) |-> {Visit(conn, s) : s \in y[2]}]
           Body(g) == [t \in Nat |->
                        IF t = 0 THEN {[dis |-> Start(conn, k), vis |-> {k}]}
                        ELSE {Visit(conn, s) : s \in g[t - 1]}]
           after == CHOOSE g : g = Body(g)
<1>1. k \in DOMAIN conn
  BY PlaceFound
<1>2. Dijkstra(conn, r) = (CHOOSE s \in after[Len(conn) - 1] : TRUE).dis
  BY DEF Dijkstra
<1> HIDE DEF k
<1>3. s0 \in Q
  BY <1>1, StartIs DEF Search
<1>4. ASSUME NEW t \in Nat, NEW x \in S
      PROVE  f[<<t, x>>] = {Visit(conn, s) : s \in x} /\ f[<<t, x>>] \in S
  <2>1. PICK s \in Q : x = {s}
    OBVIOUS
  <2>2. Search(conn, k, Visit(conn, s))
    BY <1>1, VisitIs
  <2>3. Visit(conn, s) \in Q
    BY <2>2 DEF Search
  <2>4. <<t, x>> \in Nat \X S
    OBVIOUS
  <2>5. {Visit(conn, y) : y \in x} = {Visit(conn, s)}
    BY <2>1
  <2> QED
    BY <2>3, <2>4, <2>5
<1>5. {s0} \in S
  BY <1>3
<1>6. StaysIn(f, S)
  BY <1>4 DEF StaysIn
<1> HIDE DEF f, S
<1>7. PICK g \in [Nat -> S] : FollowsOn(g, f, {s0})
  BY <1>5, <1>6, NatFoldExists
<1>8. g = Body(g)
  <2>1. ASSUME NEW t \in Nat
        PROVE  g[t] = Body(g)[t]
    <3>1. CASE t = 0
      BY <1>7, <3>1 DEF FollowsOn
    <3>2. CASE t # 0
      <4>1. t \in Nat \ {0} /\ t - 1 \in Nat
        BY <3>2
      <4>2. g[t - 1] \in S /\ g[t] = f[<<t, g[t - 1]>>]
        BY <1>7, <4>1 DEF FollowsOn
      <4>3. g[t] = {Visit(conn, s) : s \in g[t - 1]}
        BY <1>4, <4>2
      <4> QED
        BY <3>2, <4>3
    <3> QED
      BY <3>1, <3>2
  <2>2. g = [t \in Nat |-> g[t]] /\ Body(g) = [t \in Nat |-> Body(g)[t]]
    OBVIOUS
  <2> HIDE DEF Body
  <2> QED
    BY <2>1, <2>2
<1>9. after = Body(after)
  BY <1>8
<1> HIDE DEF after
<1>10. after[0] = {s0}
  BY <1>9
<1>11. ASSUME NEW t \in Nat
       PROVE  after[t + 1] = {Visit(conn, s) : s \in after[t]}
  <2>1. t + 1 \in Nat /\ t + 1 # 0 /\ (t + 1) - 1 = t
    OBVIOUS
  <2> QED
    BY <1>9, <2>1
<1> HIDE DEF s0
<1> DEFINE Far(s, t) == Search(conn, k, s) /\ (Nearest(s) = {} \/ Cardinality(s.vis) >= t + 1)
           T == {t \in Nat : \E s : after[t] = {s} /\ Far(s, t)}
<1>12. ASSUME NEW s, Search(conn, k, s)
       PROVE  IsFiniteSet(s.vis) /\ Cardinality(s.vis) \in Nat /\ s.vis \subseteq DOMAIN conn
  <2>1. s.vis \subseteq DOMAIN conn /\ DOMAIN conn = 1..Len(conn) /\ Len(conn) \in Nat
    BY <1>12 DEF Search
  <2>2. IsFiniteSet(DOMAIN conn)
    BY <2>1, FS_Interval
  <2> QED
    BY <2>1, <2>2, FS_Subset, FS_CardinalityType
<1>13. 0 \in T
  <2>1. Search(conn, k, s0) /\ s0.vis = {k}
    BY <1>3 DEF s0
  <2>2. Cardinality({k}) = 1
    BY FS_Singleton
  <2>3. Cardinality(s0.vis) = 1
    BY <2>1, <2>2
  <2>4. Far(s0, 0)
    BY <2>1, <2>3
  <2> HIDE DEF Far
  <2> QED
    BY <1>10, <2>4
<1>14. ASSUME NEW t \in Nat, t \in T
       PROVE  t + 1 \in T
  <2>1. PICK s : after[t] = {s} /\ Far(s, t)
    BY <1>14
  <2>2. after[t + 1] = {Visit(conn, s)}
    BY <1>11, <2>1
  <2>3. /\ Search(conn, k, Visit(conn, s))
        /\ IF Nearest(s) = {} THEN Visit(conn, s) = s
           ELSE \E u \in DOMAIN conn \ s.vis : Visit(conn, s).vis = s.vis \cup {u}
    BY <1>1, <2>1, VisitIs
  <2>4. CASE Nearest(s) = {}
    BY <2>1, <2>2, <2>3, <2>4
  <2>5. CASE Nearest(s) # {}
    <3>1. PICK u \in DOMAIN conn \ s.vis : Visit(conn, s).vis = s.vis \cup {u}
      BY <2>3, <2>5
    <3>2. Cardinality(s.vis \cup {u}) = Cardinality(s.vis) + 1
      BY <1>12, <2>1, <3>1, FS_AddElement
    <3>3. Cardinality(Visit(conn, s).vis) >= (t + 1) + 1
      BY <1>12, <2>1, <2>5, <3>1, <3>2
    <3> QED
      BY <2>2, <2>3, <3>3
  <2> QED
    BY <2>4, <2>5
<1> HIDE DEF T
<1>15. Nat \subseteq T
  BY <1>13, <1>14, NatAll
<1>16. Len(conn) - 1 \in Nat /\ DOMAIN conn = 1..Len(conn) /\ Len(conn) \in Nat
  BY <1>1
<1>17. PICK s : after[Len(conn) - 1] = {s} /\ Far(s, Len(conn) - 1)
  BY <1>15, <1>16 DEF T
<1>18. Dijkstra(conn, r) = s.dis
  BY <1>2, <1>17
<1>19. Nearest(s) = {}
  <2>1. SUFFICES ASSUME Cardinality(s.vis) >= Len(conn)
                 PROVE  Nearest(s) = {}
    BY <1>16, <1>17
  <2>2. IsFiniteSet(DOMAIN conn) /\ Cardinality(DOMAIN conn) = Len(conn)
    BY <1>16, FS_Interval
  <2>3. s.vis = DOMAIN conn
    BY <1>12, <1>16, <1>17, <2>1, <2>2, FS_Subset
  <2>4. DOMAIN s.dis = DOMAIN conn
    BY <1>17 DEF Search
  <2> QED
    BY <2>3, <2>4 DEF Nearest
<1> QED
  BY <1>17, <1>18, <1>19 DEF k

\* While a place not visited is nearer than infinity there is a nearest one.
LEMMA NearestNone ==
    ASSUME NEW conn \in Seq(Ann), NEW k, NEW s, Search(conn, k, s), Nearest(s) = {},
           NEW v \in DOMAIN conn \ s.vis
    PROVE  s.dis[v].d = TTL
<1> DEFINE D == {s.dis[u].d : u \in DOMAIN conn \ s.vis}
<1>1. DOMAIN s.dis = DOMAIN conn /\ \A u \in DOMAIN conn : s.dis[u].d \in 0..TTL
  BY DEF Search, Reached
<1>2. D \subseteq Nat /\ D # {}
  BY <1>1
<1>3. Min(D) \in D /\ \A d \in D : Min(D) <= d
  BY <1>2, MinIs
<1>4. PICK u \in DOMAIN conn \ s.vis : Min(D) = s.dis[u].d
  BY <1>3
<1>5. \A w \in DOMAIN conn \ s.vis : s.dis[u].d <= s.dis[w].d
  BY <1>3, <1>4
<1>6. ~(s.dis[u].d < TTL)
  BY <1>1, <1>4, <1>5 DEF Nearest
<1>7. s.dis[u].d <= s.dis[v].d /\ s.dis[u].d \in 0..TTL /\ s.dis[v].d \in 0..TTL
  BY <1>1, <1>4, <1>5
<1> QED
  BY <1>6, <1>7, BackendAssumption

\* No router is nearer than the search says.
LEMMA NoneNearer ==
    ASSUME NEW conn \in Seq(Ann), Once(conn), NEW k \in DOMAIN conn,
           NEW s, Search(conn, k, s), Nearest(s) = {}
    PROVE  \A n \in Nat : \A v \in DOMAIN conn \ {k} :
              conn[v].ip \in Within(conn, conn[k].ip, n) /\ n < TTL => s.dis[v].d <= n
<1> DEFINE Near(n) == \A v \in DOMAIN conn \ {k} :
              conn[v].ip \in Within(conn, conn[k].ip, n) /\ n < TTL => s.dis[v].d <= n
           S == {n \in Nat : Near(n)}
<1>1. \A v \in DOMAIN conn : s.dis[v].d \in 0..TTL /\ s.dis[v].d \in Nat
  BY BackendAssumption DEF Search, Reached
<1>2. 0 \in S
  BY TableIs, WithinIs DEF Once
<1>3. ASSUME NEW n \in Nat, n \in S
      PROVE  n + 1 \in S
  <2>1. ASSUME NEW v \in DOMAIN conn \ {k}, n + 1 < TTL,
               conn[v].ip \in Within(conn, conn[k].ip, n + 1)
        PROVE  s.dis[v].d <= n + 1
    <3>0. n < TTL /\ TTL \in Nat
      BY <2>1, BackendAssumption
    <3>1. CASE conn[v].ip \in Within(conn, conn[k].ip, n)
      <4>1. s.dis[v].d <= n
        BY <1>3, <3>0, <3>1
      <4> QED
        BY <1>1, <4>1
    <3>2. CASE \E u \in DOMAIN conn : \E w \in NeighboursOf(conn, u) :
                 conn[u].ip \in Within(conn, conn[k].ip, n) /\ conn[v].ip = conn[w].ip
      <4>0. PICK u \in DOMAIN conn : \E w \in NeighboursOf(conn, u) :
                 conn[u].ip \in Within(conn, conn[k].ip, n) /\ conn[v].ip = conn[w].ip
        BY <3>2
      <4>1. PICK w \in NeighboursOf(conn, u) :
                 conn[u].ip \in Within(conn, conn[k].ip, n) /\ conn[v].ip = conn[w].ip
        BY <4>0
      <4>2. w = v
        BY <4>1 DEF Once, NeighboursOf
      <4>3. Depth(k, s.dis, u) \in Nat /\ Depth(k, s.dis, u) <= n
        BY <1>1, <1>3, <3>0, <4>1 DEF Depth
      <4>4. u \in s.vis
        <5>1. SUFFICES ASSUME u \notin s.vis
                       PROVE  FALSE
          OBVIOUS
        <5>2. u # k /\ s.dis[u].d = TTL
          BY <5>1, NearestNone DEF Search
        <5> QED
          BY <3>0, <4>3, <5>2 DEF Depth
      <4>5. s.dis[v].d <= Depth(k, s.dis, u) + 1
        BY <4>2, <4>4 DEF Search, Searched
      <4> QED
        BY <1>1, <4>3, <4>5
    <3> QED
      BY <2>1, <3>1, <3>2, TableIs, WithinGrows
  <2> QED
    BY <2>1
<1> HIDE DEF S
<1>4. Nat \subseteq S
  BY <1>2, <1>3, NatAll
<1> QED
  BY <1>4 DEF S

\* dijkstra finds the distance of every other known router, and for one that a
\* packet can reach the first port of a shortest path.
LEMMA ShortestFound ==
    ASSUME NEW conn \in Seq(Ann), Once(conn), NEW r, Places(conn, r) # {},
           NEW v \in DOMAIN conn, conn[v].ip # r
    PROVE  LET at == Dijkstra(conn, r)[v]
               entry == conn[Min(Places(conn, r))].entry
           IN  /\ at.d = Distance(conn, r, conn[v].ip)
               /\ IF at.d = TTL THEN at.hop = NoPort
                  ELSE /\ at.hop \in DOMAIN entry
                       /\ \E w \in DOMAIN conn : conn[w].ip = entry[at.hop]
                       /\ Distance(conn, entry[at.hop], conn[v].ip) = at.d - 1
<1> DEFINE k == Min(Places(conn, r))
           entry == conn[k].entry
<1>1. k \in DOMAIN conn /\ conn[k].ip = r /\ v \in DOMAIN conn \ {k}
  BY PlaceFound
<1>2. PICK s : Search(conn, k, s) /\ Nearest(s) = {} /\ Dijkstra(conn, r) = s.dis
  BY DijkstraIs
<1> HIDE DEF k
<1> DEFINE at == s.dis[v]
<1>3. at.d \in 0..TTL /\ at.d >= 1 /\ at.d \in Nat /\ TTL \in Nat
  BY <1>1, <1>2, BackendAssumption DEF Search, Sound, Reached
<1>4. IF at.d = TTL THEN at.hop = NoPort ELSE Leads(conn, k, v, at)
  BY <1>1, <1>2 DEF Search, Sound
<1> HIDE DEF at
<1>5. ASSUME NEW n \in Nat, n < TTL, conn[v].ip \in Within(conn, r, n)
      PROVE  at.d <= n
  BY <1>1, <1>2, <1>5, NoneNearer DEF at
<1>6. CASE at.d = TTL
  <2>1. \A m \in 0..(TTL - 1) : conn[v].ip \notin Within(conn, r, m)
    BY <1>3, <1>5, <1>6
  <2>2. Distance(conn, r, conn[v].ip) = TTL
    BY <2>1, DistanceNone
  <2> QED
    BY <1>2, <1>4, <1>6, <2>2 DEF at
<1>7. CASE at.d # TTL
  <2>1. at.hop \in DOMAIN entry
    BY <1>4, <1>7 DEF Leads
  <2>2. PICK w \in NeighboursOf(conn, k) :
          conn[w].ip = entry[at.hop] /\ conn[v].ip \in Within(conn, conn[w].ip, at.d - 1)
    BY <1>4, <1>7 DEF Leads
  <2>3. w \in DOMAIN conn
    BY DEF NeighboursOf
  <2>4. at.d - 1 \in Nat /\ (at.d - 1) + 1 = at.d /\ at.d < TTL
    BY <1>3, <1>7
  <2>5. \A n \in Nat : conn[v].ip \in Within(conn, conn[w].ip, n)
                          => conn[v].ip \in Within(conn, r, n + 1)
    BY <1>1, TableIs, WithinAhead
  <2>6. conn[v].ip \in Within(conn, r, at.d)
    BY <2>2, <2>4, <2>5
  <2>7. Distance(conn, r, conn[v].ip) = at.d
    <3>1. at.d \in 0..(TTL - 1)
      BY <1>3, <2>4
    <3>2. \A m \in 0..(TTL - 1) : conn[v].ip \in Within(conn, r, m) => at.d <= m
      BY <1>3, <1>5
    <3> QED
      BY <2>6, <3>1, <3>2, DistanceIs
  <2>8. Distance(conn, conn[w].ip, conn[v].ip) = at.d - 1
    <3>1. at.d - 1 \in 0..(TTL - 1)
      BY <1>3, <2>4
    <3>2. ASSUME NEW m \in 0..(TTL - 1), conn[v].ip \in Within(conn, conn[w].ip, m)
          PROVE  at.d - 1 <= m
      <4>1. m \in Nat /\ m + 1 \in Nat /\ conn[v].ip \in Within(conn, r, m + 1)
        BY <2>5, <3>2
      <4>2. m + 1 < TTL => at.d <= m + 1
        BY <1>5, <4>1
      <4> QED
        BY <1>3, <2>4, <4>1, <4>2
    <3> QED
      BY <2>2, <3>1, <3>2, DistanceIs
  <2> QED
    BY <1>2, <1>7, <2>1, <2>2, <2>3, <2>7, <2>8 DEF at, k
<1> QED
  BY <1>6, <1>7

\* What dijkstra returns has an entry for every router known, and only ports of
\* the router itself.
LEMMA DijkstraShape ==
    ASSUME NEW conn \in Seq(Ann), NEW r
    PROVE  /\ Dijkstra(conn, r) \in [DOMAIN conn -> Reached]
           /\ Len(Dijkstra(conn, r)) = Len(conn)
           /\ Places(conn, r) = {} =>
                \A v \in DOMAIN conn : Dijkstra(conn, r)[v].hop = NoPort
           /\ \A v \in DOMAIN conn :
                HasPort(conn, Min(Places(conn, r)), Dijkstra(conn, r)[v])
<1> DEFINE k == Min(Places(conn, r))
           dis == Dijkstra(conn, r)
<1>1. CASE Places(conn, r) = {}
  <2>1. dis = [v \in DOMAIN conn |-> [d |-> TTL, hop |-> NoPort]]
    BY <1>1 DEF Dijkstra
  <2> HIDE DEF dis
  <2>2. dis \in [DOMAIN conn -> Reached] /\ \A v \in DOMAIN conn : dis[v].hop = NoPort
    BY <2>1, BackendAssumption DEF Reached, NoPort
  <2>3. \A v \in DOMAIN conn : HasPort(conn, k, dis[v])
    BY <2>2 DEF HasPort
  <2> QED
    BY <2>2, <2>3 DEF dis
<1>2. CASE Places(conn, r) # {}
  <2>1. PICK s : Search(conn, k, s) /\ dis = s.dis
    BY <1>2, DijkstraIs
  <2> HIDE DEF dis, k
  <2>2. dis \in [DOMAIN conn -> Reached]
    BY <2>1 DEF Search
  <2>3. \A v \in DOMAIN conn : HasPort(conn, k, dis[v])
    BY <2>1 DEF Search, Sound, Leads, HasPort
  <2> QED
    BY <1>2, <2>2, <2>3 DEF dis, k
<1> QED
  BY <1>1, <1>2

-----------------------------------------------------------------------------
(* Two tables that agree on some routers.                                  *)

\* The known neighbours of y.
LinksFrom(conn, y) ==
    {conn[v].ip : v \in UNION {NeighboursOf(conn, u) : u \in Places(conn, y)}}

SameLinks(c, d, Z) ==
    \A y \in Z : LinksFrom(c, y) = LinksFrom(d, y) /\ LinksFrom(c, y) \subseteq Z

LEMMA SameWithin ==
    ASSUME NEW c, OfRouters(c), NEW d, OfRouters(d), NEW Z, SameLinks(c, d, Z), NEW x \in Z
    PROVE  \A n \in Nat : Within(c, x, n) = Within(d, x, n) /\ Within(c, x, n) \subseteq Z
<1> DEFINE S == {n \in Nat : Within(c, x, n) = Within(d, x, n) /\ Within(c, x, n) \subseteq Z}
<1>1. 0 \in S
  <2>1. Within(c, x, 0) = {x} /\ Within(d, x, 0) = {x}
    BY WithinIs
  <2> QED
    BY <2>1
<1>2. ASSUME NEW n \in Nat, n \in S
      PROVE  n + 1 \in S
  <2> DEFINE W == Within(c, x, n)
  <2>1. W = Within(d, x, n) /\ W \subseteq Z
    BY <1>2
  <2>2. /\ Within(c, x, n + 1) = W \cup Beyond(c, W)
        /\ Within(d, x, n + 1) = W \cup Beyond(d, W)
    BY <2>1, WithinIs
  <2> HIDE DEF W
  <2>3. /\ Beyond(c, W) = UNION {LinksFrom(c, y) : y \in W}
        /\ Beyond(d, W) = UNION {LinksFrom(d, y) : y \in W}
    BY DEF Beyond, LinksFrom, Places
  <2>4. Beyond(c, W) = Beyond(d, W) /\ Beyond(c, W) \subseteq Z
    BY <2>1, <2>3 DEF SameLinks
  <2> QED
    BY <2>1, <2>2, <2>4
<1> HIDE DEF S
<1>3. Nat \subseteq S
  BY <1>1, <1>2, NatAll
<1> QED
  BY <1>3 DEF S

LEMMA SameDistance ==
    ASSUME NEW c, OfRouters(c), NEW d, OfRouters(d), NEW Z, SameLinks(c, d, Z), NEW x \in Z
    PROVE  \A y : Distance(c, x, y) = Distance(d, x, y)
<1>1. \A n \in 0..(TTL - 1) : Within(c, x, n) = Within(d, x, n)
  BY SameWithin, BackendAssumption
<1>2. \A y : {n \in 0..(TTL - 1) : y \in Within(c, x, n)} =
                 {n \in 0..(TTL - 1) : y \in Within(d, x, n)}
  BY <1>1
<1> QED
  BY <1>2 DEF Distance
=============================================================================
