--------------------------- MODULE RoutingProofs ----------------------------
(***************************************************************************)
(* Proofs about Routing, for any network of routers.                       *)
(***************************************************************************)
EXTENDS Routing, LspRoutesProofs

-----------------------------------------------------------------------------
(* What a backend last heard of a router.                                  *)

\* It is what was pushed last.
LEMMA QueueLatest ==
    ASSUME NEW b, IsBackend(b), NEW a \in Ann, NEW s
    PROVE  Latest(Queue(b, a), s) = IF s = a.ip THEN a.entry ELSE Latest(b, s)
<1> DEFINE b2 == Queue(b, a)
           old == {i \in DOMAIN b.que : b.que[i].ip = s}
           new == {i \in DOMAIN b2.que : b2.que[i].ip = s}
           n == Len(b.que)
<1>1. b.que \in Seq(Ann)
  BY DEF IsBackend
<1>2. b2.que = Append(b.que, a) /\ b2.conn = b.conn
  BY Queued
<1> HIDE DEF b2
<1>3. /\ n \in Nat /\ DOMAIN b.que = 1..n /\ DOMAIN b2.que = 1..(n + 1)
      /\ b2.que[n + 1] = a /\ \A i \in 1..n : b2.que[i] = b.que[i]
  BY <1>1, <1>2
<1> HIDE DEF n
<1>4. CASE s = a.ip
  <2>1. n + 1 \in new /\ new \subseteq 1..(n + 1) /\ n + 1 \in Nat
    BY <1>3, <1>4
  <2>2. Max(new) \in new /\ \A m \in new : m <= Max(new)
    BY <2>1, MaxIs
  <2>3. Max(new) \in 1..(n + 1) /\ n + 1 <= Max(new)
    BY <2>1, <2>2
  <2>4. Max(new) = n + 1
    BY <1>3, <2>3
  <2> QED
    BY <1>3, <1>4, <2>1, <2>4 DEF Latest, b2
<1>5. CASE s # a.ip
  <2>1. new = old
    BY <1>3, <1>5
  <2>2. CASE old = {}
    BY <1>2, <1>5, <2>1, <2>2 DEF Latest, b2
  <2>3. CASE old # {}
    <3>1. Max(old) \in 1..n
      BY <1>3, <2>3, MaxIs
    <3> QED
      BY <1>3, <1>5, <2>1, <2>3, <3>1 DEF Latest, b2
  <2> QED
    BY <2>2, <2>3
<1> QED
  BY <1>4, <1>5

\* The task does not change it.
LEMMA TaskLatest ==
    ASSUME NEW b, IsBackend(b), b.que # <<>>, NEW r, NEW s
    PROVE  Latest(TaskRun(b, r), s) = Latest(b, s)
<1> DEFINE b2 == TaskRun(b, r)
           old == {i \in DOMAIN b.que : b.que[i].ip = s}
           new == {i \in DOMAIN b2.que : b2.que[i].ip = s}
           n == Len(b.que)
           h == b.que[1]
<1>1. b.que \in Seq(Ann) /\ b.conn \in Seq(Ann)
  BY DEF IsBackend
<1>2. b2.que = Tail(b.que) /\ b2.conn = Updated(b.conn, h)
  BY Worked, <1>1
<1> HIDE DEF b2
<1>3. /\ n \in Nat \ {0} /\ DOMAIN b.que = 1..n /\ DOMAIN b2.que = 1..(n - 1)
      /\ \A i \in 1..(n - 1) : b2.que[i] = b.que[i + 1]
  BY <1>1, <1>2
<1>4. h \in Ann
  BY <1>1, <1>3
<1> HIDE DEF n
<1>5. /\ new \subseteq 1..(n - 1) /\ n - 1 \in Nat /\ old \subseteq 1..((n - 1) + 1)
      /\ \A i \in new : i + 1 \in old
      /\ \A i \in old : i = 1 \/ i - 1 \in new
  BY <1>3
<1>6. 1 \in old <=> s = h.ip
  BY <1>3
<1> HIDE DEF h
<1>7. CASE new # {}
  <2>1. Max(old) = Max(new) + 1 /\ Max(new) \in new
    BY <1>7, <1>5, MaxShift, MaxIs
  <2>2. b2.que[Max(new)] = b.que[Max(old)] /\ old # {}
    BY <1>3, <1>5, <2>1
  <2> QED
    BY <1>7, <2>2 DEF Latest, b2
<1>8. CASE new = {} /\ s = h.ip
  <2>1. old = {1}
    BY <1>8, <1>5, <1>6
  <2>2. Max(old) = 1
    BY <2>1, MaxIs
  <2>3. /\ Places(b2.conn, s) # {}
        /\ b2.conn[Min(Places(b2.conn, s))] = h
    <3>1. /\ Places(Updated(b.conn, h), h.ip) # {}
          /\ Updated(b.conn, h)[Min(Places(Updated(b.conn, h), h.ip))] = h
      BY <1>1, <1>4, UpdatedTable
    <3> QED
      BY <1>2, <1>8, <3>1, Zenon
  <2> QED
    BY <1>8, <2>1, <2>2, <2>3 DEF Latest, b2, h
<1>9. CASE new = {} /\ s # h.ip
  <2>1. old = {}
    BY <1>9, <1>5, <1>6
  <2>2. /\ Places(b2.conn, s) = Places(b.conn, s)
        /\ \A i \in Places(b.conn, s) : b2.conn[i] = b.conn[i]
    <3>1. \A t : t # h.ip =>
            /\ Places(Updated(b.conn, h), t) = Places(b.conn, t)
            /\ \A i \in Places(b.conn, t) : Updated(b.conn, h)[i] = b.conn[i]
      BY <1>1, <1>4, UpdatedTable
    <3> QED
      BY <1>2, <1>9, <3>1, Zenon
  <2>3. Places(b.conn, s) \subseteq Nat
    BY <1>1 DEF Places
  <2>4. Places(b.conn, s) # {} => Min(Places(b.conn, s)) \in Places(b.conn, s)
    BY <2>3, MinIs
  <2> QED
    BY <1>9, <2>1, <2>2, <2>4 DEF Latest, b2
<1> QED
  BY <1>7, <1>8, <1>9
-----------------------------------------------------------------------------
(* What is on the wires.                                                   *)

Entries == Seq(Routers \cup {NoAddress})

Plain == [type : {"Hello", "Ack"}, src : Routers, ttl : Int]
Datas == [type : {"Data"}, src : Routers, ttl : Int, dst : Routers]
Sequences == [type : {"Sequence"}, src : Routers, ttl : Int, sequence : Nat, entry : Entries]

\* Packets that are genuine when each router r announced ann[r]: a copy of an
\* announcement says what its router announced under its number.
Genuine(ann) ==
    Plain \cup Datas \cup
    {p \in Sequences : p.sequence \in 1..Len(ann[p.src]) /\ p.entry = ann[p.src][p.sequence]}

\* No wire of w has two copies of an announcement, and who sent one on, as f
\* are the frontends, has noted it.
FloodedOnce(f, w) ==
    \A l \in Links : \A i \in DOMAIN w[l] :
        LET p == w[l][i]
        IN  p.type = "Sequence" =>
                /\ \A j \in DOMAIN w[l] : w[l][j].type = "Sequence" /\ i # j =>
                    <<w[l][j].src, w[l][j].sequence>> # <<p.src, p.sequence>>
                /\ l[1] # p.src => f[l[1]].sequenceInfo[p.src] >= p.sequence

\* IpFrontend::push changes nothing of a packet but its TTL.
LEMMA PassedIs ==
    ASSUME NEW ann, NEW p \in Genuine(ann)
    PROVE  /\ p.src \in Routers /\ Passed(p) \in Genuine(ann)
           /\ Passed(p).type = p.type /\ Passed(p).src = p.src
           /\ p.type = "Sequence" =>
                /\ p \in Sequences
                /\ p.sequence \in 1..Len(ann[p.src]) /\ p.entry = ann[p.src][p.sequence]
                /\ Passed(p).sequence = p.sequence /\ Passed(p).entry = p.entry
<1>1. CASE p \in Plain
  BY <1>1 DEF Plain, Passed, Genuine
<1>2. CASE p \in Datas
  BY <1>2 DEF Datas, Passed, Genuine
<1>3. CASE p \in Sequences /\ p.sequence \in 1..Len(ann[p.src]) /\ p.entry = ann[p.src][p.sequence]
  BY <1>3 DEF Sequences, Passed, Genuine
<1> QED
  BY <1>1, <1>2, <1>3 DEF Genuine

\* A wire that delivers.
LEMMA TakenIs ==
    ASSUME NEW G, NEW w \in [Links -> Seq(G)], NEW l \in Links, w[l] # <<>>
    PROVE  /\ Head(w[l]) \in G /\ [w EXCEPT ![l] = Tail(@)] \in [Links -> Seq(G)]
           /\ DOMAIN w[l] = 1..Len(w[l]) /\ Len(w[l]) \in Nat \ {0}
           /\ w[l][1] = Head(w[l])
           /\ \A m \in Links :
                LET v == [w EXCEPT ![l] = Tail(@)][m]
                IN  IF m = l THEN /\ DOMAIN v = 1..(Len(w[l]) - 1)
                                  /\ \A i \in DOMAIN v : v[i] = w[l][i + 1]
                    ELSE v = w[m]
<1>1. w[l] \in Seq(G)
  OBVIOUS
<1>2. /\ Head(w[l]) \in G /\ Tail(w[l]) \in Seq(G) /\ DOMAIN w[l] = 1..Len(w[l])
      /\ Len(w[l]) \in Nat \ {0} /\ w[l][1] = Head(w[l])
      /\ DOMAIN Tail(w[l]) = 1..(Len(w[l]) - 1)
      /\ \A i \in DOMAIN Tail(w[l]) : Tail(w[l])[i] = w[l][i + 1]
  BY <1>1
<1> QED
  BY <1>2

LEMMA TakenOnce ==
    ASSUME NEW G, NEW w \in [Links -> Seq(G)], NEW l \in Links, w[l] # <<>>, NEW f,
           FloodedOnce(f, w)
    PROVE  FloodedOnce(f, [w EXCEPT ![l] = Tail(@)])
<1> DEFINE v == [w EXCEPT ![l] = Tail(@)]
<1>1. /\ DOMAIN w[l] = 1..Len(w[l]) /\ Len(w[l]) \in Nat \ {0}
      /\ DOMAIN v[l] = 1..(Len(w[l]) - 1)
      /\ \A i \in DOMAIN v[l] : v[l][i] = w[l][i + 1]
      /\ \A m \in Links : m # l => v[m] = w[m]
  BY TakenIs
<1> HIDE DEF v
<1>2. \A i \in DOMAIN v[l] : i + 1 \in DOMAIN w[l]
  BY <1>1
<1>3. \A i, j \in DOMAIN v[l] : i # j => i + 1 # j + 1
  BY <1>1
<1> QED
  BY <1>1, <1>2, <1>3 DEF FloodedOnce, v

\* A packet that is sent is added to wires of its sender only.
LEMMA PushedIs ==
    ASSUME NEW G, NEW w \in [Links -> Seq(G)], NEW r, NEW S, NEW p \in G
    PROVE  /\ Pushed(w, r, S, p) \in [Links -> Seq(G)]
           /\ \A l \in Links : \/ Pushed(w, r, S, p)[l] = w[l]
                               \/ l[1] = r /\ Pushed(w, r, S, p)[l] = Append(w[l], p)
<1>1. \A l \in Links : Append(w[l], p) \in Seq(G)
  OBVIOUS
<1> QED
  BY <1>1 DEF Pushed

\* It is the only copy there when its sender did not send it before.
LEMMA PushedOnce ==
    ASSUME NEW G, NEW w \in [Links -> Seq(G)], NEW r, NEW S, NEW p \in G,
           NEW f, FloodedOnce(f, w),
           p.type = "Sequence" =>
              /\ r # p.src => f[r].sequenceInfo[p.src] >= p.sequence
              /\ \A l \in Links : \A i \in DOMAIN w[l] :
                    l[1] = r /\ w[l][i].type = "Sequence" =>
                        <<w[l][i].src, w[l][i].sequence>> # <<p.src, p.sequence>>
    PROVE  FloodedOnce(f, Pushed(w, r, S, p))
<1> DEFINE v == Pushed(w, r, S, p)
<1>1. \A l \in Links : v[l] = w[l] \/ (l[1] = r /\ v[l] = Append(w[l], p))
  BY PushedIs
<1> HIDE DEF v
<1> SUFFICES ASSUME NEW l \in Links, NEW i \in DOMAIN v[l], v[l][i].type = "Sequence"
             PROVE  /\ \A j \in DOMAIN v[l] : v[l][j].type = "Sequence" /\ i # j =>
                        <<v[l][j].src, v[l][j].sequence>> # <<v[l][i].src, v[l][i].sequence>>
                    /\ l[1] # v[l][i].src =>
                        f[l[1]].sequenceInfo[v[l][i].src] >= v[l][i].sequence
  BY Zenon DEF FloodedOnce, v
<1>2. CASE v[l] = w[l]
  BY <1>2 DEF FloodedOnce
<1>3. CASE l[1] = r /\ v[l] = Append(w[l], p)
  <2>1. w[l] \in Seq(G)
    OBVIOUS
  <2>2. /\ DOMAIN v[l] = 1..(Len(w[l]) + 1) /\ DOMAIN w[l] = 1..Len(w[l])
        /\ Len(w[l]) \in Nat /\ v[l][Len(w[l]) + 1] = p
        /\ \A j \in DOMAIN w[l] : v[l][j] = w[l][j]
    BY <2>1, <1>3
  <2>3. \A j \in DOMAIN v[l] : j \in DOMAIN w[l] \/ (j = Len(w[l]) + 1 /\ v[l][j] = p)
    BY <2>2
  <2>4. CASE i \in DOMAIN w[l]
    BY <1>3, <2>2, <2>3, <2>4 DEF FloodedOnce
  <2>5. CASE i = Len(w[l]) + 1 /\ v[l][i] = p
    BY <1>3, <2>2, <2>3, <2>5 DEF FloodedOnce
  <2> QED
    BY <2>3, <2>4, <2>5
<1> QED
  BY <1>1, <1>2, <1>3

\* To have noted more is to have noted it.
LEMMA NotedMore ==
    ASSUME NEW ann, NEW w \in [Links -> Seq(Genuine(ann))], NEW f, NEW g, FloodedOnce(f, w),
           \A r, s \in Routers : /\ f[r].sequenceInfo[s] \in Nat
                                 /\ g[r].sequenceInfo[s] \in Nat
                                 /\ f[r].sequenceInfo[s] <= g[r].sequenceInfo[s]
    PROVE  FloodedOnce(g, w)
<1>1. ASSUME NEW l \in Links, NEW i \in DOMAIN w[l], w[l][i].type = "Sequence",
             l[1] # w[l][i].src, f[l[1]].sequenceInfo[w[l][i].src] >= w[l][i].sequence
      PROVE  g[l[1]].sequenceInfo[w[l][i].src] >= w[l][i].sequence
  <2>1. w[l][i] \in Genuine(ann) /\ l[1] \in Routers
    BY DEF Links
  <2>2. w[l][i].src \in Routers /\ w[l][i].sequence \in Nat
    BY <2>1, <1>1, PassedIs DEF Sequences
  <2> QED
    BY <1>1, <2>1, <2>2
<1> QED
  BY <1>1, Zenon DEF FloodedOnce

-----------------------------------------------------------------------------
(* The invariant.                                                          *)

Fronts == [state : {"WaitAck", "Sleep"}, sequence : Nat, portInfo : Entries,
           sequenceInfo : [Routers -> Nat]]

\* A frontend counts its own announcements, and has noted none that was not
\* made.
FrontsHold ==
    /\ front \in [Routers -> Fronts]
    /\ announced \in [Routers -> Seq(Entries)]
    /\ \A r \in Routers : front[r].sequence = Len(announced[r])
    /\ \A r, s \in Routers : front[r].sequenceInfo[s] <= Len(announced[s])

BacksHold ==
    /\ DOMAIN back = Routers
    /\ \A r \in Routers : /\ IsBackend(back[r])
                          /\ back[r].que # <<>> <=> back[r].scheduled

WiresHold == wire \in [Links -> Seq(Genuine(announced))]

\* The last announcement of s that a backend goes by, when front is f and every
\* router r announced ann[r].
HeardOf(f, r, s) == IF r = s THEN f[r].sequence ELSE f[r].sequenceInfo[s]
Told(ann, s, n) == IF n = 0 THEN Untold ELSE ann[s][n]

RoutingInv == FrontsHold /\ BacksHold /\ WiresHold /\ TablesAnnounced /\ FloodOnce

\* The two properties in terms of these, before and after a step.
LEMMA Restated ==
    /\ FloodOnce <=> FloodedOnce(front, wire)
    /\ FloodOnce' <=> FloodedOnce(front', wire')
    /\ TablesAnnounced <=>
          \A r, s \in Routers : Latest(back[r], s) = Told(announced, s, HeardOf(front, r, s))
    /\ TablesAnnounced' <=>
          \A r, s \in Routers :
              Latest(back'[r], s) = Told(announced', s, HeardOf(front', r, s))
BY Zenon DEF FloodOnce, FloodedOnce, TablesAnnounced, Told, HeardOf

LEMMA RoutingInvInit == RoutingInit => RoutingInv
<1> SUFFICES ASSUME RoutingInit
             PROVE  RoutingInv
  OBVIOUS
<1>1. <<>> \in Entries /\ <<>> \in Seq(Entries) /\ Len(<<>>) = 0
  BY DEF Entries
<1>2. FrontsHold
  <2>1. \A r \in Routers :
          /\ front[r] \in Fronts /\ front[r].sequence = 0
          /\ \A s \in Routers : front[r].sequenceInfo[s] = 0
    BY <1>1 DEF RoutingInit, Fronts
  <2>2. announced = [r \in Routers |-> <<>>] /\ \E f : front = [r \in Routers |-> f]
    BY Zenon DEF RoutingInit
  <2> QED
    BY <1>1, <2>1, <2>2 DEF FrontsHold
<1>3. BacksHold
  BY EmptyIsBackend DEF RoutingInit, BacksHold
<1>4. WiresHold
  BY DEF RoutingInit, WiresHold
<1>5. TablesAnnounced
  <2> SUFFICES ASSUME NEW r \in Routers, NEW s \in Routers
               PROVE  Latest(back[r], s) = Told(announced, s, HeardOf(front, r, s))
    BY Restated, Zenon
  <2>1. back[r].que = <<>> /\ back[r].conn = <<>>
    BY EmptyIsBackend, Zenon DEF RoutingInit
  <2>2. Latest(back[r], s) = Untold
    BY <2>1 DEF Latest, Places
  <2>3. HeardOf(front, r, s) = 0
    BY DEF RoutingInit, HeardOf
  <2> QED
    BY <2>2, <2>3 DEF Told
<1>6. FloodOnce
  BY DEF RoutingInit, FloodOnce
<1> QED
  BY <1>2, <1>3, <1>4, <1>5, <1>6 DEF RoutingInv

\* A step that leaves the backends and all sequence numbers alone only has to
\* treat the wires well.
LEMMA OnlyWires ==
    ASSUME RoutingInv, UNCHANGED <<back, announced>>,
           front' \in [Routers -> Fronts],
           \A r \in Routers : /\ front'[r].sequence = front[r].sequence
                              /\ front'[r].sequenceInfo = front[r].sequenceInfo,
           wire' \in [Links -> Seq(Genuine(announced))],
           FloodedOnce(front, wire')
    PROVE  RoutingInv'
<1>1. FrontsHold'
  BY DEF RoutingInv, FrontsHold
<1>2. BacksHold'
  BY DEF RoutingInv, BacksHold
<1>3. WiresHold'
  BY DEF WiresHold
<1>4. TablesAnnounced'
  <2>1. \A r, s \in Routers : HeardOf(front', r, s) = HeardOf(front, r, s)
    BY DEF HeardOf
  <2> QED
    BY <2>1, Restated, Zenon DEF RoutingInv
<1>5. FloodOnce'
  <2>1. \A l \in Links : l[1] \in Routers
    BY DEF Links
  <2>2. FloodedOnce(front', wire')
    BY <2>1 DEF FloodedOnce
  <2> QED
    BY <2>2, Restated, Zenon
<1> QED
  BY <1>1, <1>2, <1>3, <1>4, <1>5 DEF RoutingInv

-----------------------------------------------------------------------------
(* The steps.                                                              *)

LEMMA LinkIs ==
    ASSUME NEW l \in Links
    PROVE  l[1] \in Routers /\ l[2] \in Routers /\ l = <<l[1], l[2]>>
BY DEF Links

\* A packet that is not an announcement may be sent at any time.
LEMMA SendsOther ==
    ASSUME NEW w \in [Links -> Seq(Genuine(announced))], FloodedOnce(front, w),
           NEW r, NEW S, NEW p \in Plain \cup Datas
    PROVE  /\ Pushed(w, r, S, p) \in [Links -> Seq(Genuine(announced))]
           /\ FloodedOnce(front, Pushed(w, r, S, p))
<1>1. p \in Genuine(announced) /\ p.type # "Sequence"
  BY DEF Genuine, Plain, Datas
<1> QED
  BY <1>1, PushedIs, PushedOnce

LEMMA Delivers ==
    ASSUME RoutingInv, NEW l \in Links, wire[l] # <<>>
    PROVE  /\ Head(wire[l]) \in Genuine(announced)
           /\ [wire EXCEPT ![l] = Tail(@)] \in [Links -> Seq(Genuine(announced))]
           /\ FloodedOnce(front, [wire EXCEPT ![l] = Tail(@)])
<1>1. wire \in [Links -> Seq(Genuine(announced))] /\ FloodedOnce(front, wire)
  BY Restated DEF RoutingInv, WiresHold
<1> QED
  BY <1>1, TakenIs, TakenOnce

LEMMA DiscoverKeeps ==
    ASSUME RoutingInv, NEW r \in Routers, Discover(r)
    PROVE  RoutingInv'
<1>1. wire \in [Links -> Seq(Genuine(announced))] /\ FloodedOnce(front, wire)
  BY Restated DEF RoutingInv, WiresHold
<1>2. Hello(r) \in Plain
  BY BackendAssumption DEF Hello, Plain
<1>3. /\ wire' \in [Links -> Seq(Genuine(announced))] /\ FloodedOnce(front, wire')
  BY <1>1, <1>2, SendsOther DEF Discover, Broadcast
<1>4. <<>> \in Entries
  BY DEF Entries
<1>5. /\ front' \in [Routers -> Fronts]
      /\ \A s \in Routers : /\ front'[s].sequence = front[s].sequence
                            /\ front'[s].sequenceInfo = front[s].sequenceInfo
  BY <1>4 DEF Discover, Forgotten, RoutingInv, FrontsHold, Fronts
<1>6. UNCHANGED <<back, announced>>
  BY DEF Discover
<1> QED
  BY <1>3, <1>5, <1>6, OnlyWires

\* The port of a neighbour.
LEMMA PortIs ==
    ASSUME NEW l \in Links
    PROVE  PortOf(l[2], l[1]) \in Nat \ {0}
<1>1. l[1] \in Routers /\ l[2] \in Range(Peers[l[1]])
  BY DEF Links
<1>2. l[1] \in Range(Peers[l[2]]) /\ Peers[l[2]] \in Seq(Routers \ {l[2]})
  BY <1>1, LinkIs, RoutingAssumption
<1>3. \E i \in DOMAIN Peers[l[2]] : Peers[l[2]][i] = l[1]
  BY <1>2 DEF Range
<1>4. PortOf(l[2], l[1]) \in DOMAIN Peers[l[2]]
  BY <1>3 DEF PortOf
<1> QED
  BY <1>2, <1>4

LEMMA NotedIs ==
    ASSUME NEW info \in Entries, NEW port \in Nat \ {0}, NEW ip \in Routers
    PROVE  Noted(info, port, ip) \in Entries
<1> DEFINE n == Max({Len(info), port})
<1>1. Len(info) \in Nat /\ \A i \in 1..Len(info) : info[i] \in Routers \cup {NoAddress}
  BY DEF Entries
<1>2. n \in Nat
  <2> DEFINE m == Len(info) + port
  <2>1. /\ {Len(info), port} \subseteq 0..m /\ {Len(info), port} \subseteq Nat
    BY <1>1
  <2>2. CASE Len(info) = 0
    <3>1. port \in {Len(info), port} /\ \A k \in {Len(info), port} : port >= k
      BY <2>2
    <3> QED
      BY <3>1, <1>1 DEF Max
  <2>3. CASE Len(info) # 0
    <3>1. {Len(info), port} \subseteq 1..m /\ m \in Nat
      BY <1>1, <2>3
    <3>2. n \in {Len(info), port}
      BY <3>1, MaxIs
    <3> QED
      BY <3>2, <1>1
  <2> QED
    BY <2>2, <2>3
<1> HIDE DEF n
<1>3. \A i \in 1..n : (IF i = port THEN ip ELSE IF i <= Len(info) THEN info[i] ELSE NoAddress)
                          \in Routers \cup {NoAddress}
  BY <1>1
<1>4. Noted(info, port, ip) =
          [i \in 1..n |->
              IF i = port THEN ip ELSE IF i <= Len(info) THEN info[i] ELSE NoAddress]
  BY DEF Noted, n
<1> QED
  BY <1>2, <1>3, <1>4 DEF Entries

LEMMA GetsAckKeeps ==
    ASSUME RoutingInv, NEW l \in Links, GetsAck(l[1], l[2])
    PROVE  RoutingInv'
<1> DEFINE r == l[2]
           q == Head(wire[l])
<1>1. wire[l] # <<>> /\ wire' = [wire EXCEPT ![l] = Tail(@)] /\ r \in Routers
  BY LinkIs DEF GetsAck, Arrives, Taken
<1>2. /\ wire' \in [Links -> Seq(Genuine(announced))] /\ FloodedOnce(front, wire')
      /\ q \in Genuine(announced)
  BY <1>1, Delivers
<1>3. q.src \in Routers
  BY <1>2, PassedIs
<1>4. front \in [Routers -> Fronts]
  BY DEF RoutingInv, FrontsHold
<1> DEFINE info == Noted(front[r].portInfo, PortOf(r, l[1]), q.src)
<1>5. info \in Entries
  <2>1. front[r].portInfo \in Entries
    BY <1>1, <1>4 DEF Fronts
  <2> QED
    BY <2>1, <1>3, PortIs, NotedIs
<1>6. front' = [front EXCEPT ![r].portInfo = info] \/ front' = front
  BY LinkIs DEF GetsAck
<1> HIDE DEF info
<1>7. /\ front' \in [Routers -> Fronts]
      /\ \A s \in Routers : /\ front'[s].sequence = front[s].sequence
                            /\ front'[s].sequenceInfo = front[s].sequenceInfo
  <2> DEFINE g == [front[r] EXCEPT !.portInfo = info]
  <2>1. CASE front' = [front EXCEPT ![r].portInfo = info]
    <3>1. /\ g \in Fronts /\ g.sequence = front[r].sequence
          /\ g.sequenceInfo = front[r].sequenceInfo
      BY <1>1, <1>4, <1>5 DEF Fronts
    <3>2. front' = [front EXCEPT ![r] = g]
      BY <2>1
    <3> HIDE DEF g
    <3> QED
      BY <1>1, <1>4, <3>1, <3>2
  <2>2. CASE front' = front
    BY <1>4, <2>2
  <2> QED
    BY <1>6, <2>1, <2>2
<1>8. UNCHANGED <<back, announced>>
  BY DEF GetsAck
<1> QED
  BY <1>2, <1>7, <1>8, OnlyWires

\* The steps that only move packets that are no announcements.
LEMMA OthersKeep ==
    ASSUME RoutingInv,
           \/ \E l \in Links : \/ Dropped(l[1], l[2]) \/ GetsHello(l[1], l[2])
                               \/ GetsData(l[1], l[2])
           \/ \E l \in Senders : IpSend(l[1], l[2])
           \/ \E r \in Switchable : Switch(r)
           \/ UNCHANGED vars
    PROVE  RoutingInv'
<1> DEFINE W == wire' \in [Links -> Seq(Genuine(announced))] /\ FloodedOnce(front, wire')
<1>1. wire \in [Links -> Seq(Genuine(announced))] /\ FloodedOnce(front, wire)
  BY Restated DEF RoutingInv, WiresHold
<1>2. ASSUME NEW w \in [Links -> Seq(Genuine(announced))], FloodedOnce(front, w),
             NEW r, NEW p \in Plain \cup Datas
      PROVE  /\ Routed(w, r, p) \in [Links -> Seq(Genuine(announced))]
             /\ FloodedOnce(front, Routed(w, r, p))
  BY <1>2, SendsOther DEF Routed
<1>3. ASSUME NEW l \in Links, Dropped(l[1], l[2])
      PROVE  W
  <2>1. wire[l] # <<>> /\ wire' = [wire EXCEPT ![l] = Tail(@)]
    BY <1>3, LinkIs DEF Dropped, Taken
  <2> QED
    BY <2>1, Delivers
<1>4. ASSUME NEW l \in Links, GetsHello(l[1], l[2])
      PROVE  W
  <2> DEFINE w == [wire EXCEPT ![l] = Tail(@)]
  <2>1. wire[l] # <<>> /\ wire' = Pushed(w, l[2], {l[1]}, Ack(l[2]))
    BY <1>4, LinkIs DEF GetsHello, Arrives, Taken
  <2>2. w \in [Links -> Seq(Genuine(announced))] /\ FloodedOnce(front, w)
    BY <2>1, Delivers
  <2>3. Ack(l[2]) \in Plain
    BY LinkIs, BackendAssumption DEF Ack, Plain
  <2> HIDE DEF w
  <2> QED
    BY <2>1, <2>2, <2>3, SendsOther
<1>5. ASSUME NEW l \in Links, GetsData(l[1], l[2])
      PROVE  W
  <2> DEFINE w == [wire EXCEPT ![l] = Tail(@)]
             q == Head(wire[l])
  <2>1. /\ wire[l] # <<>> /\ q.type = "Data"
        /\ wire' = w \/ wire' = Routed(w, l[2], Passed(q))
    BY <1>5, LinkIs DEF GetsData, Arrives, Taken
  <2>2. /\ w \in [Links -> Seq(Genuine(announced))] /\ FloodedOnce(front, w)
        /\ q \in Genuine(announced)
    BY <2>1, Delivers
  <2>3. Passed(q) \in Genuine(announced) /\ Passed(q).type = "Data"
    BY <2>1, <2>2, PassedIs
  <2>4. Passed(q) \in Plain \cup Datas
    BY <2>3 DEF Genuine, Sequences
  <2> HIDE DEF w, q
  <2> QED
    BY <2>1, <2>2, <2>4, <1>2
<1>6. ASSUME NEW l \in Senders, IpSend(l[1], l[2])
      PROVE  W
  <2>1. Data(l[1], l[2]) \in Datas
    BY RoutingAssumption, BackendAssumption DEF Data, Datas
  <2>2. wire' = Routed(wire, l[1], Data(l[1], l[2]))
    BY <1>6 DEF IpSend
  <2> QED
    BY <1>1, <1>2, <2>1, <2>2
<1>7. W
  <2>1. ASSUME NEW r \in Switchable, Switch(r)
        PROVE  W
    BY <1>1, <2>1 DEF Switch
  <2>2. CASE UNCHANGED vars
    BY <1>1, <2>2 DEF vars
  <2> QED
    BY <1>3, <1>4, <1>5, <1>6, <2>1, <2>2, Zenon
<1>8. UNCHANGED <<front, back, announced>>
  BY DEF Dropped, GetsHello, GetsData, IpSend, Switch, vars
<1>9. front \in [Routers -> Fronts]
  BY DEF RoutingInv, FrontsHold
<1> QED
  BY <1>7, <1>8, <1>9, OnlyWires

\* Announcing more does not make a genuine packet a false one.
LEMMA GenuineMore ==
    ASSUME NEW ann, NEW ann2, NEW w \in [Links -> Seq(Genuine(ann))],
           \A s \in Routers : \A n \in 1..Len(ann[s]) :
              n \in 1..Len(ann2[s]) /\ ann2[s][n] = ann[s][n]
    PROVE  Genuine(ann) \subseteq Genuine(ann2) /\ w \in [Links -> Seq(Genuine(ann2))]
<1>1. Genuine(ann) \subseteq Genuine(ann2)
  BY DEF Genuine, Sequences
<1>2. \A l \in Links : w[l] \in Seq(Genuine(ann2))
  BY <1>1
<1> QED
  BY <1>1, <1>2

LEMMA AnnounceKeeps ==
    ASSUME RoutingInv, NEW r \in Routers, Announce(r)
    PROVE  RoutingInv'
<1> DEFINE e == front[r].portInfo
           n == front[r].sequence + 1
           p == Sequence(r, n, e)
           a == [ip |-> r, entry |-> e]
<1>1. /\ front \in [Routers -> Fronts] /\ announced \in [Routers -> Seq(Entries)]
      /\ \A s \in Routers : front[s].sequence = Len(announced[s])
      /\ \A s, t \in Routers : front[s].sequenceInfo[t] <= Len(announced[t])
      /\ \A s, t \in Routers : front[s].sequenceInfo[t] \in Nat
  BY DEF RoutingInv, FrontsHold, Fronts
<1>2. /\ e \in Entries /\ n \in Nat \ {0} /\ n = Len(announced[r]) + 1
  BY <1>1 DEF Fronts
<1>3. /\ p \in Sequences /\ p.src = r /\ p.sequence = n /\ p.entry = e
      /\ p.type = "Sequence"
  BY <1>2, BackendAssumption DEF Sequence, Sequences
<1>4. /\ front' = [front EXCEPT ![r].state = "Sleep", ![r].sequence = n]
      /\ back' = [back EXCEPT ![r] = Queue(@, a)]
      /\ wire' = Pushed(wire, r, Range(Peers[r]), p)
      /\ announced' = [announced EXCEPT ![r] = Append(@, e)]
  <2>1. p.sequence = n /\ p.entry = e
    BY <1>3
  <2> HIDE DEF e, n
  <2> QED
    BY <2>1, Zenon DEF Announce, Broadcast, e, n
<1> HIDE DEF e, n, p
<1>5. /\ front' \in [Routers -> Fronts]
      /\ \A s \in Routers : /\ front'[s].sequence = IF s = r THEN n ELSE front[s].sequence
                            /\ front'[s].sequenceInfo = front[s].sequenceInfo
  <2> DEFINE g == [front[r] EXCEPT !.state = "Sleep", !.sequence = n]
  <2>1. g \in Fronts /\ g.sequence = n /\ g.sequenceInfo = front[r].sequenceInfo
    BY <1>1, <1>2 DEF Fronts
  <2>2. front' = [front EXCEPT ![r] = g]
    BY <1>1, <1>4
  <2> HIDE DEF g
  <2> QED
    BY <1>1, <2>1, <2>2
<1>6. /\ announced' \in [Routers -> Seq(Entries)]
      /\ \A s \in Routers : s # r => announced'[s] = announced[s]
      /\ Len(announced'[r]) = n /\ announced'[r][n] = e
      /\ \A s \in Routers : \A m \in 1..Len(announced[s]) :
            m \in 1..Len(announced'[s]) /\ announced'[s][m] = announced[s][m]
  <2>1. announced[r] \in Seq(Entries)
    BY <1>1
  <2>2. /\ Append(announced[r], e) \in Seq(Entries)
        /\ Len(Append(announced[r], e)) = n /\ Append(announced[r], e)[n] = e
        /\ \A m \in 1..Len(announced[r]) :
              m \in 1..n /\ Append(announced[r], e)[m] = announced[r][m]
    BY <1>2, <2>1
  <2>3. announced' = [announced EXCEPT ![r] = Append(announced[r], e)]
    BY <1>4
  <2> QED
    BY <1>1, <2>2, <2>3
<1>7. FrontsHold'
  <2>1. \A s \in Routers : front'[s].sequence = Len(announced'[s])
    BY <1>1, <1>5, <1>6
  <2>2. ASSUME NEW s \in Routers, NEW t \in Routers
        PROVE  front'[s].sequenceInfo[t] <= Len(announced'[t])
    <3>1. front'[s].sequenceInfo[t] <= Len(announced[t]) /\ front'[s].sequenceInfo[t] \in Nat
      BY <1>1, <1>5
    <3>2. CASE t = r
      BY <1>2, <1>6, <3>1, <3>2
    <3>3. CASE t # r
      BY <1>6, <3>1, <3>3
    <3> QED
      BY <3>2, <3>3
  <2> QED
    BY <1>5, <1>6, <2>1, <2>2 DEF FrontsHold
<1>8. a \in Ann /\ a.ip = r /\ a.entry = e
  BY <1>2 DEF Ann, Entries
<1> HIDE DEF a
<1>9. DOMAIN back = Routers /\ \A s \in Routers : IsBackend(back[s])
  BY DEF RoutingInv, BacksHold
<1>10. back'[r] = Queue(back[r], a) /\ \A s \in Routers : s # r => back'[s] = back[s]
  BY <1>4, <1>9
<1>11. BacksHold'
  <2>1. DOMAIN back' = Routers
    BY <1>4, <1>9
  <2>2. ASSUME NEW s \in Routers
        PROVE  IsBackend(back'[s]) /\ (back'[s].que # <<>> <=> back'[s].scheduled)
    <3>1. CASE s = r
      <4>1. /\ IsBackend(Queue(back[r], a))
            /\ Queue(back[r], a).que # <<>> /\ Queue(back[r], a).scheduled
        BY <1>8, <1>9, Queued
      <4> QED
        BY <1>10, <3>1, <4>1, Zenon
    <3>2. CASE s # r
      BY <1>10, <3>2, Zenon DEF RoutingInv, BacksHold
    <3> QED
      BY <3>1, <3>2
  <2> QED
    BY <2>1, <2>2, Zenon DEF BacksHold
<1>12. /\ wire \in [Links -> Seq(Genuine(announced))] /\ FloodedOnce(front, wire)
       /\ wire \in [Links -> Seq(Genuine(announced'))]
  <2>1. wire \in [Links -> Seq(Genuine(announced))] /\ FloodedOnce(front, wire)
    BY Restated DEF RoutingInv, WiresHold
  <2> QED
    BY <2>1, <1>6, GenuineMore
<1>13. p \in Genuine(announced')
  BY <1>2, <1>3, <1>6 DEF Genuine
<1>14. WiresHold'
  BY <1>4, <1>12, <1>13, PushedIs DEF WiresHold
<1>15. FloodOnce'
  <2>1. ASSUME NEW l \in Links, NEW i \in DOMAIN wire[l], wire[l][i].type = "Sequence"
        PROVE  <<wire[l][i].src, wire[l][i].sequence>> # <<p.src, p.sequence>>
    <3>1. wire[l][i] \in Genuine(announced)
      BY <1>12
    <3>2. wire[l][i].sequence \in 1..Len(announced[wire[l][i].src])
      BY <2>1, <3>1, PassedIs
    <3> QED
      BY <1>2, <1>3, <3>2
  <2>2. FloodedOnce(front, wire')
    BY <1>3, <1>4, <1>12, <1>13, <2>1, PushedOnce
  <2>3. \A s, t \in Routers : /\ front[s].sequenceInfo[t] \in Nat
                              /\ front'[s].sequenceInfo[t] \in Nat
                              /\ front[s].sequenceInfo[t] <= front'[s].sequenceInfo[t]
    BY <1>1, <1>5
  <2>4. FloodedOnce(front', wire')
    BY <1>14, <2>2, <2>3, NotedMore DEF WiresHold
  <2> QED
    BY <2>4, Restated, Zenon
<1>16. TablesAnnounced'
  <2> SUFFICES ASSUME NEW q \in Routers, NEW s \in Routers
               PROVE  Latest(back'[q], s) = Told(announced', s, HeardOf(front', q, s))
    BY Restated, Zenon
  <2>1. Latest(back[q], s) = Told(announced, s, HeardOf(front, q, s))
    BY Restated, Zenon DEF RoutingInv
  <2>2. CASE q = r /\ s = r
    <3>1. Latest(back'[q], s) = e
      BY <1>8, <1>9, <1>10, <2>2, QueueLatest
    <3>2. HeardOf(front', q, s) = n
      BY <1>5, <2>2 DEF HeardOf
    <3> QED
      BY <1>2, <1>6, <2>2, <3>1, <3>2 DEF Told
  <2>3. CASE ~(q = r /\ s = r)
    <3>1. Latest(back'[q], s) = Latest(back[q], s)
      BY <1>8, <1>9, <1>10, <2>3, QueueLatest
    <3>2. HeardOf(front', q, s) = HeardOf(front, q, s)
      BY <1>5, <2>3 DEF HeardOf
    <3>3. HeardOf(front, q, s) \in 0..Len(announced[s])
      BY <1>1 DEF HeardOf
    <3>4. Told(announced', s, HeardOf(front, q, s)) = Told(announced, s, HeardOf(front, q, s))
      BY <1>6, <3>3 DEF Told
    <3> QED
      BY <2>1, <3>1, <3>2, <3>4
  <2> QED
    BY <2>2, <2>3
<1> QED
  BY <1>7, <1>11, <1>14, <1>15, <1>16 DEF RoutingInv

LEMMA RunTaskKeeps ==
    ASSUME RoutingInv, NEW r \in Routers, RunTask(r)
    PROVE  RoutingInv'
<1>1. /\ DOMAIN back = Routers
      /\ \A s \in Routers : IsBackend(back[s]) /\ (back[s].que # <<>> <=> back[s].scheduled)
  BY Zenon DEF RoutingInv, BacksHold
<1>2. back[r].que # <<>> /\ back' = [back EXCEPT ![r] = TaskRun(@, r)]
  BY <1>1, Zenon DEF RunTask
<1>3. /\ DOMAIN back' = Routers /\ back'[r] = TaskRun(back[r], r)
      /\ \A s \in Routers : s # r => back'[s] = back[s]
  <2>1. DOMAIN back = Routers
    BY <1>1, Zenon
  <2> QED
    BY <1>2, <2>1
<1>4. BacksHold'
  <2>1. \A s \in Routers : IsBackend(back'[s]) /\ (back'[s].que # <<>> <=> back'[s].scheduled)
    BY <1>1, <1>2, <1>3, Worked, Zenon
  <2> QED
    BY <1>3, <2>1, Zenon DEF BacksHold
<1>5. UNCHANGED <<front, announced, wire>>
  BY DEF RunTask
<1>6. ASSUME NEW q \in Routers, NEW s \in Routers
      PROVE  Latest(back'[q], s) = Latest(back[q], s)
  <2>1. Latest(TaskRun(back[r], r), s) = Latest(back[r], s)
    BY <1>1, <1>2, TaskLatest
  <2> QED
    BY <1>3, <2>1
<1>7. TablesAnnounced'
  <2>1. \A q, s \in Routers :
          Told(announced', s, HeardOf(front', q, s)) = Told(announced, s, HeardOf(front, q, s))
    BY <1>5
  <2>2. \A q, s \in Routers :
          Latest(back[q], s) = Told(announced, s, HeardOf(front, q, s))
    BY Restated, Zenon DEF RoutingInv
  <2>3. \A q, s \in Routers :
          Latest(back'[q], s) = Told(announced', s, HeardOf(front', q, s))
    BY <1>6, <2>1, <2>2, Zenon
  <2> QED
    BY <2>3, Restated, Zenon
<1>8. FrontsHold' /\ WiresHold' /\ FloodOnce'
  BY <1>5 DEF RoutingInv, FrontsHold, WiresHold, FloodOnce
<1> QED
  BY <1>4, <1>7, <1>8, Zenon DEF RoutingInv

LEMMA GetsSequenceKeeps ==
    ASSUME RoutingInv, NEW l \in Links, GetsSequence(l[1], l[2])
    PROVE  RoutingInv'
<1> DEFINE r == l[2]
           h == Head(wire[l])
           p == Passed(h)
           w == [wire EXCEPT ![l] = Tail(@)]
           a == [ip |-> p.src, entry |-> p.entry]
<1>1. r \in Routers /\ wire[l] # <<>> /\ h.type = "Sequence"
  BY LinkIs DEF GetsSequence, Arrives
<1>2. /\ h \in Genuine(announced)
      /\ w \in [Links -> Seq(Genuine(announced))] /\ FloodedOnce(front, w)
  BY <1>1, Delivers
<1> DEFINE n == p.sequence
           e == p.entry
           t == p.src
<1>3. /\ p \in Genuine(announced) /\ p.type = "Sequence" /\ t \in Routers
      /\ n \in 1..Len(announced[t]) /\ e = announced[t][n]
  BY <1>1, <1>2, PassedIs
<1>4. /\ front \in [Routers -> Fronts] /\ announced \in [Routers -> Seq(Entries)]
      /\ \A s \in Routers : front[s].sequence = Len(announced[s])
      /\ \A s, q \in Routers : front[s].sequenceInfo[q] <= Len(announced[q])
      /\ \A s, q \in Routers : front[s].sequenceInfo[q] \in Nat
  BY DEF RoutingInv, FrontsHold, Fronts
<1>5. UNCHANGED announced
  BY DEF GetsSequence
<1>6. CASE t = r \/ ~Newer(r, p)
  <2>1. wire' = w /\ UNCHANGED <<front, back>>
    BY <1>6, LinkIs DEF GetsSequence, Taken
  <2> QED
    BY <1>2, <1>4, <1>5, <2>1, OnlyWires
<1>7. CASE t # r /\ Newer(r, p)
  <2>1. /\ front' = [front EXCEPT ![r].sequenceInfo[t] = n]
        /\ back' = [back EXCEPT ![r] = Queue(@, a)]
        /\ wire' = Pushed(w, r, Range(Peers[r]), p)
    BY <1>7, LinkIs, Zenon DEF GetsSequence, Taken, Broadcast
  <2>2. front[r].sequenceInfo[t] < n
    BY <1>7 DEF Newer
  <2> HIDE DEF n, e, t, p, w, r
  <2>3. n \in Nat
    BY <1>3, <1>4
  <2>4. /\ front' \in [Routers -> Fronts]
        /\ \A s \in Routers : front'[s].sequence = front[s].sequence
        /\ \A s, q \in Routers : front'[s].sequenceInfo[q] =
                IF s = r /\ q = t THEN n ELSE front[s].sequenceInfo[q]
    <3> DEFINE info == [front[r].sequenceInfo EXCEPT ![t] = n]
               g == [front[r] EXCEPT !.sequenceInfo = info]
    <3>1. front[r] \in Fronts /\ front[r].sequenceInfo \in [Routers -> Nat] /\ n \in Nat
      BY <1>1, <1>3, <1>4 DEF Fronts
    <3>2. /\ info \in [Routers -> Nat]
          /\ \A q \in Routers : info[q] = IF q = t THEN n ELSE front[r].sequenceInfo[q]
      BY <1>3, <3>1
    <3>3. front' = [front EXCEPT ![r] = g]
      BY <2>1
    <3> HIDE DEF info
    <3>4. g \in Fronts /\ g.sequence = front[r].sequence /\ g.sequenceInfo = info
      BY <3>1, <3>2 DEF Fronts
    <3> HIDE DEF g
    <3> QED
      BY <1>1, <1>4, <3>2, <3>3, <3>4
  <2>5. FrontsHold'
    <3>1. \A s, q \in Routers : front'[s].sequenceInfo[q] <= Len(announced[q])
      <4> SUFFICES ASSUME NEW s \in Routers, NEW q \in Routers
                   PROVE  front'[s].sequenceInfo[q] <= Len(announced[q])
        OBVIOUS
      <4>1. CASE s = r /\ q = t
        BY <1>3, <1>4, <2>4, <4>1
      <4>2. CASE ~(s = r /\ q = t)
        BY <1>4, <2>4, <4>2
      <4> QED
        BY <4>1, <4>2
    <3> QED
      BY <1>4, <1>5, <2>4, <3>1 DEF FrontsHold
  <2>6. a \in Ann /\ a.ip = t /\ a.entry = e
    <3>1. e \in Entries
      BY <1>3, <1>4
    <3> QED
      BY <1>3, <3>1 DEF Ann, Entries, t, e
  <2> HIDE DEF a
  <2>7. DOMAIN back = Routers /\ \A s \in Routers : IsBackend(back[s])
    BY DEF RoutingInv, BacksHold
  <2>8. /\ DOMAIN back' = Routers /\ back'[r] = Queue(back[r], a)
        /\ \A s \in Routers : s # r => back'[s] = back[s]
    BY <1>1, <2>1, <2>7
  <2>9. BacksHold'
    <3>1. ASSUME NEW s \in Routers
          PROVE  IsBackend(back'[s]) /\ (back'[s].que # <<>> <=> back'[s].scheduled)
      <4>1. CASE s = r
        <5>1. /\ IsBackend(Queue(back[r], a))
              /\ Queue(back[r], a).que # <<>> /\ Queue(back[r], a).scheduled
          BY <1>1, <2>6, <2>7, Queued
        <5> QED
          BY <2>8, <4>1, <5>1, Zenon
      <4>2. CASE s # r
        BY <2>8, <4>2, Zenon DEF RoutingInv, BacksHold
      <4> QED
        BY <4>1, <4>2
    <3> QED
      BY <2>8, <3>1, Zenon DEF BacksHold
  <2>10. wire' \in [Links -> Seq(Genuine(announced))]
    BY <1>2, <1>3, <2>1, PushedIs
  <2>11. WiresHold'
    BY <1>5, <2>10 DEF WiresHold
  <2>12. FloodOnce'
    <3>1. \A s, q \in Routers : /\ front[s].sequenceInfo[q] \in Nat
                                /\ front'[s].sequenceInfo[q] \in Nat
                                /\ front[s].sequenceInfo[q] <= front'[s].sequenceInfo[q]
      <4> SUFFICES ASSUME NEW s \in Routers, NEW q \in Routers
                   PROVE  /\ front[s].sequenceInfo[q] \in Nat
                          /\ front'[s].sequenceInfo[q] \in Nat
                          /\ front[s].sequenceInfo[q] <= front'[s].sequenceInfo[q]
        OBVIOUS
      <4>1. CASE s = r /\ q = t
        BY <1>4, <2>2, <2>4, <2>3, <4>1
      <4>2. CASE ~(s = r /\ q = t)
        BY <1>4, <2>4, <4>2
      <4> QED
        BY <4>1, <4>2
    <3>2. FloodedOnce(front', w)
      BY <1>2, <3>1, NotedMore
    <3>3. front'[r].sequenceInfo[t] >= n
      BY <1>1, <1>3, <2>4
    <3>4. ASSUME NEW m \in Links, NEW i \in DOMAIN w[m], m[1] = r, w[m][i].type = "Sequence"
          PROVE  <<w[m][i].src, w[m][i].sequence>> # <<t, n>>
      <4>1. SUFFICES ASSUME w[m][i].src = t, w[m][i].sequence = n
                     PROVE  FALSE
        OBVIOUS
      <4>2. front[r].sequenceInfo[t] >= n
        BY <1>2, <1>7, <3>4, <4>1 DEF FloodedOnce, t
      <4> QED
        BY <1>1, <1>3, <1>4, <2>2, <4>2
    <3>5. FloodedOnce(front', Pushed(w, r, Range(Peers[r]), p))
      BY <1>2, <1>3, <3>2, <3>3, <3>4, PushedOnce DEF t, n
    <3> QED
      BY <2>1, <3>5, Restated, Zenon
  <2>13. TablesAnnounced'
    <3> SUFFICES ASSUME NEW q \in Routers, NEW s \in Routers
                 PROVE  Latest(back'[q], s) = Told(announced', s, HeardOf(front', q, s))
      BY Restated, Zenon
    <3>1. Latest(back[q], s) = Told(announced, s, HeardOf(front, q, s))
      BY Restated, Zenon DEF RoutingInv
    <3>2. CASE q = r /\ s = t
      <4>1. Latest(back'[q], s) = e
        BY <2>6, <2>7, <2>8, <3>2, QueueLatest
      <4>2. HeardOf(front', q, s) = n
        BY <1>7, <2>4, <3>2 DEF HeardOf, t
      <4> QED
        BY <1>3, <1>5, <3>2, <4>1, <4>2 DEF Told
    <3>3. CASE ~(q = r /\ s = t)
      <4>1. Latest(back'[q], s) = Latest(back[q], s)
        BY <2>6, <2>7, <2>8, <3>3, QueueLatest
      <4>2. HeardOf(front', q, s) = HeardOf(front, q, s)
        BY <2>4, <3>3 DEF HeardOf
      <4> QED
        BY <1>5, <3>1, <4>1, <4>2
    <3> QED
      BY <3>2, <3>3
  <2> QED
    BY <2>5, <2>9, <2>11, <2>12, <2>13 DEF RoutingInv
<1> QED
  BY <1>6, <1>7

LEMMA RoutingInvNext == RoutingInv /\ [RoutingNext]_vars => RoutingInv'
<1> SUFFICES ASSUME RoutingInv, [RoutingNext]_vars
             PROVE  RoutingInv'
  OBVIOUS
<1>1. CASE \E r \in Routers : Discover(r) \/ Announce(r) \/ RunTask(r)
  BY <1>1, DiscoverKeeps, AnnounceKeeps, RunTaskKeeps, Zenon
<1>2. CASE \E l \in Links : GetsAck(l[1], l[2]) \/ GetsSequence(l[1], l[2])
  BY <1>2, GetsAckKeeps, GetsSequenceKeeps, Zenon
<1>3. CASE \/ \E l \in Links : \/ Dropped(l[1], l[2]) \/ GetsHello(l[1], l[2])
                               \/ GetsData(l[1], l[2])
           \/ \E l \in Senders : IpSend(l[1], l[2])
           \/ \E r \in Switchable : Switch(r)
           \/ UNCHANGED vars
  BY <1>3, OthersKeep, Zenon
<1> QED
  BY <1>1, <1>2, <1>3, Zenon DEF RoutingNext, System, Arrive

-----------------------------------------------------------------------------
(* The shape of the state.                                                 *)

\* The packets on a wire after one was taken from it ...
LEMMA TakenMembers ==
    ASSUME NEW G, NEW w \in [Links -> Seq(G)], NEW l \in Links, w[l] # <<>>
    PROVE  /\ \A m \in Links : Range([w EXCEPT ![l] = Tail(@)][m]) \subseteq Range(w[m])
           /\ \A m \in Links : m # l => [w EXCEPT ![l] = Tail(@)][m] = w[m]
           /\ Range(w[l]) \subseteq Range([w EXCEPT ![l] = Tail(@)][l]) \cup {Head(w[l])}
           /\ Head(w[l]) \in Range(w[l])
<1> DEFINE v == [w EXCEPT ![l] = Tail(@)]
<1>1. /\ DOMAIN w[l] = 1..Len(w[l]) /\ Len(w[l]) \in Nat \ {0} /\ w[l][1] = Head(w[l])
      /\ DOMAIN v[l] = 1..(Len(w[l]) - 1)
      /\ \A i \in DOMAIN v[l] : v[l][i] = w[l][i + 1]
      /\ \A m \in Links : m # l => v[m] = w[m]
  BY TakenIs
<1> HIDE DEF v
<1>2. \A i \in DOMAIN v[l] : i + 1 \in DOMAIN w[l]
  BY <1>1
<1>3. \A i \in DOMAIN w[l] : i = 1 \/ (i - 1 \in DOMAIN v[l] /\ v[l][i - 1] = w[l][i])
  BY <1>1
<1>4. 1 \in DOMAIN w[l]
  BY <1>1
<1>5. Range(v[l]) \subseteq Range(w[l]) /\ Head(w[l]) \in Range(w[l])
  BY <1>1, <1>2, <1>4 DEF Range
<1>6. ASSUME NEW p \in Range(w[l])
      PROVE  p \in Range(v[l]) \cup {Head(w[l])}
  <2>1. PICK i \in DOMAIN w[l] : p = w[l][i]
    BY DEF Range
  <2> QED
    BY <1>1, <1>3, <2>1 DEF Range
<1>7. \A m \in Links : Range(v[m]) \subseteq Range(w[m])
  BY <1>1, <1>5
<1> QED
  BY <1>1, <1>5, <1>6, <1>7 DEF v

\* ... and after one was sent.
Sends(w, v, r, S, p) ==
    \A l \in Links : \A q :
        q \in Range(v[l]) <=>
            \/ q \in Range(w[l])
            \/ power[r] /\ l[1] = r /\ l[2] \in S /\ q = p

LEMMA PushedMembers ==
    ASSUME NEW G, NEW w \in [Links -> Seq(G)], NEW r, NEW S, NEW p \in G
    PROVE  Sends(w, Pushed(w, r, S, p), r, S, p)
<1> SUFFICES ASSUME NEW l \in Links
             PROVE  \A q :
                q \in Range(Pushed(w, r, S, p)[l]) <=>
                    \/ q \in Range(w[l])
                    \/ power[r] /\ l[1] = r /\ l[2] \in S /\ q = p
  BY DEF Sends
<1>1. w[l] \in Seq(G)
  OBVIOUS
<1>2. Range(Append(w[l], p)) = Range(w[l]) \cup {p}
  <2>1. /\ DOMAIN Append(w[l], p) = DOMAIN w[l] \cup {Len(w[l]) + 1}
        /\ Append(w[l], p)[Len(w[l]) + 1] = p
        /\ \A i \in DOMAIN w[l] : Append(w[l], p)[i] = w[l][i]
    BY <1>1
  <2> QED
    BY <2>1 DEF Range
<1>3. CASE power[r] /\ l[1] = r /\ l[2] \in S
  <2>1. Pushed(w, r, S, p)[l] = Append(w[l], p)
    BY <1>3 DEF Pushed
  <2> QED
    BY <1>2, <1>3, <2>1
<1>4. CASE ~(power[r] /\ l[1] = r /\ l[2] \in S)
  <2>1. Pushed(w, r, S, p)[l] = w[l]
    BY <1>4 DEF Pushed
  <2> QED
    BY <1>4, <2>1
<1> QED
  BY <1>3, <1>4

\* A packet of wire l: a Hello or an Ack goes over one wire only.
Right(l, p) ==
    /\ p.ttl \in 1..TTL
    /\ p.type \in {"Hello", "Ack"} => p.src = l[1] /\ p.ttl = TTL

RightOn(w) == \A l \in Links : \A p \in Range(w[l]) : Right(l, p)

LEMMA TakenRight ==
    ASSUME RoutingInv, RightOn(wire), NEW l \in Links, wire[l] # <<>>
    PROVE  RightOn([wire EXCEPT ![l] = Tail(@)]) /\ Right(l, Head(wire[l]))
<1>1. wire \in [Links -> Seq(Genuine(announced))]
  BY DEF RoutingInv, WiresHold
<1> QED
  BY <1>1, TakenMembers DEF RightOn

LEMMA PushedRight ==
    ASSUME NEW G, NEW w \in [Links -> Seq(G)], RightOn(w), NEW r, NEW S, NEW p \in G,
           \A l \in Links : l[1] = r => Right(l, p)
    PROVE  RightOn(Pushed(w, r, S, p))
<1> DEFINE v == Pushed(w, r, S, p)
<1>1. Sends(w, v, r, S, p)
  BY PushedMembers
<1> HIDE DEF v
<1>2. RightOn(v)
  BY <1>1 DEF RightOn, Sends
<1> QED
  BY <1>2 DEF v

LEMMA RightNext == RoutingInv /\ RightOn(wire) /\ [RoutingNext]_vars => RightOn(wire')
<1> SUFFICES ASSUME RoutingInv, RightOn(wire), [RoutingNext]_vars
             PROVE  RightOn(wire')
  OBVIOUS
<1> DEFINE G == Genuine(announced)
<1>1. wire \in [Links -> Seq(G)]
  BY DEF RoutingInv, WiresHold
<1>2. ASSUME NEW l \in Links, wire[l] # <<>>
      PROVE  /\ [wire EXCEPT ![l] = Tail(@)] \in [Links -> Seq(G)]
             /\ RightOn([wire EXCEPT ![l] = Tail(@)])
             /\ Head(wire[l]) \in G /\ Passed(Head(wire[l])) \in G
             /\ Passed(Head(wire[l])).type = Head(wire[l]).type
             /\ Head(wire[l]).ttl > 1 => Passed(Head(wire[l])).ttl \in 1..TTL
  <2>1. /\ [wire EXCEPT ![l] = Tail(@)] \in [Links -> Seq(G)] /\ Head(wire[l]) \in G
        /\ RightOn([wire EXCEPT ![l] = Tail(@)]) /\ Right(l, Head(wire[l]))
    BY <1>2, Delivers, TakenRight
  <2>2. Passed(Head(wire[l])) \in G /\ Passed(Head(wire[l])).type = Head(wire[l]).type
    BY <2>1, PassedIs
  <2>3. Head(wire[l]).ttl \in 1..TTL
    BY <2>1 DEF Right
  <2>4. Passed(Head(wire[l])).ttl = Head(wire[l]).ttl - 1
    BY <2>1 DEF Passed, Genuine, Plain, Datas, Sequences
  <2>5. Head(wire[l]).ttl > 1 => Head(wire[l]).ttl - 1 \in 1..TTL
    BY <2>3, BackendAssumption
  <2> QED
    BY <2>1, <2>2, <2>4, <2>5
<1>3. \A r, n, e, s : /\ Hello(r).type = "Hello" /\ Hello(r).src = r /\ Hello(r).ttl = TTL
                      /\ Ack(r).type = "Ack" /\ Ack(r).src = r /\ Ack(r).ttl = TTL
                      /\ Data(r, s).type = "Data" /\ Data(r, s).ttl = TTL
                      /\ Sequence(r, n, e).type = "Sequence" /\ Sequence(r, n, e).ttl = TTL
  BY DEF Hello, Ack, Data, Sequence
<1>4. TTL \in 1..TTL
  BY BackendAssumption
<1>5. ASSUME NEW r, NEW p, p.ttl = TTL, p.src = r \/ p.type \notin {"Hello", "Ack"}
      PROVE  \A l \in Links : l[1] = r => Right(l, p)
  BY <1>4, <1>5 DEF Right
<1>6. ASSUME NEW w \in [Links -> Seq(G)], RightOn(w), NEW r, NEW S, NEW p \in G, p.ttl \in 1..TTL,
             p.type \notin {"Hello", "Ack"}
      PROVE  RightOn(Pushed(w, r, S, p))
  BY <1>6, PushedRight DEF Right
<1>7. ASSUME NEW w \in [Links -> Seq(G)], RightOn(w), NEW r, NEW p \in G, p.ttl \in 1..TTL,
             p.type \notin {"Hello", "Ack"}
      PROVE  RightOn(Routed(w, r, p))
  BY <1>6, <1>7 DEF Routed
<1>8. ASSUME NEW r \in Routers, Discover(r)
      PROVE  RightOn(wire')
  <2>1. Hello(r) \in G
    BY BackendAssumption DEF Hello, Plain, Genuine
  <2>2. wire' = Pushed(wire, r, Range(Peers[r]), Hello(r))
    BY <1>8, Zenon DEF Discover, Broadcast
  <2>3. \A l \in Links : l[1] = r => Right(l, Hello(r))
    BY <1>3, <1>5
  <2> QED
    BY <1>1, <2>1, <2>2, <2>3, PushedRight
<1>9. ASSUME NEW r \in Routers, Announce(r)
      PROVE  RightOn(wire')
  <2> DEFINE p == Sequence(r, front[r].sequence + 1, front[r].portInfo)
  <2>1. wire' = Pushed(wire, r, Range(Peers[r]), p)
    BY <1>9, Zenon DEF Announce, Broadcast
  <2>2. p.ttl = TTL /\ p.type = "Sequence"
    BY <1>3
  <2>3. p \in {p}
    OBVIOUS
  <2> HIDE DEF p
  <2>4. wire \in [Links -> Seq(G \cup {p})]
    <3>1. \A l \in Links : wire[l] \in Seq(G \cup {p})
      BY <1>1
    <3> QED
      BY <1>1, <3>1
  <2>5. \A l \in Links : l[1] = r => Right(l, p)
    BY <2>2, <1>5
  <2> QED
    BY <2>1, <2>4, <2>5, PushedRight
<1>10. ASSUME NEW l \in Links, Dropped(l[1], l[2]) \/ GetsAck(l[1], l[2])
       PROVE  RightOn(wire')
  <2>1. wire[l] # <<>> /\ wire' = [wire EXCEPT ![l] = Tail(@)]
    BY <1>10, LinkIs DEF Dropped, GetsAck, Arrives, Taken
  <2> QED
    BY <2>1, <1>2
<1>11. ASSUME NEW l \in Links, GetsHello(l[1], l[2])
       PROVE  RightOn(wire')
  <2>1. wire[l] # <<>> /\ wire' = Pushed([wire EXCEPT ![l] = Tail(@)], l[2], {l[1]}, Ack(l[2]))
    BY <1>11, LinkIs DEF GetsHello, Arrives, Taken
  <2>2. Ack(l[2]) \in G
    BY LinkIs, BackendAssumption DEF Ack, Plain, Genuine
  <2>3. \A m \in Links : m[1] = l[2] => Right(m, Ack(l[2]))
    BY <1>3, <1>5
  <2>4. /\ [wire EXCEPT ![l] = Tail(@)] \in [Links -> Seq(G)]
        /\ RightOn([wire EXCEPT ![l] = Tail(@)])
    BY <1>2, <2>1
  <2> HIDE DEF G
  <2> QED
    BY <2>1, <2>2, <2>3, <2>4, PushedRight
<1>12. ASSUME NEW l \in Links, GetsSequence(l[1], l[2])
       PROVE  RightOn(wire')
  <2> DEFINE w == [wire EXCEPT ![l] = Tail(@)]
             q == Passed(Head(wire[l]))
  <2>1. /\ wire[l] # <<>> /\ Head(wire[l]).type = "Sequence" /\ Head(wire[l]).ttl > 1
        /\ wire' = w \/ wire' = Pushed(w, l[2], Range(Peers[l[2]]), q)
    BY <1>12, LinkIs, Zenon DEF GetsSequence, Arrives, Taken, Broadcast
  <2>2. /\ w \in [Links -> Seq(G)] /\ RightOn(w)
        /\ q \in G /\ q.type = "Sequence" /\ q.ttl \in 1..TTL
    BY <1>2, <2>1
  <2> HIDE DEF w, q, G
  <2> QED
    BY <2>1, <2>2, <1>6
<1>13. ASSUME NEW l \in Links, GetsData(l[1], l[2])
       PROVE  RightOn(wire')
  <2> DEFINE w == [wire EXCEPT ![l] = Tail(@)]
             q == Passed(Head(wire[l]))
  <2>1. /\ wire[l] # <<>> /\ Head(wire[l]).type = "Data" /\ Head(wire[l]).ttl > 1
        /\ wire' = w \/ wire' = Routed(w, l[2], q)
    BY <1>13, LinkIs, Zenon DEF GetsData, Arrives, Taken
  <2>2. /\ w \in [Links -> Seq(G)] /\ RightOn(w)
        /\ q \in G /\ q.type = "Data" /\ q.ttl \in 1..TTL
    BY <1>2, <2>1
  <2> HIDE DEF w, q, G
  <2> QED
    BY <2>1, <2>2, <1>7
<1>14. ASSUME NEW l \in Senders, IpSend(l[1], l[2])
       PROVE  RightOn(wire')
  <2>1. Data(l[1], l[2]) \in G
    BY RoutingAssumption, BackendAssumption DEF Data, Datas, Genuine
  <2>2. wire' = Routed(wire, l[1], Data(l[1], l[2]))
    BY <1>14 DEF IpSend
  <2>3. Data(l[1], l[2]).ttl \in 1..TTL /\ Data(l[1], l[2]).type \notin {"Hello", "Ack"}
    BY <1>3, <1>4
  <2> HIDE DEF G
  <2> QED
    BY <1>1, <1>7, <2>1, <2>2, <2>3
<1>15. ASSUME UNCHANGED wire
       PROVE  RightOn(wire')
  BY <1>15
<1>16. CASE \/ \E r \in Routers : RunTask(r)
            \/ \E r \in Switchable : Switch(r)
            \/ UNCHANGED vars
  <2>1. UNCHANGED wire
    BY <1>16 DEF RunTask, Switch, vars
  <2> QED
    BY <2>1, <1>15
<1> QED
  BY <1>8, <1>9, <1>10, <1>11, <1>12, <1>13, <1>14, <1>16, Zenon
     DEF RoutingNext, System, Arrive

\* What a router may know of its neighbours, and announce: at each port the
\* router it leads to or none, up to the last that answered.
Infos(r) ==
    {e \in Entries :
        /\ Len(e) <= Len(Peers[r])
        /\ \A i \in DOMAIN e : e[i] \in {NoAddress, Peers[r][i]}
        /\ e # <<>> => e[Len(e)] # NoAddress}

InfosHold ==
    \A r \in Routers :
        /\ front[r].portInfo \in Infos(r)
        /\ \A n \in DOMAIN announced[r] : announced[r][n] \in Infos(r)

\* The rounds left are counted.
Counted ==
    \A r \in Routers :
        /\ front[r].sequence <= MaxSequence
        /\ front[r].state = "WaitAck" => front[r].sequence < MaxSequence

\* The table of every router is that of LspBackend.
TableOf(b, r) == Once(b.conn) /\ b.dis = Dijkstra(b.conn, r)

TablesHold == \A r \in Routers : TableOf(back[r], r)

ShapeInv ==
    /\ RightOn(wire) /\ InfosHold /\ Counted /\ TablesHold
    /\ power \in [Routers -> BOOLEAN]

LEMMA MaxOfTwo ==
    ASSUME NEW m \in Nat, NEW n \in Nat \ {0}
    PROVE  /\ Max({m, n}) \in {m, n} /\ Max({m, n}) >= m /\ Max({m, n}) >= n
<1>1. CASE m = 0
  <2>1. n \in {m, n} /\ \A k \in {m, n} : n >= k
    BY <1>1
  <2>2. \E x \in {m, n} : \A y \in {m, n} : x >= y
    BY <2>1
  <2>3. Max({m, n}) \in {m, n} /\ \A y \in {m, n} : Max({m, n}) >= y
    BY <2>2 DEF Max
  <2> QED
    BY <2>3
<1>2. CASE m # 0
  <2>1. {m, n} \subseteq 1..(m + n) /\ m + n \in Nat
    BY <1>2
  <2>2. Max({m, n}) \in {m, n} /\ \A k \in {m, n} : k <= Max({m, n})
    BY <2>1, MaxIs
  <2> QED
    BY <2>2
<1> QED
  BY <1>1, <1>2

\* A neighbour that answers is noted, at its port, and no other forgotten.
LEMMA NotedInfo ==
    ASSUME NEW r \in Routers, NEW info \in Infos(r), NEW s \in Range(Peers[r])
    PROVE  /\ Noted(info, PortOf(r, s), s) \in Infos(r)
           /\ s \in Range(Noted(info, PortOf(r, s), s))
           /\ \A t \in Routers : t \in Range(Noted(info, PortOf(r, s), s)) <=>
                                     t = s \/ t \in Range(info)
<1> DEFINE k == PortOf(r, s)
           n == Max({Len(info), k})
           next == Noted(info, k, s)
<1>1. Peers[r] \in Seq(Routers \ {r})
  BY RoutingAssumption
<1>2. \E i \in DOMAIN Peers[r] : Peers[r][i] = s
  BY DEF Range
<1>3. k \in DOMAIN Peers[r] /\ Peers[r][k] = s
  BY <1>2 DEF PortOf
<1>4. s \in Routers /\ s # NoAddress /\ k \in 1..Len(Peers[r]) /\ Len(Peers[r]) \in Nat
  BY <1>1, <1>3, BackendAssumption
<1>5. /\ info \in Entries /\ Len(info) \in Nat /\ Len(info) <= Len(Peers[r])
      /\ DOMAIN info = 1..Len(info)
      /\ \A i \in DOMAIN info : info[i] \in {NoAddress, Peers[r][i]}
      /\ info # <<>> => info[Len(info)] # NoAddress
  BY DEF Infos, Entries
<1> HIDE DEF k
<1>6. n \in {Len(info), k} /\ n >= Len(info) /\ n >= k
  <2>1. k \in Nat \ {0}
    BY <1>4
  <2> QED
    BY <1>5, <2>1, MaxOfTwo
<1>7. next \in Entries
  BY <1>4, <1>5, NotedIs
<1>8. next = [i \in 1..n |-> IF i = k THEN s ELSE IF i <= Len(info) THEN info[i] ELSE NoAddress]
  BY DEF Noted
<1> HIDE DEF n, next
<1>9. n \in Nat /\ n <= Len(Peers[r]) /\ n >= 1
  BY <1>4, <1>5, <1>6
<1>10. /\ DOMAIN next = 1..n
       /\ \A i \in 1..n : next[i] = IF i = k THEN s
                                    ELSE IF i <= Len(info) THEN info[i] ELSE NoAddress
  BY <1>8
<1>11. Len(next) = n
  <2>1. DOMAIN next = 1..Len(next) /\ Len(next) \in Nat
    BY <1>7 DEF Entries
  <2> QED
    BY <1>9, <1>10, <2>1
<1>12. \A i \in DOMAIN next : next[i] \in {NoAddress, Peers[r][i]}
  BY <1>3, <1>4, <1>5, <1>9, <1>10
<1>13. next[Len(next)] # NoAddress
  <2>1. CASE n = k
    BY <1>4, <1>9, <1>10, <1>11, <2>1
  <2>2. CASE n # k
    <3>1. n = Len(info) /\ Len(info) >= 1
      BY <1>6, <1>9, <2>2
    <3>2. info # <<>>
      BY <3>1
    <3> QED
      BY <1>5, <1>9, <1>10, <1>11, <2>2, <3>1, <3>2
  <2> QED
    BY <2>1, <2>2
<1>14. next \in Infos(r)
  BY <1>7, <1>9, <1>11, <1>12, <1>13 DEF Infos
<1>15. k \in 1..n
  BY <1>4, <1>6, <1>9
<1>16. s \in Range(next)
  BY <1>10, <1>15 DEF Range
<1>17. ASSUME NEW t \in Routers, t \in Range(info)
       PROVE  t \in Range(next)
  <2>1. PICK i \in DOMAIN info : info[i] = t
    BY <1>17 DEF Range
  <2>2. i \in 1..n /\ i <= Len(info)
    <3>1. i \in 1..Len(info)
      BY <1>5, <2>1
    <3>2. Len(info) \in Nat /\ n >= Len(info)
      BY <1>5, <1>6
    <3> QED
      BY <1>9, <3>1, <3>2
  <2>3. t # NoAddress
    BY BackendAssumption
  <2>4. i = k => t = s
    BY <1>3, <1>5, <2>1, <2>3
  <2>5. next[i] = t
    BY <1>10, <2>1, <2>2, <2>4
  <2> QED
    BY <1>10, <2>2, <2>5 DEF Range
<1>18. ASSUME NEW t \in Routers, t \in Range(next)
       PROVE  t = s \/ t \in Range(info)
  <2>1. PICK i \in DOMAIN next : next[i] = t
    BY <1>18 DEF Range
  <2>2. t # NoAddress
    BY BackendAssumption
  <2>3. i = k \/ (i <= Len(info) /\ info[i] = t)
    BY <1>10, <2>1, <2>2
  <2>4. i <= Len(info) => i \in DOMAIN info
    BY <1>5, <1>9, <1>10, <2>1
  <2> QED
    BY <1>10, <2>1, <2>3, <2>4 DEF Range
<1> QED
  BY <1>14, <1>16, <1>17, <1>18 DEF next, k

-----------------------------------------------------------------------------
(* What the steps make of the frontends and the wires.                     *)

LEMMA DiscoverIs ==
    ASSUME RoutingInv, NEW r \in Routers, Discover(r)
    PROVE  /\ front[r].state = "Sleep" /\ front[r].sequence < MaxSequence
           /\ front'[r].state = "WaitAck" /\ front'[r].portInfo = <<>>
           /\ \A s \in Routers : /\ front'[s].sequence = front[s].sequence
                                 /\ front'[s].sequenceInfo = front[s].sequenceInfo
                                 /\ s # r => front'[s] = front[s]
           /\ Sends(wire, wire', r, Range(Peers[r]), Hello(r))
<1>1. front \in [Routers -> Fronts]
  BY DEF RoutingInv, FrontsHold
<1>2. front[r].state = "Sleep" /\ front[r].sequence < MaxSequence
  BY DEF Discover
<1>3. /\ front'[r].state = "WaitAck" /\ front'[r].portInfo = <<>>
      /\ \A s \in Routers : /\ front'[s].sequence = front[s].sequence
                            /\ front'[s].sequenceInfo = front[s].sequenceInfo
                            /\ s # r => front'[s] = front[s]
  BY <1>1 DEF Discover, Forgotten, Fronts
<1>4. Hello(r) \in Genuine(announced)
  BY BackendAssumption DEF Hello, Plain, Genuine
<1>5. wire \in [Links -> Seq(Genuine(announced))]
  BY DEF RoutingInv, WiresHold
<1>6. wire' = Pushed(wire, r, Range(Peers[r]), Hello(r))
  BY Zenon DEF Discover, Broadcast
<1> QED
  BY <1>2, <1>3, <1>4, <1>5, <1>6, PushedMembers

LEMMA AnnounceIs ==
    ASSUME RoutingInv, NEW r \in Routers, Announce(r)
    PROVE  LET n == front[r].sequence + 1
           IN  /\ front[r].state = "WaitAck" /\ front'[r].state = "Sleep"
               /\ front'[r].sequence = n /\ front'[r].portInfo = front[r].portInfo
               /\ \A s \in Routers : /\ front'[s].sequenceInfo = front[s].sequenceInfo
                                     /\ s # r => front'[s] = front[s]
               /\ n = Len(announced'[r]) /\ announced'[r][n] = front[r].portInfo
               /\ \A m \in DOMAIN announced'[r] : m # n =>
                    m \in DOMAIN announced[r] /\ announced'[r][m] = announced[r][m]
               /\ announced'[r] # <<>>
               /\ \A s \in Routers : s # r => announced'[s] = announced[s]
               /\ Sends(wire, wire', r, Range(Peers[r]), Sequence(r, n, front[r].portInfo))
               /\ Waits(r) => n < MaxSequence
<1> DEFINE n == front[r].sequence + 1
           e == front[r].portInfo
           p == Sequence(r, n, e)
<1>1. /\ front \in [Routers -> Fronts] /\ announced \in [Routers -> Seq(Entries)]
      /\ front[r].sequence = Len(announced[r])
  BY DEF RoutingInv, FrontsHold
<1>2. p.sequence = n /\ p.entry = e
  BY DEF Sequence
<1>3. /\ front' = [front EXCEPT ![r].state = "Sleep", ![r].sequence = n]
      /\ wire' = Pushed(wire, r, Range(Peers[r]), p)
      /\ announced' = [announced EXCEPT ![r] = Append(@, e)]
      /\ front[r].state = "WaitAck" /\ (Waits(r) => n < MaxSequence)
  <2> HIDE DEF e, n
  <2> QED
    BY <1>2, Zenon DEF Announce, Broadcast, e, n
<1>4. e \in Entries /\ n \in Nat \ {0} /\ n = Len(announced[r]) + 1
  BY <1>1 DEF Fronts
<1>5. /\ front'[r].state = "Sleep" /\ front'[r].sequence = n /\ front'[r].portInfo = e
      /\ \A s \in Routers : /\ front'[s].sequenceInfo = front[s].sequenceInfo
                            /\ s # r => front'[s] = front[s]
  <2> DEFINE g == [front[r] EXCEPT !.state = "Sleep", !.sequence = n]
  <2>1. /\ g.state = "Sleep" /\ g.sequence = n /\ g.portInfo = e
        /\ g.sequenceInfo = front[r].sequenceInfo
    BY <1>1, <1>4 DEF Fronts
  <2>2. front' = [front EXCEPT ![r] = g]
    BY <1>1, <1>3
  <2> HIDE DEF g
  <2> QED
    BY <1>1, <2>1, <2>2
<1>6. /\ announced'[r] = Append(announced[r], e)
      /\ \A s \in Routers : s # r => announced'[s] = announced[s]
  BY <1>1, <1>3
<1> HIDE DEF e
<1>7. /\ n = Len(announced'[r]) /\ announced'[r][n] = e /\ announced'[r] # <<>>
      /\ \A m \in DOMAIN announced'[r] : m # n =>
            m \in DOMAIN announced[r] /\ announced'[r][m] = announced[r][m]
  <2>1. announced[r] \in Seq(Entries)
    BY <1>1
  <2> QED
    BY <1>4, <1>6, <2>1
<1>8. Sends(wire, wire', r, Range(Peers[r]), p)
  <2> DEFINE G == Genuine(announced) \cup {p}
  <2>1. wire \in [Links -> Seq(G)]
    <3>1. \A l \in Links : wire[l] \in Seq(G)
      BY DEF RoutingInv, WiresHold
    <3> QED
      BY <3>1 DEF RoutingInv, WiresHold
  <2>2. p \in G
    OBVIOUS
  <2> HIDE DEF G, p
  <2> QED
    BY <1>3, <2>1, <2>2, PushedMembers
<1> QED
  BY <1>3, <1>5, <1>6, <1>7, <1>8 DEF e

\* An Ack is of the router at the port it comes in by.
LEMMA GetsAckIs ==
    ASSUME RoutingInv, RightOn(wire), NEW l \in Links, GetsAck(l[1], l[2])
    PROVE  /\ wire[l] # <<>> /\ wire' = [wire EXCEPT ![l] = Tail(@)]
           /\ Head(wire[l]).type = "Ack" /\ Head(wire[l]).src = l[1]
           /\ \A s \in Routers : /\ front'[s].state = front[s].state
                                 /\ front'[s].sequence = front[s].sequence
                                 /\ front'[s].sequenceInfo = front[s].sequenceInfo
                                 /\ s # l[2] => front'[s] = front[s]
           /\ IF front[l[2]].state = "WaitAck"
              THEN front'[l[2]].portInfo =
                      Noted(front[l[2]].portInfo, PortOf(l[2], l[1]), l[1])
              ELSE front' = front
<1> DEFINE r == l[2]
           info == Noted(front[r].portInfo, PortOf(r, l[1]), l[1])
<1>1. /\ wire[l] # <<>> /\ wire' = [wire EXCEPT ![l] = Tail(@)] /\ r \in Routers
      /\ Head(wire[l]).type = "Ack"
  BY LinkIs DEF GetsAck, Arrives, Taken
<1>2. Head(wire[l]).src = l[1]
  <2>1. Right(l, Head(wire[l]))
    BY <1>1, TakenRight
  <2> QED
    BY <1>1, <2>1 DEF Right
<1>3. IF front[r].state = "WaitAck" THEN front' = [front EXCEPT ![r].portInfo = info]
      ELSE front' = front
  BY <1>2, LinkIs DEF GetsAck
<1>4. front \in [Routers -> Fronts]
  BY DEF RoutingInv, FrontsHold
<1> HIDE DEF info
<1>5. CASE front[r].state = "WaitAck"
  <2> DEFINE g == [front[r] EXCEPT !.portInfo = info]
  <2>1. /\ g.state = front[r].state /\ g.sequence = front[r].sequence
        /\ g.portInfo = info /\ g.sequenceInfo = front[r].sequenceInfo
    BY <1>1, <1>4 DEF Fronts
  <2>2. front' = [front EXCEPT ![r] = g]
    BY <1>3, <1>5
  <2> HIDE DEF g
  <2>3. front'[r].portInfo = info
    BY <1>1, <1>4, <2>1, <2>2
  <2>4. \A s \in Routers : /\ front'[s].state = front[s].state
                           /\ front'[s].sequence = front[s].sequence
                           /\ front'[s].sequenceInfo = front[s].sequenceInfo
                           /\ s # r => front'[s] = front[s]
    BY <1>1, <1>4, <2>1, <2>2
  <2> QED
    BY <1>1, <1>2, <1>5, <2>3, <2>4 DEF info
<1>6. CASE front[r].state # "WaitAck"
  BY <1>1, <1>2, <1>3, <1>6
<1> QED
  BY <1>5, <1>6

\* r takes an announcement and sends it on, or drops it.
LEMMA GetsSequenceIs ==
    ASSUME RoutingInv, NEW l \in Links, GetsSequence(l[1], l[2])
    PROVE  LET r == l[2]
               p == Passed(Head(wire[l]))
               w == [wire EXCEPT ![l] = Tail(@)]
           IN  /\ wire[l] # <<>> /\ Head(wire[l]).type = "Sequence" /\ power[r]
               /\ Head(wire[l]).ttl > 1
               /\ \/ /\ p.src = r \/ front[r].sequenceInfo[p.src] >= p.sequence
                     /\ UNCHANGED front /\ wire' = w
                  \/ /\ p.src # r /\ front[r].sequenceInfo[p.src] < p.sequence
                     /\ Sends(w, wire', r, Range(Peers[r]), p)
                     /\ \A s \in Routers : /\ front'[s].state = front[s].state
                                           /\ front'[s].sequence = front[s].sequence
                                           /\ front'[s].portInfo = front[s].portInfo
                     /\ \A s, t \in Routers :
                            front'[s].sequenceInfo[t] =
                                IF s = r /\ t = p.src THEN p.sequence
                                ELSE front[s].sequenceInfo[t]
<1> DEFINE r == l[2]
           h == Head(wire[l])
           p == Passed(h)
           w == [wire EXCEPT ![l] = Tail(@)]
           t == p.src
           n == p.sequence
<1>1. /\ r \in Routers /\ wire[l] # <<>> /\ h.type = "Sequence" /\ power[r] /\ h.ttl > 1
  BY LinkIs DEF GetsSequence, Arrives
<1>2. /\ h \in Genuine(announced)
      /\ w \in [Links -> Seq(Genuine(announced))]
  BY <1>1, Delivers
<1>3. /\ p \in Genuine(announced) /\ t \in Routers
      /\ n \in 1..Len(announced[t])
  BY <1>1, <1>2, PassedIs
<1>4. /\ front \in [Routers -> Fronts] /\ announced \in [Routers -> Seq(Entries)]
  BY DEF RoutingInv, FrontsHold
<1>5. n \in Nat /\ front[r].sequenceInfo \in [Routers -> Nat] /\ front[r].sequenceInfo[t] \in Nat
  <2>1. Len(announced[t]) \in Nat
    BY <1>3, <1>4
  <2>2. n \in Nat
    BY <1>3, <2>1
  <2>3. front[r].sequenceInfo \in [Routers -> Nat]
    BY <1>1, <1>4 DEF Fronts
  <2> QED
    BY <2>2, <2>3, <1>3
<1>6. CASE t = r \/ ~Newer(r, p)
  <2>1. wire' = w /\ UNCHANGED front
    BY <1>6, LinkIs DEF GetsSequence, Taken
  <2>2. t = r \/ front[r].sequenceInfo[t] >= n
    BY <1>5, <1>6 DEF Newer
  <2> QED
    BY <1>1, <2>1, <2>2
<1>7. CASE t # r /\ Newer(r, p)
  <2>1. /\ front' = [front EXCEPT ![r].sequenceInfo[t] = n]
        /\ wire' = Pushed(w, r, Range(Peers[r]), p)
    BY <1>7, LinkIs, Zenon DEF GetsSequence, Taken, Broadcast
  <2>2. front[r].sequenceInfo[t] < n
    BY <1>7 DEF Newer
  <2>3. Sends(w, wire', r, Range(Peers[r]), p)
    <3> HIDE DEF w, p
    <3> QED
      BY <1>2, <1>3, <2>1, PushedMembers
  <2>4. /\ \A s \in Routers : /\ front'[s].state = front[s].state
                              /\ front'[s].sequence = front[s].sequence
                              /\ front'[s].portInfo = front[s].portInfo
        /\ \A s, q \in Routers : front'[s].sequenceInfo[q] =
                IF s = r /\ q = t THEN n ELSE front[s].sequenceInfo[q]
    <3> DEFINE info == [front[r].sequenceInfo EXCEPT ![t] = n]
               g == [front[r] EXCEPT !.sequenceInfo = info]
    <3> HIDE DEF n, t, p, r
    <3>1. /\ info \in [Routers -> Nat]
          /\ \A q \in Routers : info[q] = IF q = t THEN n ELSE front[r].sequenceInfo[q]
      BY <1>3, <1>5
    <3>2. front' = [front EXCEPT ![r] = g]
      BY <2>1
    <3> HIDE DEF info
    <3>3. /\ g.sequenceInfo = info /\ g.state = front[r].state
          /\ g.sequence = front[r].sequence /\ g.portInfo = front[r].portInfo
      BY <1>1, <1>4 DEF Fronts
    <3> HIDE DEF g
    <3> QED
      BY <1>1, <1>4, <3>1, <3>2, <3>3
  <2> QED
    BY <1>1, <1>7, <2>2, <2>3, <2>4
<1> QED
  BY <1>6, <1>7

\* The steps that leave the frontends alone.
Aside ==
    \/ \E l \in Links : \/ Dropped(l[1], l[2]) \/ GetsHello(l[1], l[2])
                        \/ GetsData(l[1], l[2])
    \/ \E r \in Routers : RunTask(r)
    \/ \E l \in Senders : IpSend(l[1], l[2])
    \/ \E r \in Switchable : Switch(r)
    \/ UNCHANGED vars

LEMMA AsideIs == Aside => UNCHANGED <<front, announced>>
BY DEF Aside, Dropped, GetsHello, GetsData, RunTask, IpSend, Switch, vars

LEMMA StepIs ==
    [RoutingNext]_vars =>
        \/ \E r \in Routers : Discover(r) \/ Announce(r)
        \/ \E l \in Links : GetsAck(l[1], l[2]) \/ GetsSequence(l[1], l[2])
        \/ Aside
BY Zenon DEF RoutingNext, System, Arrive, Aside

LEMMA InfosNext ==
    RoutingInv /\ RightOn(wire) /\ InfosHold /\ [RoutingNext]_vars => InfosHold'
<1> SUFFICES ASSUME RoutingInv, RightOn(wire), InfosHold, [RoutingNext]_vars
             PROVE  InfosHold'
  OBVIOUS
<1>1. CASE Aside
  BY <1>1, AsideIs DEF InfosHold
<1>2. ASSUME NEW r \in Routers, Discover(r)
      PROVE  InfosHold'
  <2>1. <<>> \in Infos(r)
    <3>1. Peers[r] \in Seq(Routers \ {r})
      BY RoutingAssumption
    <3>2. Len(Peers[r]) \in Nat /\ <<>> \in Entries /\ Len(<<>>) = 0
      BY <3>1 DEF Entries
    <3> QED
      BY <3>2 DEF Infos
  <2>2. UNCHANGED announced
    BY <1>2 DEF Discover
  <2>3. \A s \in Routers : front'[s].portInfo \in Infos(s)
    BY <1>2, <2>1, DiscoverIs DEF InfosHold
  <2> QED
    BY <2>2, <2>3 DEF InfosHold
<1>3. ASSUME NEW r \in Routers, Announce(r)
      PROVE  InfosHold'
  <2>1. \A s \in Routers : front'[s].portInfo \in Infos(s)
    BY <1>3, AnnounceIs DEF InfosHold
  <2>2. \A s \in Routers : \A n \in DOMAIN announced'[s] : announced'[s][n] \in Infos(s)
    BY <1>3, AnnounceIs DEF InfosHold
  <2> QED
    BY <2>1, <2>2 DEF InfosHold
<1>4. ASSUME NEW l \in Links, GetsAck(l[1], l[2])
      PROVE  InfosHold'
  <2>1. UNCHANGED announced
    BY <1>4 DEF GetsAck
  <2>2. l[2] \in Routers /\ l[1] \in Range(Peers[l[2]])
    BY LinkIs, RoutingAssumption DEF Links
  <2>3. front[l[2]].portInfo \in Infos(l[2])
    BY <2>2 DEF InfosHold
  <2>4. Noted(front[l[2]].portInfo, PortOf(l[2], l[1]), l[1]) \in Infos(l[2])
    BY <2>2, <2>3, NotedInfo
  <2>5. /\ \A s \in Routers \ {l[2]} : front'[s] = front[s]
        /\ \/ front'[l[2]].portInfo = Noted(front[l[2]].portInfo, PortOf(l[2], l[1]), l[1])
           \/ front' = front
    BY <1>4, GetsAckIs
  <2>6. \A s \in Routers : front'[s].portInfo \in Infos(s)
    BY <2>2, <2>4, <2>5 DEF InfosHold
  <2> QED
    BY <2>1, <2>6 DEF InfosHold
<1>5. ASSUME NEW l \in Links, GetsSequence(l[1], l[2])
      PROVE  InfosHold'
  <2>1. UNCHANGED announced
    BY <1>5 DEF GetsSequence
  <2>2. \A s \in Routers : front'[s].portInfo = front[s].portInfo
    BY <1>5, GetsSequenceIs
  <2> QED
    BY <2>1, <2>2 DEF InfosHold
<1> QED
  BY <1>1, <1>2, <1>3, <1>4, <1>5, StepIs, Zenon

LEMMA CountedNext ==
    RoutingInv /\ RightOn(wire) /\ Counted /\ [RoutingNext]_vars => Counted'
<1> SUFFICES ASSUME RoutingInv, RightOn(wire), Counted, [RoutingNext]_vars
             PROVE  Counted'
  OBVIOUS
<1>1. CASE Aside
  BY <1>1, AsideIs DEF Counted
<1>2. ASSUME NEW r \in Routers, Discover(r)
      PROVE  Counted'
  BY <1>2, DiscoverIs DEF Counted
<1>3. ASSUME NEW r \in Routers, Announce(r)
      PROVE  Counted'
  <2>1. front[r].sequence \in Nat /\ MaxSequence \in Nat
    BY RoutingAssumption DEF RoutingInv, FrontsHold, Fronts
  <2>2. front[r].sequence < MaxSequence
    BY <1>3, AnnounceIs DEF Counted
  <2>3. front'[r].state = "Sleep" /\ front'[r].sequence <= MaxSequence
    BY <1>3, <2>1, <2>2, AnnounceIs
  <2>4. \A s \in Routers \ {r} : front'[s] = front[s]
    BY <1>3, AnnounceIs
  <2> QED
    BY <2>3, <2>4 DEF Counted
<1>4. ASSUME NEW l \in Links, GetsAck(l[1], l[2])
      PROVE  Counted'
  BY <1>4, GetsAckIs DEF Counted
<1>5. ASSUME NEW l \in Links, GetsSequence(l[1], l[2])
      PROVE  Counted'
  BY <1>5, GetsSequenceIs DEF Counted
<1> QED
  BY <1>1, <1>2, <1>3, <1>4, <1>5, StepIs, Zenon

LEMMA TablesNext == RoutingInv /\ TablesHold /\ [RoutingNext]_vars => TablesHold'
<1> SUFFICES ASSUME RoutingInv, TablesHold, [RoutingNext]_vars
             PROVE  TablesHold'
  OBVIOUS
<1>1. DOMAIN back = Routers /\ \A r \in Routers : IsBackend(back[r])
  BY DEF RoutingInv, BacksHold
<1>2. ASSUME NEW r \in Routers, NEW a \in Ann, back' = [back EXCEPT ![r] = Queue(@, a)]
      PROVE  TablesHold'
  <2>1. Queue(back[r], a).conn = back[r].conn /\ Queue(back[r], a).dis = back[r].dis
    BY <1>1, Queued
  <2>2. \A s \in Routers : back'[s].conn = back[s].conn /\ back'[s].dis = back[s].dis
    BY <1>1, <1>2, <2>1
  <2> QED
    BY <2>2 DEF TablesHold, TableOf
<1>3. ASSUME UNCHANGED back
      PROVE  TablesHold'
  BY <1>3 DEF TablesHold
<1>4. ASSUME NEW r \in Routers, Announce(r)
      PROVE  TablesHold'
  <2> DEFINE e == front[r].portInfo
  <2>1. e \in Entries
    BY DEF RoutingInv, FrontsHold, Fronts
  <2>2. [ip |-> r, entry |-> e] \in Ann
    BY <2>1 DEF Ann, Entries
  <2>3. Sequence(r, front[r].sequence + 1, e).entry = e
    BY DEF Sequence
  <2>4. back' = [back EXCEPT ![r] = Queue(@, [ip |-> r, entry |-> e])]
    <3> HIDE DEF e
    <3> QED
      BY <1>4, <2>3, Zenon DEF Announce, e
  <2> QED
    BY <1>2, <2>2, <2>4
<1>5. ASSUME NEW l \in Links, GetsSequence(l[1], l[2])
      PROVE  TablesHold'
  <2> DEFINE p == Passed(Head(wire[l]))
             a == [ip |-> p.src, entry |-> p.entry]
  <2>1. /\ wire[l] # <<>> /\ Head(wire[l]).type = "Sequence"
        /\ back' = [back EXCEPT ![l[2]] = Queue(@, a)] \/ UNCHANGED back
    BY <1>5, LinkIs DEF GetsSequence, Arrives
  <2>2. Head(wire[l]) \in Genuine(announced)
    BY <2>1, Delivers
  <2>3. /\ p.src \in Routers /\ p.src = Head(wire[l]).src
        /\ p.entry = Head(wire[l]).entry /\ Head(wire[l]) \in Sequences
    BY <2>1, <2>2, PassedIs
  <2> HIDE DEF p
  <2>4. a \in Ann
    BY <2>3 DEF Sequences, Ann, Entries
  <2> HIDE DEF a
  <2> QED
    BY <1>2, <1>3, <2>1, <2>4, LinkIs
<1>6. ASSUME NEW r \in Routers, RunTask(r)
      PROVE  TablesHold'
  <2> DEFINE b == back[r]
             b2 == TaskRun(b, r)
  <2>1. b.que # <<>> /\ back' = [back EXCEPT ![r] = b2]
    BY <1>6, Zenon DEF RunTask, RoutingInv, BacksHold
  <2>2. /\ b2.conn = Updated(b.conn, Head(b.que)) /\ b2.dis = Dijkstra(b2.conn, r)
    BY <1>1, <2>1, Worked
  <2>3. b.conn \in Seq(Ann) /\ b.que \in Seq(Ann)
    BY <1>1 DEF IsBackend
  <2>4. Head(b.que) \in Ann
    BY <2>1, <2>3
  <2>5. Once(b.conn)
    BY DEF TablesHold, TableOf
  <2>6. Once(b2.conn)
    <3> HIDE DEF b, b2
    <3>1. Once(Updated(b.conn, Head(b.que)))
      BY <2>3, <2>4, <2>5, UpdatedTable
    <3> QED
      BY <2>2, <3>1
  <2>7. TableOf(b2, r)
    BY <2>2, <2>6 DEF TableOf
  <2> HIDE DEF b2
  <2>8. \A s \in Routers : TableOf(back'[s], s)
    BY <1>1, <2>1, <2>7 DEF TablesHold
  <2> QED
    BY <2>8 DEF TablesHold
<1>7. ASSUME \/ \E r \in Routers : Discover(r)
             \/ \E l \in Links : \/ GetsAck(l[1], l[2]) \/ Dropped(l[1], l[2])
                                 \/ GetsHello(l[1], l[2]) \/ GetsData(l[1], l[2])
             \/ \E l \in Senders : IpSend(l[1], l[2])
             \/ \E r \in Switchable : Switch(r)
             \/ UNCHANGED vars
      PROVE  TablesHold'
  <2>1. UNCHANGED back
    BY <1>7 DEF Discover, GetsAck, Dropped, GetsHello, GetsData, IpSend, Switch, vars
  <2> QED
    BY <2>1, <1>3
<1> QED
  BY <1>4, <1>5, <1>6, <1>7, Zenon DEF RoutingNext, System, Arrive

LEMMA ShapeInvInit == RoutingInit => ShapeInv
<1> SUFFICES ASSUME RoutingInit
             PROVE  ShapeInv
  OBVIOUS
<1>1. RightOn(wire)
  BY DEF RoutingInit, RightOn, Range
<1>2. InfosHold
  <2>1. ASSUME NEW r \in Routers
        PROVE  <<>> \in Infos(r)
    <3>1. Peers[r] \in Seq(Routers \ {r})
      BY RoutingAssumption
    <3>2. Len(Peers[r]) \in Nat /\ <<>> \in Entries /\ Len(<<>>) = 0
      BY <3>1 DEF Entries
    <3> QED
      BY <3>2 DEF Infos
  <2>2. \A r \in Routers : front[r].portInfo = <<>> /\ announced[r] = <<>>
    BY DEF RoutingInit
  <2> QED
    BY <2>1, <2>2 DEF InfosHold
<1>3. Counted
  BY RoutingAssumption DEF RoutingInit, Counted
<1>4. TablesHold
  <2>1. ASSUME NEW r \in Routers
        PROVE  TableOf(EmptyBack, r)
    BY DEF EmptyBack, TableOf, Once, Dijkstra, Places
  <2>2. \A r \in Routers : back[r] = EmptyBack
    BY DEF RoutingInit
  <2> QED
    BY <2>1, <2>2 DEF TablesHold
<1>5. power \in [Routers -> BOOLEAN]
  BY DEF RoutingInit
<1> QED
  BY <1>1, <1>2, <1>3, <1>4, <1>5 DEF ShapeInv

LEMMA ShapeInvNext == RoutingInv /\ ShapeInv /\ [RoutingNext]_vars => ShapeInv'
<1> SUFFICES ASSUME RoutingInv, ShapeInv, [RoutingNext]_vars
             PROVE  ShapeInv'
  OBVIOUS
<1>1. RightOn(wire) /\ InfosHold /\ Counted /\ TablesHold /\ power \in [Routers -> BOOLEAN]
  BY DEF ShapeInv
<1>2. power' \in [Routers -> BOOLEAN]
  <2>1. ASSUME NEW r \in Switchable, Switch(r)
        PROVE  power' \in [Routers -> BOOLEAN]
    BY <1>1, <2>1 DEF Switch
  <2>2. CASE UNCHANGED power
    BY <1>1, <2>2
  <2>3. (\E r \in Switchable : Switch(r)) \/ UNCHANGED power
    BY DEF RoutingNext, System, Arrive, Discover, Announce, RunTask, Dropped, GetsHello,
           GetsAck, GetsSequence, GetsData, IpSend, vars
  <2> QED
    BY <2>1, <2>2, <2>3
<1>3. RightOn(wire')
  BY <1>1, RightNext
<1>4. InfosHold' /\ Counted' /\ TablesHold'
  BY <1>1, InfosNext, CountedNext, TablesNext
<1> QED
  BY <1>2, <1>3, <1>4 DEF ShapeInv

\* The shape of the state follows.
LEMMA ShapeOf == RoutingInv /\ ShapeInv => RoutingTypeOK
<1> SUFFICES ASSUME RoutingInv, ShapeInv
             PROVE  RoutingTypeOK
  OBVIOUS
<1>1. ASSUME NEW r \in Routers
      PROVE  /\ front[r].state \in {"WaitAck", "Sleep"}
             /\ front[r].sequence \in 0..MaxSequence
             /\ Len(front[r].portInfo) <= Len(Peers[r])
             /\ \A i \in DOMAIN front[r].portInfo :
                    front[r].portInfo[i] \in {NoAddress, Peers[r][i]}
             /\ back[r].scheduled \in BOOLEAN /\ Len(back[r].dis) = Len(back[r].conn)
  <2>1. front[r] \in Fronts /\ front[r].sequence <= MaxSequence /\ MaxSequence \in Nat
    BY RoutingAssumption DEF RoutingInv, FrontsHold, ShapeInv, Counted
  <2>2. front[r].state \in {"WaitAck", "Sleep"} /\ front[r].sequence \in 0..MaxSequence
    BY <2>1 DEF Fronts
  <2>3. front[r].portInfo \in Infos(r)
    BY DEF ShapeInv, InfosHold
  <2>4. IsBackend(back[r]) /\ TableOf(back[r], r)
    BY DEF RoutingInv, BacksHold, ShapeInv, TablesHold
  <2>5. back[r].scheduled \in BOOLEAN /\ back[r].conn \in Seq(Ann)
    BY <2>4 DEF IsBackend
  <2>6. Len(back[r].dis) = Len(back[r].conn)
    BY <2>4, <2>5, DijkstraShape DEF TableOf
  <2> QED
    BY <2>2, <2>3, <2>5, <2>6 DEF Infos
<1>2. ASSUME NEW l \in Links, NEW i \in DOMAIN wire[l]
      PROVE  wire[l][i].ttl \in 1..TTL
  <2>1. wire[l][i] \in Range(wire[l])
    BY DEF Range
  <2> QED
    BY <2>1 DEF ShapeInv, RightOn, Right
<1>3. power \in [Routers -> BOOLEAN]
  BY DEF ShapeInv
<1> QED
  BY <1>1, <1>2, <1>3, Zenon DEF RoutingTypeOK

-----------------------------------------------------------------------------
(* What the steps make of the packets on a wire.                           *)

\* v is w without the packet that l delivers.
Loses(w, v, l) ==
    /\ w[l] # <<>>
    /\ \A m \in Links : \A q : q \in Range(v[m]) => q \in Range(w[m])
    /\ \A m \in Links : \A q : q \in Range(w[m]) =>
            q \in Range(v[m]) \/ (m = l /\ q = Head(w[l]))

LEMMA TakenLoses ==
    ASSUME RoutingInv, NEW l \in Links, wire[l] # <<>>
    PROVE  Loses(wire, [wire EXCEPT ![l] = Tail(@)], l)
<1>1. wire \in [Links -> Seq(Genuine(announced))]
  BY DEF RoutingInv, WiresHold
<1> DEFINE v == [wire EXCEPT ![l] = Tail(@)]
<1>2. /\ \A m \in Links : Range(v[m]) \subseteq Range(wire[m])
      /\ \A m \in Links : m # l => v[m] = wire[m]
      /\ Range(wire[l]) \subseteq Range(v[l]) \cup {Head(wire[l])}
  BY <1>1, TakenMembers
<1> HIDE DEF v
<1>3. Loses(wire, v, l)
  BY <1>2 DEF Loses
<1> QED
  BY <1>3 DEF v

LEMMA DroppedIs ==
    ASSUME RoutingInv, RightOn(wire), NEW l \in Links, Dropped(l[1], l[2])
    PROVE  /\ Loses(wire, wire', l)
           /\ Head(wire[l]) \in Range(wire[l]) /\ Right(l, Head(wire[l]))
           /\ power[l[2]] => Head(wire[l]).ttl = 1
<1>1. wire[l] # <<>> /\ wire' = [wire EXCEPT ![l] = Tail(@)]
  BY LinkIs DEF Dropped, Taken
<1>2. power[l[2]] => Head(wire[l]).ttl = 1
  BY LinkIs DEF Dropped
<1>3. Head(wire[l]) \in Range(wire[l])
  BY <1>1, TakenMembers DEF RoutingInv, WiresHold
<1> QED
  BY <1>1, <1>2, <1>3, TakenLoses, TakenRight

LEMMA GetsHelloIs ==
    ASSUME RoutingInv, RightOn(wire), NEW l \in Links, GetsHello(l[1], l[2])
    PROVE  /\ power[l[2]] /\ Head(wire[l]).type = "Hello" /\ Head(wire[l]).src = l[1]
           /\ \E w : Loses(wire, w, l) /\ Sends(w, wire', l[2], {l[1]}, Ack(l[2]))
<1> DEFINE w == [wire EXCEPT ![l] = Tail(@)]
<1>1. /\ wire[l] # <<>> /\ wire' = Pushed(w, l[2], {l[1]}, Ack(l[2]))
      /\ power[l[2]] /\ Head(wire[l]).type = "Hello"
  BY LinkIs DEF GetsHello, Arrives, Taken
<1>2. Head(wire[l]).src = l[1]
  <2>1. Right(l, Head(wire[l]))
    BY <1>1, TakenRight
  <2> QED
    BY <1>1, <2>1 DEF Right
<1>3. w \in [Links -> Seq(Genuine(announced))]
  BY <1>1, Delivers
<1>4. Ack(l[2]) \in Genuine(announced)
  BY LinkIs, BackendAssumption DEF Ack, Plain, Genuine
<1>5. Loses(wire, w, l)
  BY <1>1, TakenLoses
<1> HIDE DEF w
<1>6. Sends(w, wire', l[2], {l[1]}, Ack(l[2]))
  BY <1>1, <1>3, <1>4, PushedMembers
<1> QED
  BY <1>1, <1>2, <1>5, <1>6

\* The steps that move nothing but datagrams.
Carries ==
    \/ \E l \in Links : GetsData(l[1], l[2])
    \/ \E r \in Routers : RunTask(r)
    \/ \E l \in Senders : IpSend(l[1], l[2])
    \/ \E r \in Switchable : Switch(r)
    \/ UNCHANGED vars

LEMMA CarriesIs ==
    ASSUME RoutingInv, Carries
    PROVE  \A l \in Links : \A p : p.type # "Data" => (p \in Range(wire'[l]) <=> p \in Range(wire[l]))
<1> DEFINE Same(w) ==
        \A l \in Links : \A p : p.type # "Data" => (p \in Range(w[l]) <=> p \in Range(wire[l]))
<1>1. wire \in [Links -> Seq(Genuine(announced))]
  BY DEF RoutingInv, WiresHold
<1>2. ASSUME NEW w \in [Links -> Seq(Genuine(announced))], Same(w), NEW r,
             NEW p \in Genuine(announced), p.type = "Data"
      PROVE  Same(Routed(w, r, p))
  <2>1. ASSUME NEW S
        PROVE  Same(Pushed(w, r, S, p))
    <3>1. Sends(w, Pushed(w, r, S, p), r, S, p)
      BY PushedMembers
    <3> QED
      BY <1>2, <3>1 DEF Sends
  <2> HIDE DEF Same
  <2> QED
    BY <1>2, <2>1 DEF Routed
<1>3. ASSUME NEW l \in Links, GetsData(l[1], l[2])
      PROVE  Same(wire')
  <2> DEFINE w == [wire EXCEPT ![l] = Tail(@)]
             q == Passed(Head(wire[l]))
  <2>1. /\ wire[l] # <<>> /\ Head(wire[l]).type = "Data"
        /\ wire' = w \/ wire' = Routed(w, l[2], q)
    BY <1>3, LinkIs, Zenon DEF GetsData, Arrives, Taken
  <2>2. /\ w \in [Links -> Seq(Genuine(announced))] /\ Head(wire[l]) \in Genuine(announced)
        /\ Loses(wire, w, l)
    BY <2>1, Delivers, TakenLoses
  <2>3. q \in Genuine(announced) /\ q.type = "Data"
    BY <2>1, <2>2, PassedIs
  <2> HIDE DEF w, q
  <2>4. Same(w)
    BY <2>1, <2>2 DEF Loses
  <2> HIDE DEF Same
  <2> QED
    BY <1>2, <2>1, <2>2, <2>3, <2>4
<1>4. ASSUME NEW l \in Senders, IpSend(l[1], l[2])
      PROVE  Same(wire')
  <2>1. Data(l[1], l[2]) \in Genuine(announced) /\ Data(l[1], l[2]).type = "Data"
    BY RoutingAssumption, BackendAssumption DEF Data, Datas, Genuine
  <2>2. wire' = Routed(wire, l[1], Data(l[1], l[2]))
    BY <1>4 DEF IpSend
  <2>3. Same(wire)
    OBVIOUS
  <2> HIDE DEF Same
  <2> QED
    BY <1>1, <1>2, <2>1, <2>2, <2>3
<1>5. ASSUME \/ \E r \in Routers : RunTask(r)
             \/ \E r \in Switchable : Switch(r)
             \/ UNCHANGED vars
      PROVE  Same(wire')
  BY <1>5 DEF RunTask, Switch, vars
<1>6. Same(wire')
  <2> HIDE DEF Same
  <2> QED
    BY <1>3, <1>4, <1>5, Zenon DEF Carries
<1> QED
  BY <1>6

\* Every step is one of those above.
LEMMA StepMoves ==
    [RoutingNext]_vars =>
        \/ \E r \in Routers : Discover(r) \/ Announce(r)
        \/ \E l \in Links : \/ Dropped(l[1], l[2]) \/ GetsHello(l[1], l[2])
                            \/ GetsAck(l[1], l[2]) \/ GetsSequence(l[1], l[2])
        \/ Carries
BY Zenon DEF RoutingNext, System, Arrive, Carries

-----------------------------------------------------------------------------
(* How far an announcement has come.                                       *)

\* The routers that have heard announcement n of s, when front is f.
Heard(f, s, n) == {x \in Routers : x = s \/ f[x].sequenceInfo[s] >= n}

\* A copy has lost a TTL for each router that sent it on; each of them has heard
\* it.
Far(f, p) == p.ttl + Cardinality(Heard(f, p.src, p.sequence)) > TTL

FarHold == \A l \in Links : \A p \in Range(wire[l]) : p.type = "Sequence" => Far(front, p)

LEMMA HeardIs ==
    ASSUME IsFiniteSet(Routers), NEW f, NEW s, NEW n
    PROVE  /\ IsFiniteSet(Heard(f, s, n))
           /\ Cardinality(Heard(f, s, n)) \in Nat
           /\ Cardinality(Heard(f, s, n)) <= Cardinality(Routers)
           /\ Cardinality(Routers) \in Nat
           /\ Cardinality(Heard(f, s, n)) = Cardinality(Routers) => Heard(f, s, n) = Routers
<1>1. Heard(f, s, n) \in SUBSET Routers
  BY DEF Heard
<1> QED
  BY <1>1, FS_Subset, FS_CardinalityType

\* A copy whose TTL runs out has been everywhere.
LEMMA FarEnough ==
    ASSUME IsFiniteSet(Routers), Cardinality(Routers) <= TTL, NEW f, NEW p, Far(f, p), p.ttl = 1
    PROVE  Heard(f, p.src, p.sequence) = Routers
<1> DEFINE c == Cardinality(Heard(f, p.src, p.sequence))
<1>1. 1 + c > TTL
  BY DEF Far
<1>2. /\ c \in Nat /\ c <= Cardinality(Routers) /\ Cardinality(Routers) \in Nat
      /\ c = Cardinality(Routers) => Heard(f, p.src, p.sequence) = Routers
  BY HeardIs
<1> HIDE DEF c
<1>3. c = Cardinality(Routers)
  BY <1>1, <1>2, BackendAssumption
<1> QED
  BY <1>2, <1>3

LEMMA FarNext ==
    ASSUME IsFiniteSet(Routers), RoutingInv, RightOn(wire), FarHold, [RoutingNext]_vars
    PROVE  FarHold'
<1>1. ASSUME \A s \in Routers : front'[s].sequenceInfo = front[s].sequenceInfo,
             NEW p, Far(front, p)
      PROVE  Far(front', p)
  <2>1. Heard(front', p.src, p.sequence) = Heard(front, p.src, p.sequence)
    BY <1>1 DEF Heard
  <2> QED
    BY <1>1, <2>1 DEF Far
<1>2. ASSUME \A s \in Routers : front'[s].sequenceInfo = front[s].sequenceInfo,
             \A l \in Links : \A p : p.type = "Sequence" /\ p \in Range(wire'[l]) => p \in Range(wire[l])
      PROVE  FarHold'
  BY <1>1, <1>2 DEF FarHold
<1>3. ASSUME NEW r \in Routers, Discover(r)
      PROVE  FarHold'
  <2>1. Hello(r).type = "Hello"
    BY DEF Hello
  <2> QED
    BY <1>2, <1>3, <2>1, DiscoverIs DEF Sends
<1>4. ASSUME NEW r \in Routers, Announce(r)
      PROVE  FarHold'
  <2> DEFINE n == front[r].sequence + 1
             p == Sequence(r, n, front[r].portInfo)
  <2>1. Sends(wire, wire', r, Range(Peers[r]), p)
    BY <1>4, AnnounceIs
  <2>2. p.ttl = TTL /\ p.src = r /\ p.sequence = n
    BY DEF Sequence
  <2> HIDE DEF p
  <2>3. Far(front', p)
    <3> DEFINE H == Heard(front', p.src, p.sequence)
    <3>1. r \in H
      BY <2>2 DEF Heard
    <3>2. IsFiniteSet(H) /\ Cardinality(H) \in Nat
      BY HeardIs
    <3>3. Cardinality(H) # 0
      BY <3>1, <3>2, FS_EmptySet
    <3> HIDE DEF H
    <3>4. TTL + Cardinality(H) > TTL
      BY <3>2, <3>3, BackendAssumption
    <3> QED
      BY <2>2, <3>4 DEF Far, H
  <2>4. \A s \in Routers : front'[s].sequenceInfo = front[s].sequenceInfo
    BY <1>4, AnnounceIs
  <2>5. ASSUME NEW l \in Links, NEW q \in Range(wire'[l]), q.type = "Sequence"
        PROVE  Far(front', q)
    <3>1. q \in Range(wire[l]) \/ q = p
      BY <2>1 DEF Sends
    <3> QED
      BY <1>1, <2>3, <2>4, <2>5, <3>1 DEF FarHold
  <2> QED
    BY <2>5 DEF FarHold
<1>5. ASSUME NEW l \in Links, Dropped(l[1], l[2])
      PROVE  FarHold'
  <2>1. UNCHANGED front
    BY <1>5 DEF Dropped
  <2> QED
    BY <1>2, <1>5, <2>1, DroppedIs DEF Loses
<1>6. ASSUME NEW l \in Links, GetsHello(l[1], l[2])
      PROVE  FarHold'
  <2>1. UNCHANGED front
    BY <1>6 DEF GetsHello
  <2>2. Ack(l[2]).type = "Ack"
    BY DEF Ack
  <2>3. PICK w : Loses(wire, w, l) /\ Sends(w, wire', l[2], {l[1]}, Ack(l[2]))
    BY <1>6, GetsHelloIs
  <2> QED
    BY <1>2, <2>1, <2>2, <2>3 DEF Loses, Sends
<1>7. ASSUME NEW l \in Links, GetsAck(l[1], l[2])
      PROVE  FarHold'
  <2>1. Loses(wire, wire', l)
    BY <1>7, GetsAckIs, TakenLoses
  <2> QED
    BY <1>2, <1>7, <2>1, GetsAckIs DEF Loses
<1>8. ASSUME NEW l \in Links, GetsSequence(l[1], l[2])
      PROVE  FarHold'
  <2> DEFINE r == l[2]
             h == Head(wire[l])
             p == Passed(h)
             w == [wire EXCEPT ![l] = Tail(@)]
  <2>1. wire[l] # <<>> /\ h.type = "Sequence"
    BY <1>8, GetsSequenceIs
  <2>2. Loses(wire, w, l)
    BY <2>1, TakenLoses
  <2>3. h \in Genuine(announced) /\ h \in Range(wire[l])
    BY <2>1, Delivers, TakenMembers DEF RoutingInv, WiresHold
  <2>4. CASE UNCHANGED front /\ wire' = w
    <3> HIDE DEF w
    <3> QED
      BY <1>2, <2>2, <2>4 DEF Loses
  <2>5. CASE /\ p.src # r /\ front[r].sequenceInfo[p.src] < p.sequence
             /\ Sends(w, wire', r, Range(Peers[r]), p)
             /\ \A s, t \in Routers :
                    front'[s].sequenceInfo[t] =
                        IF s = r /\ t = p.src THEN p.sequence ELSE front[s].sequenceInfo[t]
    <3>1. /\ p.src \in Routers /\ p.src = h.src /\ p.sequence = h.sequence
          /\ p.sequence \in Nat /\ p.ttl = h.ttl - 1 /\ h.ttl \in Int /\ p.type = "Sequence"
      <4>1. h \in Sequences /\ p.src = h.src /\ p.sequence = h.sequence /\ p.type = "Sequence"
        BY <2>1, <2>3, PassedIs
      <4> QED
        BY <4>1 DEF Sequences, Passed
    <3>2. \A s, t \in Routers : front[s].sequenceInfo[t] \in Nat
      BY DEF RoutingInv, FrontsHold, Fronts
    <3>3. r \in Routers
      BY LinkIs
    <3> HIDE DEF w, p, h, r
    <3>4. ASSUME NEW s \in Routers, NEW n \in Nat
          PROVE  /\ Heard(front, s, n) \subseteq Heard(front', s, n)
                 /\ s = p.src /\ n = p.sequence =>
                        Heard(front', s, n) = Heard(front, s, n) \cup {r}
      <4>1. \A x \in Routers : front[x].sequenceInfo[s] >= n => front'[x].sequenceInfo[s] >= n
        <5> SUFFICES ASSUME NEW x \in Routers, front[x].sequenceInfo[s] >= n
                     PROVE  front'[x].sequenceInfo[s] >= n
          OBVIOUS
        <5>1. CASE x = r /\ s = p.src
          BY <2>5, <3>1, <3>2, <3>3, <5>1
        <5>2. CASE ~(x = r /\ s = p.src)
          BY <2>5, <3>1, <5>2
        <5> QED
          BY <5>1, <5>2
      <4>2. ASSUME s = p.src, n = p.sequence
            PROVE  Heard(front', s, n) = Heard(front, s, n) \cup {r}
        <5>1. front'[r].sequenceInfo[s] >= n
          BY <2>5, <3>1, <3>3, <4>2
        <5>2. \A x \in Routers : x # r => front'[x].sequenceInfo[s] = front[x].sequenceInfo[s]
          BY <2>5, <3>1
        <5> QED
          BY <3>3, <4>1, <5>1, <5>2 DEF Heard
      <4> QED
        BY <4>1, <4>2 DEF Heard
    <3>5. r \notin Heard(front, p.src, p.sequence)
      BY <2>5, <3>1, <3>2, <3>3 DEF Heard
    <3>6. Far(front', p)
      <4> DEFINE H == Heard(front, p.src, p.sequence)
      <4>1. Far(front, h)
        BY <2>1, <2>3 DEF FarHold
      <4>2. h.ttl + Cardinality(H) > TTL
        BY <3>1, <4>1 DEF Far
      <4>3. IsFiniteSet(H) /\ Cardinality(H) \in Nat
        BY HeardIs
      <4>4. Heard(front', p.src, p.sequence) = H \cup {r} /\ r \notin H
        BY <3>1, <3>4, <3>5
      <4> HIDE DEF H
      <4>5. Cardinality(Heard(front', p.src, p.sequence)) = Cardinality(H) + 1
        BY <4>3, <4>4, FS_AddElement
      <4>6. (h.ttl - 1) + (Cardinality(H) + 1) > TTL
        BY <3>1, <4>2, <4>3, BackendAssumption
      <4> QED
        BY <3>1, <4>5, <4>6 DEF Far
    <3>7. ASSUME NEW m \in Links, NEW q \in Range(wire[m]), q.type = "Sequence"
          PROVE  Far(front', q)
      <4> DEFINE H == Heard(front, q.src, q.sequence)
                 I == Heard(front', q.src, q.sequence)
      <4>1. q.ttl + Cardinality(H) > TTL
        BY <3>7 DEF FarHold, Far
      <4>2. wire[m] \in Seq(Genuine(announced))
        BY DEF RoutingInv, WiresHold
      <4>3. q \in Genuine(announced)
        BY <4>2 DEF Range
      <4>4. q.src \in Routers /\ q.sequence \in Nat /\ q.ttl \in Int
        BY <3>7, <4>3, PassedIs DEF Sequences
      <4>5. H \subseteq I
        BY <3>4, <4>4
      <4>6. IsFiniteSet(I) /\ Cardinality(H) \in Nat /\ Cardinality(I) \in Nat
        BY HeardIs
      <4> HIDE DEF H, I
      <4>7. Cardinality(H) <= Cardinality(I)
        BY <4>5, <4>6, FS_Subset
      <4>8. q.ttl + Cardinality(I) > TTL
        BY <4>1, <4>4, <4>6, <4>7, BackendAssumption
      <4> QED
        BY <4>8 DEF Far, I
    <3>8. ASSUME NEW m \in Links, NEW q \in Range(wire'[m]), q.type = "Sequence"
          PROVE  Far(front', q)
      <4>1. q \in Range(wire[m]) \/ q = p
        BY <2>2, <2>5 DEF Loses, Sends
      <4> QED
        BY <3>6, <3>7, <3>8, <4>1
    <3> QED
      BY <3>8 DEF FarHold
  <2> QED
    BY <1>8, <2>4, <2>5, GetsSequenceIs
<1>9. CASE Carries
  <2>1. UNCHANGED front
    BY <1>9 DEF Carries, GetsData, RunTask, IpSend, Switch, vars
  <2> QED
    BY <1>2, <1>9, <2>1, CarriesIs
<1> QED
  BY <1>3, <1>4, <1>5, <1>6, <1>7, <1>8, <1>9, StepMoves, Zenon

-----------------------------------------------------------------------------
(* What a router has found out since power was switched.                   *)

FreshHold ==
    /\ fresh \in [Routers -> {"no", "discovers", "yes"}]
    /\ \A r \in Routers : /\ fresh[r] = "yes" => front[r].state = "Sleep"
                          /\ fresh[r] = "discovers" => front[r].state = "WaitAck"

LEMMA FreshIs ==
    ASSUME RoutingInv, RightOn(wire), FreshHold
    PROVE  /\ \A r \in Routers : Discover(r) =>
                /\ fresh'[r] = "discovers"
                /\ \A s \in Routers : s # r => fresh'[s] = fresh[s]
           /\ \A r \in Routers : Announce(r) =>
                /\ fresh'[r] = "yes" => fresh[r] = "discovers" /\ ~Waits(r)
                /\ fresh'[r] \in {"no", "yes"}
                /\ \A s \in Routers : s # r => fresh'[s] = fresh[s]
           /\ (\E r \in Switchable : Switch(r)) => \A s \in Routers : fresh'[s] = "no"
<1>1. fresh \in [Routers -> {"no", "discovers", "yes"}]
  BY DEF FreshHold
<1>2. ASSUME NEW r \in Routers, Discover(r)
      PROVE  /\ fresh'[r] = "discovers"
             /\ \A s \in Routers : s # r => fresh'[s] = fresh[s]
  BY <1>1, <1>2 DEF Discover
<1>3. ASSUME NEW r \in Routers, Announce(r)
      PROVE  /\ fresh'[r] = "yes" => fresh[r] = "discovers" /\ ~Waits(r)
             /\ fresh'[r] \in {"no", "yes"}
             /\ \A s \in Routers : s # r => fresh'[s] = fresh[s]
  <2>1. front[r].state = "WaitAck"
    BY <1>3 DEF Announce
  <2>2. fresh[r] # "yes"
    BY <2>1 DEF FreshHold
  <2>3. fresh[r] \in {"no", "discovers"}
    BY <1>1, <2>2
  <2>4. CASE Waits(r)
    <3>1. fresh' = [fresh EXCEPT ![r] = "no"]
      BY <1>3, <2>4, Zenon DEF Announce
    <3> QED
      BY <1>1, <3>1
  <2>5. CASE ~Waits(r)
    <3>1. fresh' = [fresh EXCEPT ![r] = IF @ = "discovers" THEN "yes" ELSE @]
      BY <1>3, <2>5, Zenon DEF Announce
    <3> QED
      BY <1>1, <2>3, <2>5, <3>1
  <2> QED
    BY <2>4, <2>5
<1>4. ASSUME NEW r \in Switchable, Switch(r)
      PROVE  \A s \in Routers : fresh'[s] = "no"
  BY <1>4 DEF Switch
<1> QED
  BY <1>2, <1>3, <1>4

LEMMA FreshNext ==
    RoutingInv /\ RightOn(wire) /\ FreshHold /\ [RoutingNext]_vars => FreshHold'
<1> SUFFICES ASSUME RoutingInv, RightOn(wire), FreshHold, [RoutingNext]_vars
             PROVE  FreshHold'
  OBVIOUS
<1>1. fresh \in [Routers -> {"no", "discovers", "yes"}]
  BY DEF FreshHold
<1>2. ASSUME NEW r \in Routers, Discover(r)
      PROVE  FreshHold'
  <2>1. fresh' \in [Routers -> {"no", "discovers", "yes"}]
    BY <1>1, <1>2 DEF Discover
  <2> QED
    BY <1>2, <2>1, FreshIs, DiscoverIs DEF FreshHold
<1>3. ASSUME NEW r \in Routers, Announce(r)
      PROVE  FreshHold'
  <2>1. fresh' = [fresh EXCEPT ![r] = fresh'[r]]
    <3>1. \/ fresh' = [fresh EXCEPT ![r] = "no"]
          \/ fresh' = [fresh EXCEPT ![r] = IF @ = "discovers" THEN "yes" ELSE @]
      BY <1>3, Zenon DEF Announce
    <3> QED
      BY <1>1, <3>1
  <2>2. fresh' \in [Routers -> {"no", "discovers", "yes"}]
    BY <1>1, <1>3, <2>1, FreshIs
  <2> QED
    BY <1>3, <2>2, FreshIs, AnnounceIs DEF FreshHold
<1>4. ASSUME NEW r \in Switchable, Switch(r)
      PROVE  FreshHold'
  BY <1>4 DEF Switch, FreshHold
<1>5. ASSUME UNCHANGED fresh, \A r \in Routers : front'[r].state = front[r].state
      PROVE  FreshHold'
  BY <1>5 DEF FreshHold
<1>6. ASSUME NEW l \in Links, GetsAck(l[1], l[2]) \/ GetsSequence(l[1], l[2])
      PROVE  FreshHold'
  <2>1. UNCHANGED fresh
    BY <1>6 DEF GetsAck, GetsSequence
  <2>2. \A r \in Routers : front'[r].state = front[r].state
    BY <1>6, GetsAckIs, GetsSequenceIs
  <2> QED
    BY <1>5, <2>1, <2>2
<1>7. ASSUME NEW l \in Links, Dropped(l[1], l[2]) \/ GetsHello(l[1], l[2])
      PROVE  FreshHold'
  BY <1>5, <1>7 DEF Dropped, GetsHello
<1>8. CASE Carries
  <2>1. (\E r \in Switchable : Switch(r)) \/ UNCHANGED <<front, fresh>>
    BY <1>8 DEF Carries, GetsData, RunTask, IpSend, vars
  <2> QED
    BY <1>4, <1>5, <2>1
<1> QED
  BY <1>2, <1>3, <1>6, <1>7, <1>8, StepMoves, Zenon

\* While r waits for answers, each peer that is on has answered, or its answer or
\* the question is on its way; no answer of one that is off is, or will be.
Found(r, s) ==
    IF power[s]
    THEN \/ s \in Range(front[r].portInfo)
         \/ Hello(r) \in Range(wire[<<r, s>>])
         \/ Ack(s) \in Range(wire[<<s, r>>])
    ELSE s \notin Range(front[r].portInfo) /\ Ack(s) \notin Range(wire[<<s, r>>])

FoundHold ==
    \A r \in Alive : fresh[r] = "discovers" => \A s \in Range(Peers[r]) : Found(r, s)

LEMMA PeerIs ==
    ASSUME NEW r \in Routers, NEW s \in Range(Peers[r])
    PROVE  /\ s \in Routers /\ s # r /\ r \in Range(Peers[s])
           /\ <<r, s>> \in Links /\ <<s, r>> \in Links
<1>1. Peers[r] \in Seq(Routers \ {r}) /\ r \in Range(Peers[s])
  BY RoutingAssumption
<1>2. s \in Routers \ {r}
  BY <1>1 DEF Range
<1> QED
  BY <1>1, <1>2 DEF Links

LEMMA GreetingIs ==
    ASSUME NEW G, NEW l, NEW p \in Genuine(G), Right(l, p)
    PROVE  /\ p.type = "Hello" => p = Hello(l[1])
           /\ p.type = "Ack" => p = Ack(l[1])
<1>1. ASSUME p.type \in {"Hello", "Ack"}
      PROVE  p = [type |-> p.type, src |-> l[1], ttl |-> TTL]
  <2>1. p \in Plain
    BY <1>1 DEF Genuine, Datas, Sequences
  <2> QED
    BY <1>1, <2>1 DEF Plain, Right
<1> QED
  BY <1>1 DEF Hello, Ack

LEMMA FoundNext ==
    ASSUME RoutingInv, RightOn(wire), FreshHold, InfosHold, FoundHold, [RoutingNext]_vars
    PROVE  FoundHold'
<1>1. /\ \A r : /\ Hello(r).type = "Hello" /\ Hello(r).ttl = TTL /\ Hello(r).src = r
                /\ Ack(r).type = "Ack" /\ Ack(r).ttl = TTL /\ Ack(r).src = r
      /\ TTL # 1
  BY BackendAssumption DEF Hello, Ack
<1>2. ASSUME UNCHANGED power, NEW r \in Alive, fresh'[r] = "discovers", fresh[r] = "discovers",
             NEW s \in Range(Peers[r]),
             \A t \in Routers : t \in Range(front'[r].portInfo) <=> t \in Range(front[r].portInfo),
             power[s] => Hello(r) \in Range(wire'[<<r, s>>]) \/ Hello(r) \notin Range(wire[<<r, s>>]),
             Ack(s) \in Range(wire'[<<s, r>>]) <=> Ack(s) \in Range(wire[<<s, r>>])
      PROVE  Found(r, s)'
  <2>1. s \in Routers
    BY PeerIs DEF Alive
  <2>2. Found(r, s)
    BY <1>2 DEF FoundHold
  <2> QED
    BY <1>2, <2>1, <2>2 DEF Found
<1>3. ASSUME UNCHANGED power,
             \A r \in Alive : fresh'[r] = "discovers" => \A s \in Range(Peers[r]) : Found(r, s)'
      PROVE  FoundHold'
  <2>1. Alive' = Alive
    BY <1>3 DEF Alive
  <2> QED
    BY <1>3, <2>1 DEF FoundHold
<1>4. ASSUME NEW q \in Routers, Discover(q)
      PROVE  FoundHold'
  <2>1. UNCHANGED power
    BY <1>4 DEF Discover
  <2>2. Sends(wire, wire', q, Range(Peers[q]), Hello(q))
    BY <1>4, DiscoverIs
  <2>3. ASSUME NEW r \in Alive, fresh'[r] = "discovers", NEW s \in Range(Peers[r])
        PROVE  Found(r, s)'
    <3>1. r \in Routers /\ power[r]
      BY DEF Alive
    <3>2. <<r, s>> \in Links /\ <<s, r>> \in Links /\ s # r /\ s \in Routers
      BY <3>1, PeerIs
    <3>3. Ack(s) \in Range(wire'[<<s, r>>]) <=> Ack(s) \in Range(wire[<<s, r>>])
      BY <1>1, <2>2, <3>2 DEF Sends
    <3>4. CASE r = q
      <4>1. Hello(r) \in Range(wire'[<<r, s>>])
        BY <2>2, <3>1, <3>2, <3>4 DEF Sends
      <4>2. s \notin Range(front'[r].portInfo)
        <5>1. front'[r].portInfo = <<>>
          BY <1>4, <3>4, DiscoverIs
        <5> QED
          BY <5>1 DEF Range
      <4>3. Ack(s) \notin Range(wire[<<s, r>>])
        BY <1>1, <1>4, <3>4 DEF Discover, Waits
      <4> QED
        BY <2>1, <3>3, <4>1, <4>2, <4>3 DEF Found
    <3>5. CASE r # q
      <4>1. fresh[r] = "discovers" /\ front'[r] = front[r]
        BY <1>4, <2>3, <3>1, <3>5, FreshIs, DiscoverIs
      <4>2. Hello(r) \in Range(wire'[<<r, s>>]) \/ Hello(r) \notin Range(wire[<<r, s>>])
        BY <2>2, <3>2 DEF Sends
      <4> QED
        BY <1>2, <2>1, <2>3, <3>3, <4>1, <4>2
    <3> QED
      BY <3>4, <3>5
  <2> QED
    BY <1>3, <2>1, <2>3
<1>5. ASSUME NEW q \in Routers, Announce(q)
      PROVE  FoundHold'
  <2> DEFINE p == Sequence(q, front[q].sequence + 1, front[q].portInfo)
  <2>1. UNCHANGED power
    BY <1>5 DEF Announce
  <2>2. Sends(wire, wire', q, Range(Peers[q]), p) /\ p.type = "Sequence"
    BY <1>5, AnnounceIs DEF Sequence
  <2> HIDE DEF p
  <2>3. ASSUME NEW r \in Alive, fresh'[r] = "discovers", NEW s \in Range(Peers[r])
        PROVE  Found(r, s)'
    <3>1. r \in Routers
      BY DEF Alive
    <3>2. <<r, s>> \in Links /\ <<s, r>> \in Links
      BY <3>1, PeerIs
    <3>3. /\ Ack(s) \in Range(wire'[<<s, r>>]) <=> Ack(s) \in Range(wire[<<s, r>>])
          /\ Hello(r) \in Range(wire'[<<r, s>>]) <=> Hello(r) \in Range(wire[<<r, s>>])
      BY <1>1, <2>2, <3>2 DEF Sends
    <3>4. r # q
      BY <1>5, <2>3, FreshIs
    <3>5. fresh[r] = "discovers" /\ front'[r] = front[r]
      BY <1>5, <2>3, <3>1, <3>4, FreshIs, AnnounceIs
    <3> QED
      BY <1>2, <2>1, <2>3, <3>3, <3>5
  <2> QED
    BY <1>3, <2>1, <2>3
<1>6. ASSUME NEW l \in Links, Dropped(l[1], l[2])
      PROVE  FoundHold'
  <2>1. UNCHANGED <<power, front, fresh>>
    BY <1>6 DEF Dropped
  <2>2. /\ Loses(wire, wire', l) /\ Right(l, Head(wire[l]))
        /\ power[l[2]] => Head(wire[l]).ttl = 1
    BY <1>6, DroppedIs
  <2>3. ASSUME NEW r \in Alive, fresh'[r] = "discovers", NEW s \in Range(Peers[r])
        PROVE  Found(r, s)'
    <3>1. r \in Routers /\ power[r]
      BY DEF Alive
    <3>2. <<r, s>> \in Links /\ <<s, r>> \in Links
      BY <3>1, PeerIs
    <3>3. Ack(s) \in Range(wire'[<<s, r>>]) <=> Ack(s) \in Range(wire[<<s, r>>])
      BY <1>1, <2>2, <3>1, <3>2 DEF Loses
    <3>4. power[s] => Hello(r) \in Range(wire'[<<r, s>>]) \/ Hello(r) \notin Range(wire[<<r, s>>])
      BY <1>1, <2>2, <3>1, <3>2 DEF Loses
    <3> QED
      BY <1>2, <2>1, <2>3, <3>3, <3>4
  <2> QED
    BY <1>3, <2>1, <2>3
<1>7. ASSUME NEW l \in Links, GetsHello(l[1], l[2])
      PROVE  FoundHold'
  <2>1. UNCHANGED <<power, front, fresh>>
    BY <1>7 DEF GetsHello
  <2>2. power[l[2]] /\ Head(wire[l]).type = "Hello" /\ Head(wire[l]).src = l[1]
    BY <1>7, GetsHelloIs
  <2>3. PICK w : Loses(wire, w, l) /\ Sends(w, wire', l[2], {l[1]}, Ack(l[2]))
    BY <1>7, GetsHelloIs
  <2>4. ASSUME NEW r \in Alive, fresh'[r] = "discovers", NEW s \in Range(Peers[r])
        PROVE  Found(r, s)'
    <3>1. r \in Routers /\ power[r]
      BY DEF Alive
    <3>2. <<r, s>> \in Links /\ <<s, r>> \in Links
      BY <3>1, PeerIs
    <3>3. ASSUME r = l[1], s = l[2]
          PROVE  Found(r, s)'
      <4>1. Ack(s) \in Range(wire'[<<s, r>>])
        BY <2>2, <2>3, <3>2, <3>3 DEF Sends
      <4> QED
        BY <2>1, <2>2, <3>3, <4>1 DEF Found
    <3>4. ASSUME ~(r = l[1] /\ s = l[2])
          PROVE  Found(r, s)'
      <4>1. Hello(r) \in Range(wire'[<<r, s>>]) <=> Hello(r) \in Range(wire[<<r, s>>])
        <5>1. <<r, s>> # l /\ Hello(r) # Ack(l[2])
          BY <1>1, <3>4
        <5>2. Hello(r) \in Range(w[<<r, s>>]) <=> Hello(r) \in Range(wire[<<r, s>>])
          BY <2>3, <3>2, <5>1 DEF Loses
        <5>3. Hello(r) \in Range(wire'[<<r, s>>]) <=> Hello(r) \in Range(w[<<r, s>>])
          BY <2>3, <3>2, <5>1 DEF Sends
        <5> QED
          BY <5>2, <5>3
      <4>2. Ack(s) \in Range(wire'[<<s, r>>]) <=> Ack(s) \in Range(wire[<<s, r>>])
        <5>1. Ack(s) # Head(wire[l])
          BY <1>1, <2>2
        <5>2. Ack(s) \in Range(w[<<s, r>>]) <=> Ack(s) \in Range(wire[<<s, r>>])
          BY <2>3, <3>2, <5>1 DEF Loses
        <5>3. ~(<<s, r>>[1] = l[2] /\ <<s, r>>[2] \in {l[1]})
          BY <3>4
        <5>4. Ack(s) \in Range(wire'[<<s, r>>]) <=> Ack(s) \in Range(w[<<s, r>>])
          BY <2>3, <3>2, <5>3 DEF Sends
        <5> QED
          BY <5>2, <5>4
      <4> QED
        BY <1>2, <2>1, <2>4, <4>1, <4>2
    <3> QED
      BY <3>3, <3>4
  <2> QED
    BY <1>3, <2>1, <2>4
<1>8. ASSUME NEW l \in Links, GetsAck(l[1], l[2])
      PROVE  FoundHold'
  <2> DEFINE b == l[2]
             a == l[1]
             info == Noted(front[b].portInfo, PortOf(b, a), a)
  <2>1. UNCHANGED <<power, fresh>> /\ power[b]
    BY <1>8 DEF GetsAck, Arrives
  <2>2. /\ Head(wire[l]).type = "Ack" /\ Head(wire[l]).src = a
        /\ \A s \in Routers : s # b => front'[s] = front[s]
        /\ front[b].state = "WaitAck" => front'[b].portInfo = info
    BY <1>8, GetsAckIs
  <2>3. Loses(wire, wire', l)
    BY <1>8, GetsAckIs, TakenLoses
  <2>4. a \in Routers /\ b \in Routers /\ a \in Range(Peers[b]) /\ l = <<a, b>>
    BY LinkIs, RoutingAssumption DEF Links
  <2>5. front[b].portInfo \in Infos(b)
    BY <2>4 DEF InfosHold
  <2>6. /\ a \in Range(info)
        /\ \A t \in Routers : t \in Range(info) <=> t = a \/ t \in Range(front[b].portInfo)
    BY <2>4, <2>5, NotedInfo
  <2> HIDE DEF info
  <2>7. Head(wire[l]) = Ack(a) /\ Ack(a) \in Range(wire[l])
    <3>1. wire[l] # <<>>
      BY <1>8, GetsAckIs
    <3>2. Head(wire[l]) \in Genuine(announced) /\ Right(l, Head(wire[l]))
      BY <3>1, Delivers, TakenRight
    <3>3. Head(wire[l]) \in Range(wire[l])
      BY <3>1, TakenMembers DEF RoutingInv, WiresHold
    <3> QED
      BY <2>2, <3>2, <3>3, GreetingIs
  <2>8. ASSUME NEW r \in Alive, fresh'[r] = "discovers", NEW s \in Range(Peers[r])
        PROVE  Found(r, s)'
    <3>1. r \in Routers /\ power[r] /\ fresh[r] = "discovers"
      BY <2>1, <2>8 DEF Alive
    <3>2. <<r, s>> \in Links /\ <<s, r>> \in Links /\ s \in Routers
      BY <3>1, PeerIs
    <3>3. front[r].state = "WaitAck"
      BY <3>1 DEF FreshHold
    <3>4. Hello(r) \in Range(wire'[<<r, s>>]) <=> Hello(r) \in Range(wire[<<r, s>>])
      BY <1>1, <2>2, <2>3, <3>2 DEF Loses
    <3>5. CASE r = b /\ s = a
      <4>1. s \in Range(front'[r].portInfo)
        BY <2>2, <2>6, <3>3, <3>5
      <4>2. power[s]
        <5>1. Found(r, s)
          BY <2>8, <3>1 DEF FoundHold
        <5>2. Ack(s) \in Range(wire[<<s, r>>])
          BY <2>4, <2>7, <3>5
        <5> QED
          BY <5>1, <5>2 DEF Found
      <4> QED
        BY <2>1, <4>1, <4>2 DEF Found
    <3>6. CASE ~(r = b /\ s = a)
      <4>1. Ack(s) \in Range(wire'[<<s, r>>]) <=> Ack(s) \in Range(wire[<<s, r>>])
        BY <2>3, <2>4, <3>2, <3>6 DEF Loses
      <4>2. s \in Range(front'[r].portInfo) <=> s \in Range(front[r].portInfo)
        BY <2>2, <2>6, <3>1, <3>2, <3>3, <3>6
      <4>3. Found(r, s)
        BY <2>8, <3>1 DEF FoundHold
      <4> QED
        BY <2>1, <3>4, <4>1, <4>2, <4>3 DEF Found
    <3> QED
      BY <3>5, <3>6
  <2> QED
    BY <1>3, <2>1, <2>8
<1>9. ASSUME UNCHANGED <<power, fresh>>,
             \A r \in Routers : front'[r].portInfo = front[r].portInfo,
             \A l \in Links : \A p : p.type \in {"Hello", "Ack"} =>
                (p \in Range(wire'[l]) <=> p \in Range(wire[l]))
      PROVE  FoundHold'
  <2>1. ASSUME NEW r \in Alive, fresh'[r] = "discovers", NEW s \in Range(Peers[r])
        PROVE  Found(r, s)'
    <3>1. r \in Routers
      BY DEF Alive
    <3>2. <<r, s>> \in Links /\ <<s, r>> \in Links
      BY <3>1, PeerIs
    <3>3. /\ Ack(s) \in Range(wire'[<<s, r>>]) <=> Ack(s) \in Range(wire[<<s, r>>])
          /\ Hello(r) \in Range(wire'[<<r, s>>]) <=> Hello(r) \in Range(wire[<<r, s>>])
      BY <1>1, <1>9, <3>2
    <3> QED
      BY <1>2, <1>9, <2>1, <3>1, <3>3
  <2> QED
    BY <1>3, <1>9, <2>1
<1>10. ASSUME NEW l \in Links, GetsSequence(l[1], l[2])
       PROVE  FoundHold'
  <2> DEFINE w == [wire EXCEPT ![l] = Tail(@)]
             p == Passed(Head(wire[l]))
  <2>1. UNCHANGED <<power, fresh>>
    BY <1>10 DEF GetsSequence
  <2>2. /\ wire[l] # <<>> /\ Head(wire[l]).type = "Sequence"
        /\ wire' = w \/ Sends(w, wire', l[2], Range(Peers[l[2]]), p)
        /\ \A r \in Routers : front'[r].portInfo = front[r].portInfo
    BY <1>10, GetsSequenceIs
  <2>3. Loses(wire, w, l) /\ Head(wire[l]) \in Genuine(announced)
    BY <2>2, TakenLoses, Delivers
  <2>4. p.type = "Sequence"
    BY <2>2, <2>3, PassedIs
  <2> HIDE DEF w, p
  <2>5. \A m \in Links : \A q : q.type \in {"Hello", "Ack"} =>
            (q \in Range(wire'[m]) <=> q \in Range(wire[m]))
    <3> SUFFICES ASSUME NEW m \in Links, NEW q, q.type \in {"Hello", "Ack"}
                 PROVE  q \in Range(wire'[m]) <=> q \in Range(wire[m])
      OBVIOUS
    <3>1. q # Head(wire[l]) /\ q # p
      BY <2>2, <2>4
    <3>2. q \in Range(w[m]) <=> q \in Range(wire[m])
      BY <2>3, <3>1 DEF Loses
    <3>3. CASE wire' = w
      BY <3>2, <3>3
    <3>4. CASE Sends(w, wire', l[2], Range(Peers[l[2]]), p)
      <4>1. q \in Range(wire'[m]) <=> q \in Range(w[m])
        BY <3>1, <3>4 DEF Sends
      <4> QED
        BY <3>2, <4>1
    <3> QED
      BY <2>2, <3>3, <3>4

  <2> QED
    BY <1>9, <2>1, <2>2, <2>5
<1>11. CASE Carries
  <2>1. CASE \E r \in Switchable : Switch(r)
    <3>1. \A s \in Routers : fresh'[s] = "no"
      BY <2>1, FreshIs
    <3>2. Alive' \subseteq Routers
      BY DEF Alive
    <3> QED
      BY <3>1, <3>2 DEF FoundHold
  <2>2. CASE UNCHANGED <<front, fresh, power>>
    BY <1>9, <1>11, <2>2, CarriesIs
  <2> QED
    BY <1>11, <2>1, <2>2 DEF Carries, GetsData, RunTask, IpSend, vars
<1> QED
  BY <1>4, <1>5, <1>6, <1>7, <1>8, <1>10, <1>11, StepMoves, Zenon

\* What r announced last, since power was switched, are its peers that are on.
Newest(r) == announced[r][Len(announced[r])]

ToldHold ==
    \A r \in Alive : fresh[r] = "yes" =>
        /\ announced[r] # <<>>
        /\ \A s \in Range(Peers[r]) : power[s] <=> s \in Range(Newest(r))

LEMMA ToldNext ==
    ASSUME RoutingInv, RightOn(wire), FreshHold, FoundHold, ToldHold, [RoutingNext]_vars
    PROVE  ToldHold'
<1>1. ASSUME NEW r \in Routers, Announce(r)
      PROVE  ToldHold'
  <2> DEFINE n == front[r].sequence + 1
  <2>1. UNCHANGED power
    BY <1>1 DEF Announce
  <2>2. /\ n = Len(announced'[r]) /\ announced'[r][n] = front[r].portInfo
        /\ announced'[r] # <<>>
        /\ \A s \in Routers : s # r => announced'[s] = announced[s]
    BY <1>1, AnnounceIs
  <2> HIDE DEF n
  <2>3. ASSUME r \in Alive, fresh'[r] = "yes", NEW s \in Range(Peers[r])
        PROVE  power[s] <=> s \in Range(front[r].portInfo)
    <3>1. fresh[r] = "discovers" /\ ~Waits(r)
      BY <1>1, <2>3, FreshIs
    <3>2. Found(r, s)
      BY <2>3, <3>1 DEF FoundHold
    <3>3. <<r, s>> \in Links
      BY PeerIs
    <3>4. /\ Hello(r).src = r /\ Hello(r).type = "Hello" /\ Ack(s).type = "Ack"
      BY DEF Hello, Ack
    <3>5. Hello(r) \notin Range(wire[<<r, s>>])
      BY <3>1, <3>3, <3>4 DEF Waits, OnTheWay
    <3>6. Ack(s) \notin Range(wire[<<s, r>>])
      BY <3>1, <3>4, <2>3 DEF Waits
    <3> QED
      BY <3>2, <3>5, <3>6 DEF Found
  <2>4. ASSUME NEW t \in Alive', fresh'[t] = "yes"
        PROVE  /\ announced'[t] # <<>>
               /\ \A s \in Range(Peers[t]) : power'[s] <=> s \in Range(Newest(t)')
    <3>1. t \in Alive /\ t \in Routers
      BY <2>1 DEF Alive
    <3>2. CASE t = r
      <4>1. Newest(t)' = front[r].portInfo
        BY <2>2, <3>2 DEF Newest
      <4> QED
        BY <2>1, <2>2, <2>3, <2>4, <3>1, <3>2, <4>1
    <3>3. CASE t # r
      <4>1. fresh[t] = "yes" /\ announced'[t] = announced[t]
        BY <1>1, <2>2, <2>4, <3>1, <3>3, FreshIs
      <4> QED
        BY <2>1, <3>1, <4>1 DEF ToldHold, Newest
    <3> QED
      BY <3>2, <3>3
  <2> QED
    BY <2>4 DEF ToldHold
<1>2. ASSUME UNCHANGED <<power, announced>>,
             \A r \in Routers : fresh'[r] = "yes" => fresh[r] = "yes"
      PROVE  ToldHold'
  BY <1>2 DEF ToldHold, Alive, Newest
<1>3. ASSUME NEW r \in Routers, Discover(r)
      PROVE  ToldHold'
  <2>1. \A s \in Routers : fresh'[s] = "yes" => fresh[s] = "yes"
    BY <1>3, FreshIs
  <2> QED
    BY <1>2, <1>3, <2>1 DEF Discover
<1>4. ASSUME NEW r \in Switchable, Switch(r)
      PROVE  ToldHold'
  <2>1. Alive' \subseteq Routers
    BY DEF Alive
  <2> QED
    BY <1>4, <2>1, FreshIs DEF ToldHold
<1>5. CASE UNCHANGED <<power, announced, fresh>>
  BY <1>2, <1>5
<1>6. \/ \E r \in Routers : Announce(r) \/ Discover(r)
      \/ \E r \in Switchable : Switch(r)
      \/ UNCHANGED <<power, announced, fresh>>
  BY DEF RoutingNext, System, Arrive, RunTask, Dropped, GetsHello, GetsAck, GetsSequence,
         GetsData, IpSend, vars
<1> QED
  BY <1>1, <1>3, <1>4, <1>5, <1>6

\* Each live router that heard announcement n of s has passed it to its live
\* peers, or a copy is on the way to them.
Copy(p, s, n) == p.type = "Sequence" /\ p.src = s /\ p.sequence = n

Spread(s, n) ==
    \A u \in Alive \cap Heard(front, s, n) : \A v \in Alive \cap Range(Peers[u]) :
        \/ v \in Heard(front, s, n)
        \/ \E p \in Range(wire[<<u, v>>]) : Copy(p, s, n)

FloodHold == \A s \in Alive : fresh[s] = "yes" => Spread(s, Len(announced[s]))

LEMMA FloodNext ==
    ASSUME IsFiniteSet(Routers), Cardinality(Routers) <= TTL,
           RoutingInv, RightOn(wire), FarHold, FreshHold, FloodHold, [RoutingNext]_vars
    PROVE  FloodHold'
<1>1. /\ front \in [Routers -> Fronts] /\ announced \in [Routers -> Seq(Entries)]
      /\ \A s, t \in Routers : /\ front[s].sequenceInfo[t] <= Len(announced[t])
                               /\ front[s].sequenceInfo[t] \in Nat
      /\ \A s \in Routers : Len(announced[s]) \in Nat
  BY DEF RoutingInv, FrontsHold, Fronts
<1>2. ASSUME UNCHANGED power, NEW s \in Alive, fresh[s] = "yes", announced'[s] = announced[s],
             \A x \in Routers : front'[x].sequenceInfo[s] = front[x].sequenceInfo[s],
             \A l \in Links : \A p \in Range(wire[l]) : Copy(p, s, Len(announced[s])) =>
                \/ p \in Range(wire'[l])
                \/ power[l[2]] => l[2] \in Heard(front, s, Len(announced[s]))
      PROVE  Spread(s, Len(announced[s]))'
  <2> DEFINE n == Len(announced[s])
  <2>1. Spread(s, n)
    BY <1>2 DEF FloodHold
  <2>2. Heard(front', s, n) = Heard(front, s, n) /\ Alive' = Alive
    BY <1>2 DEF Heard, Alive
  <2> HIDE DEF n
  <2>3. ASSUME NEW u \in Alive \cap Heard(front, s, n), NEW v \in Alive \cap Range(Peers[u])
        PROVE  \/ v \in Heard(front, s, n)
               \/ \E p \in Range(wire'[<<u, v>>]) : Copy(p, s, n)
    <3>1. <<u, v>> \in Links /\ power[v]
      BY PeerIs DEF Alive
    <3>2. CASE v \in Heard(front, s, n)
      BY <3>2
    <3>3. CASE \E p \in Range(wire[<<u, v>>]) : Copy(p, s, n)
      <4>1. PICK p \in Range(wire[<<u, v>>]) : Copy(p, s, n)
        BY <3>3
      <4>2. p \in Range(wire'[<<u, v>>]) \/ v \in Heard(front, s, n)
        BY <1>2, <3>1, <4>1 DEF n
      <4> QED
        BY <4>1, <4>2
    <3> QED
      BY <2>1, <3>2, <3>3 DEF Spread
  <2>4. Len(announced'[s]) = n
    BY <1>2 DEF n
  <2> QED
    BY <2>2, <2>3, <2>4 DEF Spread
<1>3. ASSUME UNCHANGED <<power, announced>>,
             \A s \in Routers : fresh'[s] = "yes" => fresh[s] = "yes",
             \A s \in Routers : front'[s].sequenceInfo = front[s].sequenceInfo,
             \A s \in Alive : \A l \in Links : \A p \in Range(wire[l]) :
                Copy(p, s, Len(announced[s])) =>
                \/ p \in Range(wire'[l])
                \/ power[l[2]] => l[2] \in Heard(front, s, Len(announced[s]))
      PROVE  FloodHold'
  <2>1. ASSUME NEW s \in Alive', fresh'[s] = "yes"
        PROVE  Spread(s, Len(announced[s]))'
    <3>1. s \in Alive /\ s \in Routers
      BY <1>3 DEF Alive
    <3>2. fresh[s] = "yes" /\ announced'[s] = announced[s]
      BY <1>3, <2>1, <3>1
    <3> QED
      BY <1>2, <1>3, <3>1, <3>2
  <2> QED
    BY <2>1 DEF FloodHold
<1>4. ASSUME NEW r \in Routers, Discover(r)
      PROVE  FloodHold'
  <2>1. UNCHANGED <<power, announced>>
    BY <1>4 DEF Discover
  <2>2. Sends(wire, wire', r, Range(Peers[r]), Hello(r))
    BY <1>4, DiscoverIs
  <2>3. \A s \in Routers : /\ fresh'[s] = "yes" => fresh[s] = "yes"
                           /\ front'[s].sequenceInfo = front[s].sequenceInfo
    BY <1>4, FreshIs, DiscoverIs
  <2> QED
    BY <1>3, <2>1, <2>2, <2>3 DEF Sends
<1>5. ASSUME NEW r \in Routers, Announce(r)
      PROVE  FloodHold'
  <2> DEFINE n == front[r].sequence + 1
             p == Sequence(r, n, front[r].portInfo)
  <2>1. UNCHANGED power
    BY <1>5 DEF Announce
  <2>2. /\ n = Len(announced'[r])
        /\ \A s \in Routers : s # r => announced'[s] = announced[s]
        /\ \A s \in Routers : front'[s].sequenceInfo = front[s].sequenceInfo
        /\ Sends(wire, wire', r, Range(Peers[r]), p)
    BY <1>5, AnnounceIs
  <2>3. n = Len(announced[r]) + 1
    BY DEF RoutingInv, FrontsHold
  <2>4. Copy(p, r, n)
    BY DEF Copy, Sequence
  <2> HIDE DEF n, p
  <2>5. Alive' = Alive
    BY <2>1 DEF Alive
  <2>6. ASSUME NEW s \in Alive', fresh'[s] = "yes"
        PROVE  Spread(s, Len(announced[s]))'
    <3>1. s \in Alive /\ s \in Routers /\ power[s]
      BY <2>5 DEF Alive
    <3>2. CASE s = r
      <4>1. Heard(front', r, n) = {r}
        <5>1. \A x \in Routers : ~(front'[x].sequenceInfo[r] >= n)
          BY <1>1, <2>2, <2>3
        <5> QED
          BY <5>1 DEF Heard
      <4>2. ASSUME NEW v \in Range(Peers[r])
            PROVE  p \in Range(wire'[<<r, v>>])
        BY <2>2, <3>1, <3>2, PeerIs DEF Sends
      <4> QED
        BY <2>2, <2>4, <3>2, <4>1, <4>2 DEF Spread
    <3>3. CASE s # r
      <4>1. fresh[s] = "yes" /\ announced'[s] = announced[s]
        BY <1>5, <2>2, <2>6, <3>1, <3>3, FreshIs
      <4>2. \A x \in Routers : front'[x].sequenceInfo[s] = front[x].sequenceInfo[s]
        BY <2>2
      <4>3. \A l \in Links : \A q \in Range(wire[l]) : q \in Range(wire'[l])
        BY <2>2 DEF Sends
      <4> QED
        BY <1>2, <2>1, <3>1, <4>1, <4>2, <4>3
    <3> QED
      BY <3>2, <3>3
  <2> QED
    BY <2>6 DEF FloodHold
<1>6. ASSUME NEW l \in Links, Dropped(l[1], l[2])
      PROVE  FloodHold'
  <2> DEFINE h == Head(wire[l])
  <2>1. UNCHANGED <<power, announced, fresh, front>>
    BY <1>6 DEF Dropped
  <2>2. /\ Loses(wire, wire', l) /\ (power[l[2]] => h.ttl = 1) /\ h \in Range(wire[l])
    BY <1>6, DroppedIs
  <2>3. ASSUME power[l[2]], h.type = "Sequence"
        PROVE  l[2] \in Heard(front, h.src, h.sequence)
    <3>1. Far(front, h)
      BY <2>2, <2>3 DEF FarHold
    <3>2. Heard(front, h.src, h.sequence) = Routers
      BY <2>2, <2>3, <3>1, FarEnough
    <3> QED
      BY <3>2, LinkIs
  <2> HIDE DEF h
  <2>4. ASSUME NEW s \in Alive, NEW m \in Links, NEW p \in Range(wire[m]),
               Copy(p, s, Len(announced[s]))
        PROVE  \/ p \in Range(wire'[m])
               \/ power[m[2]] => m[2] \in Heard(front, s, Len(announced[s]))
    <3>1. p \in Range(wire'[m]) \/ (m = l /\ p = h)
      BY <2>2 DEF Loses, h
    <3> QED
      BY <2>3, <2>4, <3>1 DEF Copy
  <2> QED
    BY <1>3, <2>1, <2>4
<1>7. ASSUME UNCHANGED <<power, announced, fresh, front>>,
             \A l \in Links : \A p : p.type = "Sequence" /\ p \in Range(wire[l]) => p \in Range(wire'[l])
      PROVE  FloodHold'
  BY <1>3, <1>7 DEF Copy
<1>8. ASSUME NEW l \in Links, GetsHello(l[1], l[2])
      PROVE  FloodHold'
  <2>1. UNCHANGED <<power, announced, fresh, front>>
    BY <1>8 DEF GetsHello
  <2>2. Head(wire[l]).type = "Hello"
    BY <1>8, GetsHelloIs
  <2>3. PICK w : Loses(wire, w, l) /\ Sends(w, wire', l[2], {l[1]}, Ack(l[2]))
    BY <1>8, GetsHelloIs
  <2>4. \A m \in Links : \A p : p.type = "Sequence" /\ p \in Range(wire[m]) => p \in Range(w[m])
    BY <2>2, <2>3 DEF Loses
  <2>5. \A m \in Links : \A p : p \in Range(w[m]) => p \in Range(wire'[m])
    BY <2>3 DEF Sends
  <2> QED
    BY <1>7, <2>1, <2>4, <2>5
<1>9. ASSUME NEW l \in Links, GetsAck(l[1], l[2])
      PROVE  FloodHold'
  <2>1. UNCHANGED <<power, announced, fresh>>
    BY <1>9 DEF GetsAck
  <2>2. /\ Head(wire[l]).type = "Ack" /\ wire[l] # <<>>
        /\ wire' = [wire EXCEPT ![l] = Tail(@)]
        /\ \A s \in Routers : front'[s].sequenceInfo = front[s].sequenceInfo
    BY <1>9, GetsAckIs
  <2>3. Loses(wire, wire', l)
    BY <2>2, TakenLoses
  <2>4. \A m \in Links : \A p : p.type = "Sequence" /\ p \in Range(wire[m]) => p \in Range(wire'[m])
    BY <2>2, <2>3 DEF Loses
  <2> QED
    BY <1>3, <2>1, <2>2, <2>4 DEF Copy
<1>10. ASSUME NEW l \in Links, GetsSequence(l[1], l[2])
       PROVE  FloodHold'
  <2> DEFINE r == l[2]
             h == Head(wire[l])
             p == Passed(h)
             w == [wire EXCEPT ![l] = Tail(@)]
  <2>1. UNCHANGED <<power, announced, fresh>> /\ Alive' = Alive
    BY <1>10 DEF GetsSequence, Alive
  <2>2. wire[l] # <<>> /\ h.type = "Sequence" /\ power[r] /\ r \in Routers
    BY <1>10, GetsSequenceIs, LinkIs
  <2>3. Loses(wire, w, l)
    BY <2>2, TakenLoses
  <2>4. /\ p.src = h.src /\ p.sequence = h.sequence /\ p.type = "Sequence"
        /\ p.src \in Routers /\ p.sequence \in 1..Len(announced[p.src])
    BY <2>2, Delivers, PassedIs
  <2>5. CASE /\ p.src = r \/ front[r].sequenceInfo[p.src] >= p.sequence
             /\ UNCHANGED front /\ wire' = w
    <3>1. r \in Heard(front, h.src, h.sequence)
      BY <2>2, <2>4, <2>5 DEF Heard
    <3> HIDE DEF p, w, h
    <3>2. ASSUME NEW s \in Alive, NEW m \in Links, NEW q \in Range(wire[m]),
                 Copy(q, s, Len(announced[s]))
          PROVE  \/ q \in Range(wire'[m])
                 \/ power[m[2]] => m[2] \in Heard(front, s, Len(announced[s]))
      <4>1. q \in Range(wire'[m]) \/ (m = l /\ q = h)
        BY <2>3, <2>5 DEF Loses, h
      <4> QED
        BY <3>1, <3>2, <4>1 DEF Copy
    <3> QED
      BY <1>3, <2>1, <2>5, <3>2
  <2>6. CASE /\ p.src # r /\ front[r].sequenceInfo[p.src] < p.sequence
             /\ Sends(w, wire', r, Range(Peers[r]), p)
             /\ \A s, t \in Routers :
                    front'[s].sequenceInfo[t] =
                        IF s = r /\ t = p.src THEN p.sequence ELSE front[s].sequenceInfo[t]
    <3> HIDE DEF p, w, h, r
    <3>1. ASSUME NEW m \in Links, NEW q \in Range(wire[m])
          PROVE  q \in Range(wire'[m]) \/ (m = l /\ q = h)
      BY <2>3, <2>6 DEF Loses, Sends, h
    <3>2. ASSUME NEW s \in Alive', fresh'[s] = "yes"
          PROVE  Spread(s, Len(announced[s]))'
      <4> DEFINE n == Len(announced[s])
      <4>1. s \in Alive /\ s \in Routers /\ fresh[s] = "yes" /\ announced'[s] = announced[s]
        BY <2>1, <3>2 DEF Alive
      <4>2. Spread(s, n)
        BY <4>1 DEF FloodHold
      <4>3. n \in Nat
        BY <1>1, <4>1
      <4> HIDE DEF n
      <4>4. CASE s = p.src /\ n = p.sequence
        <5>1. Heard(front', s, n) = Heard(front, s, n) \cup {r}
          <6>1. front'[r].sequenceInfo[s] >= n
            BY <2>2, <2>4, <2>6, <4>3, <4>4
          <6>2. \A x \in Routers : x # r => front'[x].sequenceInfo[s] = front[x].sequenceInfo[s]
            BY <2>6, <4>1
          <6> QED
            BY <2>2, <6>1, <6>2 DEF Heard
        <5>2. ASSUME NEW v \in Range(Peers[r])
              PROVE  p \in Range(wire'[<<r, v>>])
          BY <2>2, <2>6, PeerIs DEF Sends
        <5>3. Copy(p, s, n)
          BY <2>4, <4>4 DEF Copy
        <5>4. ASSUME NEW u \in Alive \cap Heard(front', s, n), NEW v \in Alive \cap Range(Peers[u])
              PROVE  \/ v \in Heard(front', s, n)
                     \/ \E q \in Range(wire'[<<u, v>>]) : Copy(q, s, n)
          <6>1. CASE u = r
            BY <5>2, <5>3, <6>1
          <6>2. CASE u # r
            <7>1. u \in Alive \cap Heard(front, s, n)
              BY <5>1, <6>2
            <7>2. CASE v \in Heard(front, s, n)
              BY <5>1, <7>2
            <7>3. CASE \E q \in Range(wire[<<u, v>>]) : Copy(q, s, n)
              <8>1. PICK q \in Range(wire[<<u, v>>]) : Copy(q, s, n)
                BY <7>3
              <8>2. <<u, v>> \in Links
                BY PeerIs DEF Alive
              <8>3. q \in Range(wire'[<<u, v>>]) \/ <<u, v>> = l
                BY <3>1, <8>2
              <8>4. <<u, v>> = l => v = r
                BY DEF r
              <8> QED
                BY <5>1, <8>1, <8>3, <8>4
            <7> QED
              BY <4>2, <7>1, <7>2, <7>3 DEF Spread
          <6> QED
            BY <6>1, <6>2
        <5>5. Len(announced'[s]) = n
          BY <4>1 DEF n
        <5> QED
          BY <2>1, <5>4, <5>5 DEF Spread
      <4>5. CASE ~(s = p.src /\ n = p.sequence)
        <5>1. Heard(front', s, n) = Heard(front, s, n)
          <6>1. CASE s # p.src
            BY <2>6, <4>1, <6>1 DEF Heard
          <6>2. CASE s = p.src
            <7>1. p.sequence \in Nat /\ p.sequence < n
              BY <2>4, <4>3, <4>5, <6>2 DEF n
            <7>2. ~(front'[r].sequenceInfo[s] >= n) /\ ~(front[r].sequenceInfo[s] >= n)
              BY <1>1, <2>2, <2>6, <4>1, <4>3, <6>2, <7>1
            <7>3. \A x \in Routers : x # r =>
                      front'[x].sequenceInfo[s] = front[x].sequenceInfo[s]
              BY <2>6, <4>1
            <7>4. \A x \in Routers : front'[x].sequenceInfo[s] >= n <=> front[x].sequenceInfo[s] >= n
              BY <7>2, <7>3
            <7> QED
              BY <7>4 DEF Heard
          <6> QED
            BY <6>1, <6>2
        <5>2. ~Copy(h, s, n)
          BY <2>4, <4>5 DEF Copy
        <5>3. ASSUME NEW u \in Alive \cap Heard(front', s, n), NEW v \in Alive \cap Range(Peers[u])
              PROVE  \/ v \in Heard(front', s, n)
                     \/ \E q \in Range(wire'[<<u, v>>]) : Copy(q, s, n)
          <6>1. <<u, v>> \in Links
            BY PeerIs DEF Alive
          <6>2. CASE v \in Heard(front, s, n)
            BY <5>1, <6>2
          <6>3. CASE \E q \in Range(wire[<<u, v>>]) : Copy(q, s, n)
            BY <3>1, <5>2, <6>1, <6>3
          <6> QED
            BY <4>2, <5>1, <6>2, <6>3 DEF Spread
        <5>4. Len(announced'[s]) = n
          BY <4>1 DEF n
        <5> QED
          BY <2>1, <5>3, <5>4 DEF Spread
      <4> QED
        BY <4>4, <4>5
    <3> QED
      BY <3>2 DEF FloodHold
  <2> QED
    BY <1>10, <2>5, <2>6, GetsSequenceIs
<1>11. CASE Carries
  <2>1. CASE \E r \in Switchable : Switch(r)
    <3>1. \A s \in Routers : fresh'[s] = "no"
      BY <2>1, FreshIs
    <3>2. Alive' \subseteq Routers
      BY DEF Alive
    <3> QED
      BY <3>1, <3>2 DEF FloodHold
  <2>2. CASE UNCHANGED <<power, announced, fresh, front>>
    BY <1>7, <1>11, <2>2, CarriesIs
  <2> QED
    BY <1>11, <2>1, <2>2 DEF Carries, GetsData, RunTask, IpSend, vars
<1> QED
  BY <1>4, <1>5, <1>6, <1>8, <1>9, <1>10, <1>11, StepMoves, Zenon

SettledInv == FarHold /\ FreshHold /\ FoundHold /\ ToldHold /\ FloodHold

LEMMA SettledInvInit == RoutingInit => SettledInv
<1> SUFFICES ASSUME RoutingInit
             PROVE  SettledInv
  OBVIOUS
<1>1. FarHold
  BY DEF RoutingInit, FarHold, Range
<1>2. /\ fresh = [r \in Routers |-> "no"] /\ Alive \subseteq Routers
  BY DEF RoutingInit, Alive
<1>3. FreshHold /\ FoundHold /\ ToldHold /\ FloodHold
  BY <1>2 DEF FreshHold, FoundHold, ToldHold, FloodHold
<1> QED
  BY <1>1, <1>3 DEF SettledInv

-----------------------------------------------------------------------------
(* Settled tables.                                                         *)

\* The live peers of a live router are what it announced last.
Near(r) == Alive \cap Range(Peers[r])

LEMMA SettledNear ==
    ASSUME RoutingInv, ShapeInv, SettledInv, Settled, NEW r \in Alive
    PROVE  /\ announced[r] # <<>> /\ Len(announced[r]) \in Nat \ {0}
           /\ Newest(r) \in Infos(r) /\ Newest(r) # Untold
           /\ Routers \cap Range(Newest(r)) = Near(r)
           /\ \A i \in DOMAIN Newest(r) : Newest(r)[i] \in Routers =>
                i \in DOMAIN Peers[r] /\ Newest(r)[i] = Peers[r][i]
<1>1. r \in Routers /\ fresh[r] = "yes"
  BY DEF Settled, Alive
<1>2. /\ announced[r] # <<>>
      /\ \A s \in Range(Peers[r]) : power[s] <=> s \in Range(Newest(r))
  BY <1>1 DEF SettledInv, ToldHold
<1>3. announced[r] \in Seq(Entries)
  BY <1>1 DEF RoutingInv, FrontsHold
<1>4. Len(announced[r]) \in Nat \ {0} /\ Len(announced[r]) \in DOMAIN announced[r]
  BY <1>2, <1>3
<1>5. Newest(r) \in Infos(r)
  BY <1>1, <1>4 DEF ShapeInv, InfosHold, Newest
<1> DEFINE e == Newest(r)
<1>6. /\ e \in Entries /\ Len(e) <= Len(Peers[r])
      /\ \A i \in DOMAIN e : e[i] \in {NoAddress, Peers[r][i]}
      /\ e # <<>> => e[Len(e)] # NoAddress
  BY <1>5 DEF Infos
<1> HIDE DEF e
<1>7. e # Untold
  <2>1. Untold # <<>> /\ Untold[Len(Untold)] = NoAddress
    BY DEF Untold
  <2> QED
    BY <1>6, <2>1
<1>8. Peers[r] \in Seq(Routers \ {r})
  BY <1>1, RoutingAssumption
<1>9. ASSUME NEW i \in DOMAIN e, e[i] \in Routers
      PROVE  i \in DOMAIN Peers[r] /\ e[i] = Peers[r][i]
  <2>1. i \in 1..Len(e) /\ Len(e) \in Nat /\ Len(Peers[r]) \in Nat
    BY <1>6, <1>8 DEF Entries
  <2>2. i \in 1..Len(Peers[r])
    BY <1>6, <2>1
  <2>3. e[i] # NoAddress
    BY <1>9, BackendAssumption
  <2> QED
    BY <1>6, <1>8, <1>9, <2>2, <2>3
<1>10. Routers \cap Range(e) = Near(r)
  <2>1. ASSUME NEW s \in Routers, s \in Range(e)
        PROVE  s \in Near(r)
    <3>1. PICK i \in DOMAIN e : e[i] = s
      BY <2>1 DEF Range
    <3>2. s \in Range(Peers[r])
      BY <1>9, <3>1 DEF Range
    <3> QED
      BY <1>2, <2>1, <3>2 DEF Near, Alive, e
  <2>2. ASSUME NEW s \in Near(r)
        PROVE  s \in Routers /\ s \in Range(e)
    BY <1>2 DEF Near, Alive, e
  <2> QED
    BY <2>1, <2>2
<1> QED
  BY <1>2, <1>4, <1>5, <1>7, <1>9, <1>10 DEF e

\* The routers that r is reached from, over routers with power: those that r is
\* in every closed set of.
Closed(C) == C \subseteq Alive /\ \A t \in C : Near(t) \subseteq C
Area(r) == {t \in Alive : \A C : Closed(C) /\ t \in C => r \in C}

LEMMA AreaIs ==
    ASSUME NEW r \in Alive
    PROVE  r \in Area(r) /\ \A t \in Area(r) : Near(t) \subseteq Area(r)
<1>1. r \in Area(r)
  BY DEF Area
<1>2. ASSUME NEW t \in Area(r), NEW v \in Near(t), NEW C, Closed(C), v \in C
      PROVE  r \in C
  <2>1. t \in Alive /\ t \in Routers /\ v \in Range(Peers[t])
    BY DEF Area, Near, Alive
  <2>2. t \in Near(v)
    BY <2>1, PeerIs DEF Near
  <2>3. t \in C
    BY <1>2, <2>2 DEF Closed
  <2> QED
    BY <1>2, <2>3 DEF Area
<1>3. \A t : Near(t) \subseteq Alive
  BY DEF Near
<1> QED
  BY <1>1, <1>2, <1>3 DEF Area

\* r has heard what each of them announced last ...
LEMMA AreaHeard ==
    ASSUME RoutingInv, SettledInv, Settled, NEW r \in Alive, NEW t \in Area(r)
    PROVE  r \in Heard(front, t, Len(announced[t]))
<1> DEFINE n == Len(announced[t])
           C == Alive \cap Heard(front, t, n)
<1>1. t \in Alive /\ t \in Routers /\ fresh[t] = "yes"
  BY DEF Area, Settled, Alive
<1>2. Spread(t, n)
  BY <1>1 DEF SettledInv, FloodHold
<1> HIDE DEF n
<1>3. ASSUME NEW u \in C, NEW v \in Near(u)
      PROVE  v \in C
  <2>1. v \in Alive /\ v \in Range(Peers[u]) /\ u \in Routers
    BY DEF Near, Alive
  <2>2. <<u, v>> \in Links
    BY <2>1, PeerIs
  <2>3. \A p \in Range(wire[<<u, v>>]) : p.type # "Sequence"
    BY <2>2 DEF Settled, OnTheWay
  <2>4. v \in Heard(front, t, n)
    BY <1>2, <2>1, <2>3 DEF Spread, Copy
  <2> QED
    BY <2>1, <2>4
<1>4. Closed(C)
  <2>1. C \subseteq Alive /\ \A u \in C : Near(u) \subseteq C
    BY <1>3
  <2> HIDE DEF C
  <2> QED
    BY <2>1 DEF Closed
<1>5. t \in C
  BY <1>1 DEF Heard
<1>6. r \in C
  <2> HIDE DEF C
  <2> QED
    BY <1>4, <1>5 DEF Area
<1> QED
  BY <1>6 DEF n

\* ... and has it in its table.
LEMMA AreaKnown ==
    ASSUME RoutingInv, ShapeInv, SettledInv, Settled, NEW r \in Alive, NEW t \in Area(r)
    PROVE  /\ Places(back[r].conn, t) # {}
           /\ \A k \in Places(back[r].conn, t) : back[r].conn[k].entry = Newest(t)
<1> DEFINE n == Len(announced[t])
           conn == back[r].conn
<1>1. t \in Alive /\ t \in Routers /\ r \in Routers
  BY DEF Area, Alive
<1>2. n \in Nat \ {0} /\ Newest(t) # Untold
  BY <1>1, SettledNear
<1>3. HeardOf(front, r, t) = n
  <2>1. front[t].sequence = n /\ front[r].sequenceInfo[t] <= n /\ front[r].sequenceInfo[t] \in Nat
    BY <1>1 DEF RoutingInv, FrontsHold, Fronts
  <2>2. r = t \/ front[r].sequenceInfo[t] >= n
    BY AreaHeard DEF Heard
  <2> HIDE DEF n
  <2> QED
    BY <1>2, <2>1, <2>2 DEF HeardOf
<1>4. Latest(back[r], t) = Newest(t)
  <2>1. Latest(back[r], t) = Told(announced, t, HeardOf(front, r, t))
    BY <1>1, Restated, Zenon DEF RoutingInv
  <2> QED
    BY <1>2, <1>3, <2>1 DEF Told, Newest
<1>5. back[r].que = <<>>
  BY <1>1 DEF Settled
<1>6. Places(conn, t) # {} /\ conn[Min(Places(conn, t))].entry = Newest(t)
  BY <1>2, <1>4, <1>5 DEF Latest
<1>7. Once(conn) /\ conn \in Seq(Ann)
  BY <1>1 DEF RoutingInv, BacksHold, IsBackend, ShapeInv, TablesHold, TableOf
<1> HIDE DEF conn
<1>8. Min(Places(conn, t)) \in Places(conn, t)
  <2>1. Places(conn, t) \subseteq Nat
    BY <1>7 DEF Places
  <2> QED
    BY <1>6, <2>1, MinIs
<1>9. \A k \in Places(conn, t) : k = Min(Places(conn, t))
  BY <1>7, <1>8 DEF Once, Places
<1> QED
  BY <1>6, <1>9 DEF conn

\* So that its table has the links of the network.
LEMMA AreaLinks ==
    ASSUME RoutingInv, ShapeInv, SettledInv, Settled, NEW r \in Alive
    PROVE  /\ OfRouters(back[r].conn) /\ OfRouters(AliveConn)
           /\ SameLinks(back[r].conn, AliveConn, Area(r))
<1> DEFINE conn == back[r].conn
<1>1. conn \in Seq(Ann) /\ Once(conn)
  BY DEF RoutingInv, BacksHold, IsBackend, ShapeInv, TablesHold, TableOf, Alive
<1>2. OfRouters(conn)
  BY <1>1, TableIs
<1>3. /\ DOMAIN AliveConn = Alive
      /\ \A v \in Alive : AliveConn[v].ip = v /\ AliveConn[v].entry = Peers[v]
  BY DEF AliveConn
<1>4. OfRouters(AliveConn)
  BY <1>3 DEF OfRouters, Alive
<1>5. ASSUME NEW y \in Area(r)
      PROVE  LinksFrom(conn, y) = Near(y) /\ LinksFrom(AliveConn, y) = Near(y)
  <2>1. y \in Alive /\ Near(y) \subseteq Area(r) /\ Area(r) \subseteq Alive
    BY AreaIs DEF Area
  <2>2. /\ Places(conn, y) # {}
        /\ \A k \in Places(conn, y) : conn[k].entry = Newest(y)
    BY AreaKnown
  <2>3. Routers \cap Range(Newest(y)) = Near(y)
    BY <2>1, SettledNear
  <2> HIDE DEF conn
  <2>4. ASSUME NEW u \in Places(conn, y), NEW v \in NeighboursOf(conn, u)
        PROVE  conn[v].ip \in Near(y)
    BY <1>2, <2>2, <2>3 DEF NeighboursOf, OfRouters
  <2>5. ASSUME NEW z \in Near(y)
        PROVE  \E u \in Places(conn, y) : \E v \in NeighboursOf(conn, u) : conn[v].ip = z
    <3>1. PICK u \in Places(conn, y) : TRUE
      BY <2>2
    <3>2. Places(conn, z) # {}
      BY <2>1, AreaKnown DEF conn
    <3>3. PICK v \in DOMAIN conn : conn[v].ip = z
      BY <3>2 DEF Places
    <3>4. z \in Range(conn[u].entry)
      BY <2>2, <2>3
    <3>5. v \in NeighboursOf(conn, u)
      BY <3>3, <3>4 DEF NeighboursOf
    <3> QED
      BY <3>3, <3>5
  <2>6. LinksFrom(conn, y) = Near(y)
    BY <2>4, <2>5 DEF LinksFrom
  <2>7. Places(AliveConn, y) = {y}
    BY <1>3, <2>1 DEF Places
  <2>8. NeighboursOf(AliveConn, y) = Near(y)
    BY <1>3, <2>1 DEF NeighboursOf, Near
  <2>9. LinksFrom(AliveConn, y) = Near(y)
    <3>1. LinksFrom(AliveConn, y) = {AliveConn[v].ip : v \in NeighboursOf(AliveConn, y)}
      BY <2>7 DEF LinksFrom
    <3>2. \A v \in Near(y) : AliveConn[v].ip = v
      BY <1>3 DEF Near
    <3> QED
      BY <2>8, <3>1, <3>2
  <2> QED
    BY <2>6, <2>9
<1>6. SameLinks(conn, AliveConn, Area(r))
  <2> HIDE DEF conn
  <2> QED
    BY <1>5, AreaIs DEF SameLinks
<1> QED
  BY <1>2, <1>4, <1>6

\* And the routes are those of the network.
LEMMA SettledRoutes ==
    ASSUME RoutingInv, ShapeInv, SettledInv, Settled
    PROVE  RoutesAgree
<1> SUFFICES ASSUME NEW r \in Alive, NEW s \in Alive, r # s
             PROVE  LET far == Distance(AliveConn, r, s)
                        port == PortTo(back[r], s)
                    IN  IF far = TTL THEN port = NoPort
                        ELSE /\ port # NoPort
                             /\ power[Peers[r][port]]
                             /\ Distance(AliveConn, Peers[r][port], s) = far - 1
  BY Zenon DEF RoutesAgree
<1> DEFINE b == back[r]
           conn == b.conn
           far == Distance(AliveConn, r, s)
<1>1. conn \in Seq(Ann) /\ Once(conn) /\ b.dis = Dijkstra(conn, r)
  BY DEF RoutingInv, BacksHold, IsBackend, ShapeInv, TablesHold, TableOf, Alive
<1>2. DOMAIN b.dis = DOMAIN conn
  BY <1>1, DijkstraShape
<1>3. r \in Area(r) /\ Near(r) \subseteq Area(r)
  BY AreaIs
<1>4. OfRouters(conn) /\ OfRouters(AliveConn) /\ SameLinks(conn, AliveConn, Area(r))
  BY AreaLinks
<1>5. ASSUME NEW x \in Area(r)
      PROVE  Distance(conn, x, s) = Distance(AliveConn, x, s)
  <2> HIDE DEF conn
  <2> QED
    BY <1>4, SameDistance
<1>6. CASE Places(conn, s) = {}
  <2>1. PortTo(b, s) = NoPort
    <3>1. {i \in DOMAIN b.dis : b.conn[i].ip = s /\ b.dis[i].hop # NoPort} = {}
      BY <1>2, <1>6 DEF Places
    <3> QED
      BY <3>1, Zenon DEF PortTo
  <2>2. s \notin Area(r)
    BY <1>6, AreaKnown
  <2>3. \A m \in 0..(TTL - 1) : s \notin Within(conn, r, m)
    <3> HIDE DEF conn
    <3>1. \A n \in Nat : Within(conn, r, n) \subseteq Area(r)
      BY <1>3, <1>4, SameWithin
    <3>2. 0..(TTL - 1) \subseteq Nat
      BY BackendAssumption
    <3> QED
      BY <2>2, <3>1, <3>2
  <2>4. Distance(conn, r, s) = TTL
    BY <2>3, DistanceNone
  <2> QED
    BY <1>3, <1>5, <2>1, <2>4
<1>7. CASE Places(conn, s) # {}
  <2>1. PICK v \in DOMAIN conn : conn[v].ip = s
    BY <1>7 DEF Places
  <2> DEFINE at == b.dis[v]
             k == Min(Places(conn, r))
             entry == conn[k].entry
  <2>2. Places(conn, r) # {} /\ \A j \in Places(conn, r) : conn[j].entry = Newest(r)
    BY <1>3, AreaKnown
  <2>3. entry = Newest(r)
    <3> HIDE DEF conn
    <3>1. k \in DOMAIN conn /\ conn[k].ip = r
      BY <1>1, <2>2, PlaceFound
    <3>2. k \in Places(conn, r)
      BY <3>1 DEF Places
    <3> QED
      BY <2>2, <3>2
  <2>4. /\ at.d = Distance(conn, r, s)
        /\ IF at.d = TTL THEN at.hop = NoPort
           ELSE /\ at.hop \in DOMAIN entry
                /\ \E w \in DOMAIN conn : conn[w].ip = entry[at.hop]
                /\ Distance(conn, entry[at.hop], s) = at.d - 1
    <3> HIDE DEF conn
    <3> QED
      BY <1>1, <2>1, <2>2, ShortestFound
  <2>5. at.d = far
    BY <1>3, <1>5, <2>4
  <2>6. PortTo(b, s) = at.hop
    <3> DEFINE found == {i \in DOMAIN b.dis : b.conn[i].ip = s /\ b.dis[i].hop # NoPort}
    <3>1. found = IF at.hop = NoPort THEN {} ELSE {v}
      BY <1>1, <1>2, <2>1 DEF Once
    <3>2. v \in Nat
      BY <1>1, <2>1
    <3>3. Min({v}) = v
      <4>1. Min({v}) \in {v}
        BY <3>2, MinIs
      <4> QED
        BY <4>1
    <3>4. PortTo(b, s) = IF found = {} THEN NoPort ELSE b.dis[Min(found)].hop
      BY Zenon DEF PortTo
    <3> HIDE DEF found
    <3> QED
      BY <3>1, <3>3, <3>4
  <2>7. CASE far = TTL
    BY <2>4, <2>5, <2>6, <2>7
  <2>8. CASE far # TTL
    <3>1. /\ at.hop \in DOMAIN entry
          /\ \E w \in DOMAIN conn : conn[w].ip = entry[at.hop]
          /\ Distance(conn, entry[at.hop], s) = far - 1
      BY <2>4, <2>5, <2>8
    <3>2. entry[at.hop] \in Routers
      BY <1>4, <3>1 DEF OfRouters
    <3>3. /\ at.hop \in DOMAIN Peers[r] /\ entry[at.hop] = Peers[r][at.hop]
          /\ Routers \cap Range(Newest(r)) = Near(r)
      BY <2>3, <3>1, <3>2, SettledNear
    <3>4. entry[at.hop] \in Near(r)
      BY <2>3, <3>1, <3>2, <3>3 DEF Range
    <3>5. power[Peers[r][at.hop]]
      BY <3>3, <3>4 DEF Near, Alive
    <3>6. at.hop # NoPort
      <4>1. Peers[r] \in Seq(Routers \ {r})
        BY RoutingAssumption DEF Alive
      <4> QED
        BY <3>3, <4>1 DEF NoPort
    <3>7. Distance(AliveConn, Peers[r][at.hop], s) = far - 1
      BY <1>3, <1>5, <3>1, <3>3, <3>4
    <3> QED
      BY <2>6, <2>8, <3>5, <3>6, <3>7
  <2> QED
    BY <2>7, <2>8
<1> QED
  BY <1>6, <1>7

-----------------------------------------------------------------------------
(* The theorems.                                                           *)

LEMMA RoutingInvHolds == RoutingSpec => []RoutingInv
BY RoutingInvInit, RoutingInvNext, PTL DEF RoutingSpec

LEMMA ShapeInvHolds == RoutingSpec => []ShapeInv
BY RoutingInvHolds, ShapeInvInit, ShapeInvNext, PTL DEF RoutingSpec

\* The shape of the state in every network (lsp_frontend.hh:19-32): a router
\* notes at a port, and announces, only the router that it leads to or none, its
\* tables go together, and no packet is on a wire that should have been dropped.
THEOREM RoutingTyped == RoutingSpec => []RoutingTypeOK
BY RoutingInvHolds, ShapeInvHolds, ShapeOf, PTL

\* LspFrontend's sequence numbers and LspBackend's table stay in step in every
\* network, whatever is lost and whoever is shut down (lsp_frontend.cc:90-149):
\* a router goes by the newest announcement it has seen of each other.
THEOREM TablesStayInStep == RoutingSpec => []TablesAnnounced
<1>1. RoutingInv => TablesAnnounced
  BY DEF RoutingInv
<1> QED
  BY <1>1, RoutingInvHolds, PTL

\* In every network a router sends an announcement on at most once, so that
\* flooding ends (lsp_frontend.cc:132-149).
THEOREM FloodingEnds == RoutingSpec => []FloodOnce
<1>1. RoutingInv => FloodOnce
  BY DEF RoutingInv
<1> QED
  BY <1>1, RoutingInvHolds, PTL

\* Once every live router has made a round and its announcements have arrived,
\* each sends to every other one it can reach on a first link of a shortest path,
\* in every network of at most TTL routers (lsp_frontend.cc:35-149,
\* lsp_backend.cc:24-112); in a larger one the TTL of an announcement may run out
\* before it has been everywhere.
THEOREM SettledAgrees ==
    ASSUME IsFiniteSet(Routers), Cardinality(Routers) <= TTL
    PROVE  RoutingSpec => []SettledAgree
<1>1. RoutingInv /\ ShapeInv /\ SettledInv /\ [RoutingNext]_vars => SettledInv'
  <2> SUFFICES ASSUME RoutingInv, ShapeInv, SettledInv, [RoutingNext]_vars
               PROVE  SettledInv'
    OBVIOUS
  <2>1. /\ RightOn(wire) /\ InfosHold
        /\ FarHold /\ FreshHold /\ FoundHold /\ ToldHold /\ FloodHold
    BY DEF ShapeInv, SettledInv
  <2>2. FarHold' /\ FreshHold' /\ FoundHold' /\ ToldHold' /\ FloodHold'
    BY <2>1, FarNext, FreshNext, FoundNext, ToldNext, FloodNext
  <2> QED
    BY <2>2 DEF SettledInv
<1>2. RoutingInv /\ ShapeInv /\ SettledInv => SettledAgree
  BY SettledRoutes DEF SettledAgree
<1> QED
  BY <1>1, <1>2, SettledInvInit, RoutingInvHolds, ShapeInvHolds, PTL DEF RoutingSpec
=============================================================================
