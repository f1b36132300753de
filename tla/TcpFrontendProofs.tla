------------------------- MODULE TcpFrontendProofs --------------------------
(***************************************************************************)
(* What the socket state machine guarantees for any number of routers,     *)
(* ports and sockets, on links that lose packets: that the state keeps its *)
(* shape, that an open connection has a backend, that a packet finds the   *)
(* one connection it is for, and that no request of an application is lost *)
(* or answered twice.                                                      *)
(***************************************************************************)
EXTENDS TcpFrontend, NaturalLemmas, FiniteSetTheorems, SequenceTheorems

-----------------------------------------------------------------------------
(* The shape of a host.  The ports and acknowledgement numbers a packet    *)
(* brings are taken as they come: they belong to some set A.               *)

Socket(A) ==
    [state : SocketStates, ip : Hosts \cup {Nowhere}, sport : A, dport : A,
     listenWait : Seq(Ids), acceptWait : Seq(Requests),
     connectWait : Requests \cup {Null}, closeWait : Requests \cup {Null}]

Block(A) ==
    {b \in [live : BOOLEAN, fin : BOOLEAN, sent : Nat, acked : A, rcvd : Nat,
            read : Nat, wait : Seq(Requests), sendWait : Seq(Requests)] :
        b.read <= b.rcvd}

Pushed(A) ==
    [to : Hosts \cup {Nowhere}, sport : A, dport : A,
     flag : {"Syn", "SynAck", "Ack", "Fin", "Rst"}, n : A]

HostState(A) ==
    [sock : [Ids -> Socket(A)], tcb : [Ids -> Block(A)], size : 0..MaxSockets,
     open : SUBSET Requests, failed : SUBSET Requests, owned : SUBSET Ids,
     crashed : BOOLEAN, out : Seq(Pushed(A))]

\* A socket's connection.
Conn(s, i) == <<s.sock[i].ip, s.sock[i].sport, s.sock[i].dport>>

\* From s to t only socket i changes, and not which connection it is.
Touches(s, t, i) ==
    /\ t.size >= s.size
    /\ \A j \in Ids : Conn(t, j) = Conn(s, j)
    /\ \A j \in Ids \ {i} : State(t, j) = State(s, j) /\ t.tcb[j].live = s.tcb[j].live

\* No socket changes its state.
Quiet(s, t) ==
    /\ t.size = s.size
    /\ \A j \in Ids : /\ Conn(t, j) = Conn(s, j) /\ State(t, j) = State(s, j)
                      /\ t.tcb[j].live = s.tcb[j].live

LEMMA BoundsAre ==
    /\ MaxSockets \in Nat /\ MaxOpen \in Nat
    /\ Ids \subseteq Nat /\ Requests \subseteq Nat
    /\ \A i \in Ids : i + 1 \in 0..MaxSockets
BY BoundsAssumption DEF Ids, Requests

\* Replacing one socket, one block, or the answers and packets.
LEMMA SockIs ==
    ASSUME NEW A, NEW s \in HostState(A), NEW i \in Ids, NEW k \in Socket(A)
    PROVE  LET t == [s EXCEPT !.sock[i] = k] IN
           /\ t \in HostState(A)
           /\ t.sock[i] = k /\ \A j \in Ids \ {i} : t.sock[j] = s.sock[j]
           /\ t.tcb = s.tcb /\ t.size = s.size /\ t.open = s.open /\ t.owned = s.owned
BY DEF HostState

LEMMA TcbIs ==
    ASSUME NEW A, NEW s \in HostState(A), NEW i \in Ids, NEW b \in Block(A)
    PROVE  LET t == [s EXCEPT !.tcb[i] = b] IN
           /\ t \in HostState(A)
           /\ t.tcb[i] = b /\ \A j \in Ids \ {i} : t.tcb[j] = s.tcb[j]
           /\ t.sock = s.sock /\ t.size = s.size /\ t.open = s.open /\ t.owned = s.owned
BY DEF HostState

LEMMA GotoIs ==
    ASSUME NEW A, NEW s \in HostState(A), NEW i \in Ids, NEW state \in SocketStates
    PROVE  LET t == Goto(s, i, state) IN
           /\ t \in HostState(A) /\ Touches(s, t, i)
           /\ State(t, i) = state /\ t.tcb = s.tcb /\ t.size = s.size
           /\ \A j \in Ids : t.sock[j].listenWait = s.sock[j].listenWait
<1> DEFINE k == [s.sock[i] EXCEPT !.state = state]
           t == [s EXCEPT !.sock[i] = k]
<1>1. s.sock[i] \in Socket(A) /\ s.size \in Nat
  BY BoundsAre DEF HostState
<1>2. /\ k \in Socket(A) /\ k.state = state /\ k.ip = s.sock[i].ip
      /\ k.sport = s.sock[i].sport /\ k.dport = s.sock[i].dport
      /\ k.listenWait = s.sock[i].listenWait
  BY <1>1 DEF Socket
<1>3. Goto(s, i, state) = t
  BY DEF Goto
<1> HIDE DEF k
<1>4. /\ t \in HostState(A)
      /\ t.sock[i] = k /\ \A j \in Ids \ {i} : t.sock[j] = s.sock[j]
      /\ t.tcb = s.tcb /\ t.size = s.size
  BY <1>2, SockIs
<1> HIDE DEF t
<1> QED
  BY <1>1, <1>2, <1>3, <1>4 DEF Touches, Conn, State

\* Neither sockets nor blocks change.
Apart(s, t) == t.sock = s.sock /\ t.tcb = s.tcb /\ t.size = s.size

Flags == {"Syn", "SynAck", "Ack", "Fin", "Rst"}

LEMMA PushIs ==
    ASSUME NEW A, NEW s \in HostState(A), NEW ip \in Hosts \cup {Nowhere},
           NEW sport \in A, NEW dport \in A, NEW flag \in Flags, NEW n \in A
    PROVE  LET t == Push(s, ip, sport, dport, flag, n) IN
           t \in HostState(A) /\ Apart(s, t)
<1> DEFINE p == [to |-> ip, sport |-> sport, dport |-> dport, flag |-> flag, n |-> n]
<1>1. p \in Pushed(A)
  BY DEF Pushed, Flags
<1>2. Append(s.out, p) \in Seq(Pushed(A))
  BY <1>1 DEF HostState
<1> HIDE DEF p
<1>3. Push(s, ip, sport, dport, flag, n) = [s EXCEPT !.out = Append(@, p)]
  BY DEF Push, p
<1> QED
  BY <1>2, <1>3 DEF HostState, Apart

LEMMA SockFields ==
    ASSUME NEW A, NEW s \in HostState(A), NEW i \in Ids
    PROVE  /\ s.sock[i] \in Socket(A) /\ State(s, i) \in SocketStates
           /\ s.sock[i].ip \in Hosts \cup {Nowhere}
           /\ s.sock[i].sport \in A /\ s.sock[i].dport \in A
           /\ s.sock[i].listenWait \in Seq(Ids)
           /\ s.sock[i].acceptWait \in Seq(Requests)
BY DEF HostState, Socket, State

LEMMA SendShortIs ==
    ASSUME NEW A, Nat \subseteq A, NEW s \in HostState(A), NEW i \in Ids, NEW flag \in Flags
    PROVE  SendShort(s, i, flag) \in HostState(A) /\ Apart(s, SendShort(s, i, flag))
<1>1. s.sock[i].ip \in Hosts \cup {Nowhere} /\ s.sock[i].sport \in A /\ s.sock[i].dport \in A
  BY SockFields
<1>2. 0 \in A
  OBVIOUS
<1> QED
  BY <1>1, <1>2, PushIs DEF SendShort


LEMMA SendReturnIs ==
    ASSUME NEW A, NEW s \in HostState(A), NEW r
    PROVE  SendReturn(s, r) \in HostState(A) /\ Apart(s, SendReturn(s, r))
BY DEF SendReturn, HostState, Apart

LEMMA FailIs ==
    ASSUME NEW A, NEW s \in HostState(A), NEW calls
    PROVE  Fail(s, calls) \in HostState(A) /\ Apart(s, Fail(s, calls))
BY DEF Fail, HostState, Apart

LEMMA QuietSame ==
    ASSUME NEW s, NEW t, Apart(s, t)
    PROVE  Quiet(s, t)
BY DEF Apart, Quiet, Conn, State

LEMMA QuietTrans ==
    ASSUME NEW s, NEW t, NEW u, Quiet(s, t), Quiet(t, u)
    PROVE  Quiet(s, u)
BY DEF Quiet

LEMMA TouchesTrans ==
    ASSUME NEW A, NEW s \in HostState(A), NEW t \in HostState(A), NEW u \in HostState(A),
           NEW i, Touches(s, t, i), Touches(t, u, i)
    PROVE  Touches(s, u, i)
<1>1. s.size \in Int /\ t.size \in Int /\ u.size \in Int
  BY DEF HostState
<1> QED
  BY <1>1 DEF Touches

LEMMA QuietTouches ==
    ASSUME NEW A, NEW s \in HostState(A), NEW t, NEW i, Quiet(s, t)
    PROVE  Touches(s, t, i)
<1>1. s.size \in Int
  BY DEF HostState
<1> QED
  BY <1>1 DEF Touches, Quiet

\* Replacing what waits on a socket, but not its state nor its connection.
LEMMA WaitsIs ==
    ASSUME NEW A, NEW s \in HostState(A), NEW i \in Ids, NEW k \in Socket(A),
           k.state = s.sock[i].state, k.ip = s.sock[i].ip,
           k.sport = s.sock[i].sport, k.dport = s.sock[i].dport
    PROVE  LET t == [s EXCEPT !.sock[i] = k] IN
           /\ t \in HostState(A) /\ Quiet(s, t) /\ t.tcb = s.tcb
           /\ t.sock[i] = k /\ \A j \in Ids \ {i} : t.sock[j] = s.sock[j]
<1> DEFINE t == [s EXCEPT !.sock[i] = k]
<1>1. /\ t \in HostState(A) /\ t.tcb = s.tcb /\ t.size = s.size
      /\ t.sock[i] = k /\ \A j \in Ids \ {i} : t.sock[j] = s.sock[j]
  BY SockIs
<1> HIDE DEF t
<1>2. Quiet(s, t)
  BY <1>1 DEF Quiet, Conn, State
<1> QED
  BY <1>1, <1>2 DEF t

\* Replacing what a block counts, but not whether it is live.
LEMMA CountsIs ==
    ASSUME NEW A, NEW s \in HostState(A), NEW i \in Ids, NEW b \in Block(A),
           b.live = s.tcb[i].live
    PROVE  LET t == [s EXCEPT !.tcb[i] = b] IN
           /\ t \in HostState(A) /\ Quiet(s, t) /\ t.sock = s.sock
           /\ t.tcb[i] = b /\ \A j \in Ids \ {i} : t.tcb[j] = s.tcb[j]
<1> DEFINE t == [s EXCEPT !.tcb[i] = b]
<1>1. /\ t \in HostState(A) /\ t.sock = s.sock /\ t.size = s.size
      /\ t.tcb[i] = b /\ \A j \in Ids \ {i} : t.tcb[j] = s.tcb[j]
  BY TcbIs
<1> HIDE DEF t
<1>2. Quiet(s, t)
  BY <1>1 DEF Quiet, Conn, State
<1> QED
  BY <1>1, <1>2 DEF t

-----------------------------------------------------------------------------
(* The handlers that change no socket's state.                             *)

LEMMA ReturnCloseIs ==
    ASSUME NEW A, NEW s \in HostState(A), NEW i \in Ids
    PROVE  ReturnClose(s, i) \in HostState(A) /\ Quiet(s, ReturnClose(s, i))
<1> DEFINE r == s.sock[i].closeWait
           u == SendReturn(s, r)
           k == [u.sock[i] EXCEPT !.closeWait = Null]
<1>1. u \in HostState(A) /\ Apart(s, u)
  BY SendReturnIs
<1>2. ReturnClose(s, i) = [u EXCEPT !.sock[i] = k]
  BY DEF ReturnClose
<1> HIDE DEF u
<1>3. u.sock[i] \in Socket(A)
  BY <1>1, SockFields
<1>4. /\ k \in Socket(A) /\ k.state = u.sock[i].state /\ k.ip = u.sock[i].ip
      /\ k.sport = u.sock[i].sport /\ k.dport = u.sock[i].dport
  BY <1>3 DEF Socket
<1> HIDE DEF k
<1>5. [u EXCEPT !.sock[i] = k] \in HostState(A) /\ Quiet(u, [u EXCEPT !.sock[i] = k])
  BY <1>1, <1>4, WaitsIs
<1>6. Quiet(s, u)
  BY <1>1, QuietSame
<1> QED
  BY <1>2, <1>5, <1>6, QuietTrans

LEMMA ReturnConnectIs ==
    ASSUME NEW A, NEW s \in HostState(A), NEW i \in Ids
    PROVE  ReturnConnect(s, i) \in HostState(A) /\ Quiet(s, ReturnConnect(s, i))
<1> DEFINE r == s.sock[i].connectWait
           u == SendReturn(s, r)
           k == [u.sock[i] EXCEPT !.connectWait = Null]
<1>1. u \in HostState(A) /\ Apart(s, u)
  BY SendReturnIs
<1>2. ReturnConnect(s, i) = [u EXCEPT !.sock[i] = k]
  BY DEF ReturnConnect
<1> HIDE DEF u
<1>3. u.sock[i] \in Socket(A)
  BY <1>1, SockFields
<1>4. /\ k \in Socket(A) /\ k.state = u.sock[i].state /\ k.ip = u.sock[i].ip
      /\ k.sport = u.sock[i].sport /\ k.dport = u.sock[i].dport
  BY <1>3 DEF Socket
<1> HIDE DEF k
<1>5. [u EXCEPT !.sock[i] = k] \in HostState(A) /\ Quiet(u, [u EXCEPT !.sock[i] = k])
  BY <1>1, <1>4, WaitsIs
<1>6. Quiet(s, u)
  BY <1>1, QuietSame
<1> QED
  BY <1>2, <1>5, <1>6, QuietTrans

LEMMA PushMessageIs ==
    ASSUME NEW A, NEW s \in HostState(A), NEW i \in Ids, NEW n \in A
    PROVE  PushMessage(s, i, n) \in HostState(A) /\ Apart(s, PushMessage(s, i, n))
<1>1. s.sock[i].ip \in Hosts \cup {Nowhere} /\ s.sock[i].sport \in A /\ s.sock[i].dport \in A
  BY SockFields
<1> QED
  BY <1>1, PushIs DEF PushMessage, Flags

LEMMA BlockFields ==
    ASSUME NEW A, NEW s \in HostState(A), NEW i \in Ids
    PROVE  /\ s.tcb[i] \in Block(A)
           /\ s.tcb[i].sent \in Nat /\ s.tcb[i].rcvd \in Nat /\ s.tcb[i].read \in Nat
           /\ s.tcb[i].read <= s.tcb[i].rcvd /\ s.tcb[i].live \in BOOLEAN
           /\ s.tcb[i].wait \in Seq(Requests) /\ s.tcb[i].sendWait \in Seq(Requests)
<1>1. s.tcb[i] \in Block(A)
  BY DEF HostState
<1> QED
  BY <1>1 DEF Block

\* Fewer requests are open.
LEMMA OpenIs ==
    ASSUME NEW A, NEW s \in HostState(A), NEW O \in SUBSET Requests
    PROVE  LET t == [s EXCEPT !.open = O] IN t \in HostState(A) /\ Apart(s, t)
BY DEF HostState, Apart

LEMMA BackDataIs ==
    ASSUME NEW A, Nat \subseteq A, NEW s \in HostState(A), NEW i \in Ids, NEW n
    PROVE  BackData(s, i, n) \in HostState(A) /\ Quiet(s, BackData(s, i, n))
<1> DEFINE b == s.tcb[i]
           inOrder == n = b.rcvd + 1
           wakes == inOrder /\ b.wait # <<>>
           rcvd == IF inOrder THEN n ELSE b.rcvd
           read == IF wakes THEN b.read + 1 ELSE b.read
           wait == IF wakes THEN Tail(b.wait) ELSE b.wait
           kept == [b EXCEPT !.rcvd = rcvd, !.read = read, !.wait = wait]
           O == IF wakes THEN s.open \ {Head(b.wait)} ELSE s.open
           u == [s EXCEPT !.open = O]
           t == [u EXCEPT !.tcb[i] = kept]
<1>1. /\ b \in Block(A) /\ b.rcvd \in Nat /\ b.read \in Nat /\ b.read <= b.rcvd
      /\ b.wait \in Seq(Requests)
  BY BlockFields
<1>2. rcvd \in Nat /\ read \in Nat /\ read <= rcvd
  BY <1>1
<1>3. wait \in Seq(Requests)
  BY <1>1
<1>4. BackData(s, i, n) = Push(t, s.sock[i].ip, s.sock[i].sport, s.sock[i].dport, "Ack", rcvd)
  <2>1. kept.rcvd = rcvd
    BY <1>1 DEF Block
  <2>2. [s EXCEPT !.tcb[i] = kept, !.open = O] = t
    BY DEF HostState
  <2> QED
    BY <2>1, <2>2 DEF BackData
<1> HIDE DEF rcvd, read, wait
<1>5. kept \in Block(A) /\ kept.live = b.live
  BY <1>1, <1>2, <1>3 DEF Block
<1>6. O \in SUBSET Requests
  BY DEF HostState
<1> HIDE DEF kept, O
<1>7. u \in HostState(A) /\ Apart(s, u)
  BY <1>6, OpenIs
<1> HIDE DEF u
<1>8. kept.live = u.tcb[i].live
  BY <1>5, <1>7 DEF Apart
<1>9. t \in HostState(A) /\ Quiet(u, t)
  BY <1>5, <1>7, <1>8, CountsIs
<1> HIDE DEF t
<1>10. s.sock[i].ip \in Hosts \cup {Nowhere} /\ s.sock[i].sport \in A /\ s.sock[i].dport \in A
  BY SockFields
<1>11. rcvd \in A /\ "Ack" \in Flags
  BY <1>2 DEF Flags
<1> DEFINE v == Push(t, s.sock[i].ip, s.sock[i].sport, s.sock[i].dport, "Ack", rcvd)
<1>12. v \in HostState(A) /\ Apart(t, v)
  BY <1>9, <1>10, <1>11, PushIs
<1> HIDE DEF v
<1> QED
  BY <1>4, <1>7, <1>9, <1>12, QuietSame, QuietTrans DEF v
LEMMA BufferedIs ==
    ASSUME NEW A, Nat \subseteq A, NEW s \in HostState(A), NEW i \in Ids, NEW r
    PROVE  /\ Buffered(s, i, r) \in HostState(A) /\ Quiet(s, Buffered(s, i, r))
           /\ Buffered(s, i, r).tcb[i].sendWait = s.tcb[i].sendWait
<1> DEFINE b == s.tcb[i]
           n == b.sent + 1
           k == [b EXCEPT !.sent = n]
           O == s.open \ {r}
           u == [s EXCEPT !.open = O]
           t == [u EXCEPT !.tcb[i] = k]
<1>1. b \in Block(A) /\ b.sent \in Nat
  BY BlockFields
<1>2. n \in Nat
  BY <1>1
<1>3. Buffered(s, i, r) = PushMessage(t, i, n)
  <2>1. [s EXCEPT !.open = @ \ {r}, !.tcb[i].sent = n] = t
    BY DEF HostState
  <2> QED
    BY <2>1 DEF Buffered
<1>4. k \in Block(A) /\ k.live = b.live /\ k.sendWait = b.sendWait
  BY <1>1, <1>2 DEF Block
<1>5. O \in SUBSET Requests
  BY DEF HostState
<1> HIDE DEF k, O
<1>6. u \in HostState(A) /\ Apart(s, u)
  BY <1>5, OpenIs
<1> HIDE DEF u
<1>7. k.live = u.tcb[i].live
  BY <1>4, <1>6 DEF Apart
<1>8. t \in HostState(A) /\ Quiet(u, t) /\ t.tcb[i] = k
  BY <1>4, <1>6, <1>7, CountsIs
<1> HIDE DEF t
<1>9. n \in A
  BY <1>2
<1> HIDE DEF n
<1>10. PushMessage(t, i, n) \in HostState(A) /\ Apart(t, PushMessage(t, i, n))
  BY <1>8, <1>9, PushMessageIs
<1>11. PushMessage(t, i, n).tcb[i].sendWait = b.sendWait
  BY <1>4, <1>8, <1>10 DEF Apart
<1> QED
  BY <1>3, <1>6, <1>8, <1>10, <1>11, QuietSame, QuietTrans

LEMMA ResolveSendIs ==
    ASSUME NEW A, Nat \subseteq A, NEW s \in HostState(A), NEW i \in Ids, NEW r,
           s.tcb[i].sendWait # <<>>
    PROVE  LET t == ResolveSend(s, i, r) IN
           /\ t \in HostState(A) /\ Quiet(s, t)
           /\ Len(t.tcb[i].sendWait) >= Len(s.tcb[i].sendWait) - 1
<1>1. s.tcb[i].sendWait \in Seq(Requests)
  BY BlockFields
<1>2. CASE ~HasRoom(s.tcb[i])
  <2>1. ResolveSend(s, i, r) = s
    BY <1>2 DEF ResolveSend
  <2>2. Quiet(s, s)
    BY DEF Quiet
  <2>3. Len(s.tcb[i].sendWait) >= Len(s.tcb[i].sendWait) - 1
    <3>1. Len(s.tcb[i].sendWait) \in Nat
      BY <1>1
    <3> QED
      BY <3>1
  <2> QED
    BY <2>1, <2>2, <2>3
<1>3. CASE HasRoom(s.tcb[i])
  <2> DEFINE u == Buffered(s, i, r)
             k == [u.tcb[i] EXCEPT !.sendWait = Tail(@)]
             t == [u EXCEPT !.tcb[i] = k]
  <2>1. ResolveSend(s, i, r) = t
    BY <1>3 DEF ResolveSend
  <2>2. u \in HostState(A) /\ Quiet(s, u) /\ u.tcb[i].sendWait = s.tcb[i].sendWait
    BY BufferedIs
  <2> HIDE DEF u
  <2>3. u.tcb[i] \in Block(A)
    BY <2>2, BlockFields
  <2>4. Tail(s.tcb[i].sendWait) \in Seq(Requests)
    BY <1>1
  <2>5. k \in Block(A) /\ k.live = u.tcb[i].live /\ k.sendWait = Tail(s.tcb[i].sendWait)
    BY <2>2, <2>3, <2>4 DEF Block
  <2> HIDE DEF k
  <2>6. t \in HostState(A) /\ Quiet(u, t) /\ t.tcb[i] = k
    BY <2>2, <2>5, CountsIs
  <2> HIDE DEF t
  <2>7. Len(Tail(s.tcb[i].sendWait)) = Len(s.tcb[i].sendWait) - 1
    BY <1>1
  <2>8. Len(t.tcb[i].sendWait) >= Len(s.tcb[i].sendWait) - 1
    <3>1. Len(s.tcb[i].sendWait) \in Nat
      BY <1>1
    <3>2. Len(t.tcb[i].sendWait) = Len(s.tcb[i].sendWait) - 1
      BY <2>5, <2>6, <2>7, Zenon
    <3> QED
      BY <3>1, <3>2
  <2>9. t \in HostState(A) /\ Quiet(s, t)
    BY <2>2, <2>6, QuietTrans
  <2> QED
    BY <2>1, <2>8, <2>9
<1> QED
  BY <1>2, <1>3

LEMMA OneFewer ==
    ASSUME NEW a \in Nat, NEW b \in Nat, NEW n \in Nat, NEW k \in Nat,
           b >= n - (k - 1), a >= b - 1
    PROVE  a >= n - k
OBVIOUS

\* The recursive function of ResolveSends exists, and while Sends are
\* answered no socket changes its state.
LEMMA ResolveSendsIs ==
    ASSUME NEW A, Nat \subseteq A, NEW s \in HostState(A), NEW i \in Ids
    PROVE  ResolveSends(s, i) \in HostState(A) /\ Quiet(s, ResolveSends(s, i))
<1> DEFINE waiting == s.tcb[i].sendWait
           n == Len(waiting)
           Can(k) == {t \in HostState(A) : Quiet(s, t) /\ Len(t.tcb[i].sendWait) >= n - k}
           R == [k \in 0..n |-> Can(k)]
           f == [x \in (1..n) \X HostState(A) |-> ResolveSend(x[2], i, waiting[x[1]])]
           Body(g) == [k \in 0..n |-> IF k = 0 THEN s ELSE ResolveSend(g[k - 1], i, waiting[k])]
           all == CHOOSE g : g = Body(g)
<1>1. waiting \in Seq(Requests) /\ n \in Nat
  BY BlockFields
<1>2. s \in R[0]
  <2>1. Quiet(s, s)
    BY DEF Quiet
  <2>2. 0 \in 0..n
    BY <1>1
  <2> QED
    BY <1>1, <2>1, <2>2
<1>3. ResolveSends(s, i) = all[n]
  BY DEF ResolveSends
<1> HIDE DEF n
<1>4. ASSUME NEW k \in 1..n, NEW t \in R[k - 1]
      PROVE  /\ ResolveSend(t, i, waiting[k]) \in R[k]
             /\ f[<<k, t>>] = ResolveSend(t, i, waiting[k])
  <2>1. k - 1 \in 0..n /\ k \in 0..n /\ k \in Nat /\ n \in Nat
    BY <1>1
  <2>2. t \in HostState(A) /\ Quiet(s, t) /\ Len(t.tcb[i].sendWait) >= n - (k - 1)
    BY <2>1
  <2>3. t.tcb[i].sendWait \in Seq(Requests)
    BY <2>2, BlockFields
  <2>4. t.tcb[i].sendWait # <<>>
    BY <2>1, <2>2, <2>3
  <2> DEFINE u == ResolveSend(t, i, waiting[k])
  <2>5. /\ u \in HostState(A) /\ Quiet(t, u)
        /\ Len(u.tcb[i].sendWait) >= Len(t.tcb[i].sendWait) - 1
    BY <2>2, <2>4, ResolveSendIs
  <2>6. <<k, t>> \in (1..n) \X HostState(A)
    BY <2>2
  <2>7. f[<<k, t>>] = u
    BY <2>6
  <2> HIDE DEF u, f
  <2>8. Quiet(s, u)
    BY <2>2, <2>5, QuietTrans
  <2>9. u.tcb[i].sendWait \in Seq(Requests)
    BY <2>5, BlockFields
  <2>10. Len(u.tcb[i].sendWait) >= n - k
    <3>1. Len(u.tcb[i].sendWait) \in Nat /\ Len(t.tcb[i].sendWait) \in Nat
      BY <2>3, <2>9, LenProperties
    <3>2. /\ Len(t.tcb[i].sendWait) >= n - (k - 1)
          /\ Len(u.tcb[i].sendWait) >= Len(t.tcb[i].sendWait) - 1
      BY <2>2, <2>5
    <3> QED
      BY <2>1, <3>1, <3>2, OneFewer, Zenon

  <2>11. u \in R[k]
    BY <2>1, <2>5, <2>8, <2>10
  <2> QED
    BY <2>7, <2>11 DEF u
<1> HIDE DEF R, f
<1>5. \A k \in 1..n : \A t \in R[k - 1] : f[<<k, t>>] \in R[k]
  BY <1>4
<1>6. PICK g : g = [k \in 0..n |-> g[k]] /\ Follows(g, n, f, s)
  BY <1>1, <1>2, <1>5, FoldExists DEF n
<1>7. \A k \in 0..n : g[k] \in R[k]
  <2>1. g[0] \in R[0] /\ \A k \in 1..n : g[k - 1] \in R[k - 1] => g[k] \in R[k]
    BY <1>2, <1>5, <1>6 DEF Follows
  <2> QED
    BY <1>1, <2>1, FoldStays DEF n
<1>8. g = Body(g)
  <2>1. ASSUME NEW k \in 0..n
        PROVE  g[k] = Body(g)[k]
    <3>1. CASE k = 0
      BY <1>6, <3>1 DEF Follows
    <3>2. CASE k # 0
      <4>1. k \in 1..n /\ k - 1 \in 0..n
        BY <1>1, <3>2 DEF n
      <4>2. g[k] = f[<<k, g[k - 1]>>] /\ g[k - 1] \in R[k - 1]
        BY <1>6, <1>7, <4>1 DEF Follows
      <4> QED
        BY <1>4, <3>2, <4>1, <4>2
    <3> QED
      BY <3>1, <3>2
  <2> QED
    BY <1>6, <2>1
<1>9. all = Body(all)
  BY <1>8
<1> HIDE DEF all
<1>10. all[0] = s /\ \A k \in 1..n : all[k] = ResolveSend(all[k - 1], i, waiting[k])
  <2>1. 0 \in 0..n /\ \A k \in 1..n : k \in 0..n /\ k # 0
    BY <1>1 DEF n
  <2> QED
    BY <1>9, <2>1
<1>11. all[0] \in R[0] /\ \A k \in 1..n : all[k - 1] \in R[k - 1] => all[k] \in R[k]
  BY <1>2, <1>4, <1>10
<1>12. \A k \in 0..n : all[k] \in R[k]
  BY <1>1, <1>11, FoldStays DEF n
<1>13. n \in 0..n
  BY <1>1 DEF n
<1>14. all[n] \in HostState(A) /\ Quiet(s, all[n])
  BY <1>12, <1>13 DEF R
<1> QED
  BY <1>3, <1>14

\* What the code writes field by field is one change of a socket or a block.
Uncalled(s, i) ==
    [s EXCEPT !.sock[i].connectWait = Null, !.sock[i].closeWait = Null,
              !.sock[i].acceptWait = <<>>]

LEMMA FreedSocket ==
    ASSUME NEW A, NEW s \in HostState(A), NEW i \in Ids
    PROVE  Uncalled(s, i)
           = [s EXCEPT !.sock[i] = [s.sock[i] EXCEPT !.connectWait = Null, !.closeWait = Null,
                                             !.acceptWait = <<>>]]
<1> DEFINE k == [s.sock[i] EXCEPT !.connectWait = Null]
           m == [k EXCEPT !.closeWait = Null]
           n == [m EXCEPT !.acceptWait = <<>>]
           t == [s EXCEPT !.sock[i] = k]
           u == [s EXCEPT !.sock[i] = m]
           v == [s EXCEPT !.sock[i] = n]
<1>1. t = [s EXCEPT !.sock[i].connectWait = Null]
  OBVIOUS
<1>2. u = [t EXCEPT !.sock[i].closeWait = Null]
  <2> HIDE DEF k
  <2>1. t.sock[i] = k /\ s.sock \in [Ids -> Socket(A)]
    BY DEF HostState
  <2>2. [t.sock EXCEPT ![i] = m] = u.sock
    BY <2>1 DEF HostState
  <2> QED
    BY <2>1, <2>2 DEF HostState
<1>3. v = [u EXCEPT !.sock[i].acceptWait = <<>>]
  <2> HIDE DEF k, m
  <2>1. u.sock[i] = m /\ s.sock \in [Ids -> Socket(A)]
    BY DEF HostState
  <2>2. [u.sock EXCEPT ![i] = n] = v.sock
    BY <2>1 DEF HostState
  <2> QED
    BY <2>1, <2>2 DEF HostState
<1>4. n = [s.sock[i] EXCEPT !.connectWait = Null, !.closeWait = Null,
          !.acceptWait = <<>>]
  OBVIOUS
<1>5. Uncalled(s, i)
      = [[[s EXCEPT !.sock[i].connectWait = Null]
             EXCEPT !.sock[i].closeWait = Null]
             EXCEPT !.sock[i].acceptWait = <<>>]
  BY DEF Uncalled
<1> HIDE DEF k, m, n, t, u
<1> QED
  BY <1>1, <1>2, <1>3, <1>4, <1>5

Unbuilt(s, i) ==
    [s EXCEPT !.tcb[i].live = FALSE, !.tcb[i].wait = <<>>, !.tcb[i].sendWait = <<>>]

LEMMA FreedBlock ==
    ASSUME NEW A, NEW s \in HostState(A), NEW i \in Ids
    PROVE  Unbuilt(s, i)
           = [s EXCEPT !.tcb[i] = [s.tcb[i] EXCEPT !.live = FALSE, !.wait = <<>>,
                                             !.sendWait = <<>>]]
<1> DEFINE k == [s.tcb[i] EXCEPT !.live = FALSE]
           m == [k EXCEPT !.wait = <<>>]
           n == [m EXCEPT !.sendWait = <<>>]
           t == [s EXCEPT !.tcb[i] = k]
           u == [s EXCEPT !.tcb[i] = m]
           v == [s EXCEPT !.tcb[i] = n]
<1>1. t = [s EXCEPT !.tcb[i].live = FALSE]
  OBVIOUS
<1>2. u = [t EXCEPT !.tcb[i].wait = <<>>]
  <2> HIDE DEF k
  <2>1. t.tcb[i] = k /\ s.tcb \in [Ids -> Block(A)]
    BY DEF HostState
  <2>2. [t.tcb EXCEPT ![i] = m] = u.tcb
    BY <2>1 DEF HostState
  <2> QED
    BY <2>1, <2>2 DEF HostState
<1>3. v = [u EXCEPT !.tcb[i].sendWait = <<>>]
  <2> HIDE DEF k, m
  <2>1. u.tcb[i] = m /\ s.tcb \in [Ids -> Block(A)]
    BY DEF HostState
  <2>2. [u.tcb EXCEPT ![i] = n] = v.tcb
    BY <2>1 DEF HostState
  <2> QED
    BY <2>1, <2>2 DEF HostState
<1>4. n = [s.tcb[i] EXCEPT !.live = FALSE, !.wait = <<>>,
          !.sendWait = <<>>]
  OBVIOUS
<1>5. Unbuilt(s, i)
      = [[[s EXCEPT !.tcb[i].live = FALSE]
             EXCEPT !.tcb[i].wait = <<>>]
             EXCEPT !.tcb[i].sendWait = <<>>]
  BY DEF Unbuilt
<1> HIDE DEF k, m, n, t, u
<1> QED
  BY <1>1, <1>2, <1>3, <1>4, <1>5

Calling(s, i, ip, port, r) ==
    [Goto(s, i, "Syn_Sent") EXCEPT !.sock[i].ip = ip, !.sock[i].dport = port,
                                   !.sock[i].connectWait = r]

CallingOn(c, ip, port, r) ==
    [c EXCEPT !.state = "Syn_Sent", !.ip = ip, !.dport = port, !.connectWait = r]

LEMMA CallingSocket ==
    ASSUME NEW A, NEW s \in HostState(A), NEW i \in Ids, NEW ip, NEW port, NEW r
    PROVE  Calling(s, i, ip, port, r)
           = [s EXCEPT !.sock[i] = CallingOn(s.sock[i], ip, port, r)]
<1> DEFINE k == [s.sock[i] EXCEPT !.state = "Syn_Sent"]
           m == [k EXCEPT !.ip = ip]
           n == [m EXCEPT !.dport = port]
           o == [n EXCEPT !.connectWait = r]
           t == [s EXCEPT !.sock[i] = k]
           u == [s EXCEPT !.sock[i] = m]
           v == [s EXCEPT !.sock[i] = n]
           w == [s EXCEPT !.sock[i] = o]
<1>1. t = [s EXCEPT !.sock[i].state = "Syn_Sent"]
  OBVIOUS
<1>2. u = [t EXCEPT !.sock[i].ip = ip]
  <2> HIDE DEF k
  <2>1. t.sock[i] = k /\ s.sock \in [Ids -> Socket(A)]
    BY DEF HostState
  <2>2. [t.sock EXCEPT ![i] = m] = u.sock
    BY <2>1 DEF HostState
  <2> QED
    BY <2>1, <2>2 DEF HostState
<1>3. v = [u EXCEPT !.sock[i].dport = port]
  <2> HIDE DEF k, m
  <2>1. u.sock[i] = m /\ s.sock \in [Ids -> Socket(A)]
    BY DEF HostState
  <2>2. [u.sock EXCEPT ![i] = n] = v.sock
    BY <2>1 DEF HostState
  <2> QED
    BY <2>1, <2>2 DEF HostState
<1>4. w = [v EXCEPT !.sock[i].connectWait = r]
  <2> HIDE DEF k, m, n
  <2>1. v.sock[i] = n /\ s.sock \in [Ids -> Socket(A)]
    BY DEF HostState
  <2>2. [v.sock EXCEPT ![i] = o] = w.sock
    BY <2>1 DEF HostState
  <2> QED
    BY <2>1, <2>2 DEF HostState
<1>5. o = CallingOn(s.sock[i], ip, port, r)
  BY DEF CallingOn
<1>6. Calling(s, i, ip, port, r)
      = [[[[s EXCEPT !.sock[i].state = "Syn_Sent"]
              EXCEPT !.sock[i].ip = ip]
              EXCEPT !.sock[i].dport = port]
              EXCEPT !.sock[i].connectWait = r]
  BY DEF Calling, Goto
<1> HIDE DEF k, m, n, o, t, u, v
<1> QED
  BY <1>1, <1>2, <1>3, <1>4, <1>5, <1>6

LEMMA FreeCallsIs ==
    ASSUME NEW A, NEW s \in HostState(A), NEW i \in Ids
    PROVE  /\ FreeCalls(s, i) \in HostState(A) /\ Quiet(s, FreeCalls(s, i))
           /\ FreeCalls(s, i).tcb = s.tcb
<1> DEFINE calls == {s.sock[i].connectWait, s.sock[i].closeWait} \cup Range(s.sock[i].acceptWait)
           u == Fail(s, calls)
           k == [u.sock[i] EXCEPT !.connectWait = Null, !.closeWait = Null, !.acceptWait = <<>>]
           t == [u EXCEPT !.sock[i] = k]
<1>1. u \in HostState(A) /\ Apart(s, u)
  BY FailIs
<1>2. FreeCalls(s, i) = t
  <2>1. FreeCalls(s, i) = Uncalled(u, i)
    BY DEF FreeCalls, Uncalled
  <2> HIDE DEF u
  <2> QED
    BY <1>1, <2>1, FreedSocket
<1> HIDE DEF u
<1>3. u.sock[i] \in Socket(A) /\ <<>> \in Seq(Requests)
  BY <1>1, SockFields
<1> HIDE DEF calls
<1>4. /\ k \in Socket(A) /\ k.state = u.sock[i].state /\ k.ip = u.sock[i].ip
      /\ k.sport = u.sock[i].sport /\ k.dport = u.sock[i].dport
  BY <1>3 DEF Socket
<1> HIDE DEF k
<1>5. t \in HostState(A) /\ Quiet(u, t) /\ t.tcb = u.tcb

  BY <1>1, <1>4, WaitsIs
<1> HIDE DEF t
<1>6. Quiet(s, u)
  BY <1>1, QuietSame
<1> QED
  BY <1>1, <1>2, <1>5, <1>6, QuietTrans DEF Apart

LEMMA QueueListenIs ==
    ASSUME NEW A, NEW s \in HostState(A), NEW l \in Ids, NEW i \in Ids
    PROVE  QueueListen(s, l, i) \in HostState(A) /\ Quiet(s, QueueListen(s, l, i))
<1> DEFINE calls == s.sock[l].acceptWait
<1>1. s.sock[l] \in Socket(A) /\ calls \in Seq(Requests) /\ s.sock[l].listenWait \in Seq(Ids)
  BY SockFields
<1>2. CASE calls = <<>>
  <2> DEFINE k == [s.sock[l] EXCEPT !.listenWait = Append(@, i)]
  <2>1. QueueListen(s, l, i) = [s EXCEPT !.sock[l] = k]
    BY <1>2 DEF QueueListen
  <2>2. Append(s.sock[l].listenWait, i) \in Seq(Ids)
    BY <1>1
  <2>3. /\ k \in Socket(A) /\ k.state = s.sock[l].state /\ k.ip = s.sock[l].ip
        /\ k.sport = s.sock[l].sport /\ k.dport = s.sock[l].dport
    BY <1>1, <2>2 DEF Socket
  <2> HIDE DEF k
  <2> QED
    BY <2>1, <2>3, WaitsIs
<1>3. CASE calls # <<>>
  <2> DEFINE k == [s.sock[l] EXCEPT !.acceptWait = Tail(@)]
             u == [s EXCEPT !.open = @ \ {Head(calls)}, !.owned = @ \cup {i}]
             t == [u EXCEPT !.sock[l] = k]
  <2>1. QueueListen(s, l, i) = t
    BY <1>3 DEF QueueListen, HostState
  <2>2. u \in HostState(A) /\ Apart(s, u)
    BY DEF HostState, Apart
  <2>3. Tail(calls) \in Seq(Requests)
    BY <1>1, <1>3
  <2>4. /\ k \in Socket(A) /\ k.state = s.sock[l].state /\ k.ip = s.sock[l].ip
        /\ k.sport = s.sock[l].sport /\ k.dport = s.sock[l].dport
    BY <1>1, <2>3 DEF Socket
  <2> HIDE DEF k, u
  <2>5. u.sock[l] = s.sock[l]
    BY <2>2 DEF Apart
  <2>6. t \in HostState(A) /\ Quiet(u, t)
    BY <2>2, <2>4, <2>5, WaitsIs
  <2> HIDE DEF t
  <2>7. Quiet(s, u)
    BY <2>2, QuietSame
  <2> QED
    BY <2>1, <2>6, <2>7, QuietTrans
<1> QED
  BY <1>2, <1>3

-----------------------------------------------------------------------------
(* The handlers that close or open a connection that a socket stands for.  *)

\* Sockets in these states stand for no connection.
Dormant == {"Nil", "Closed", "Listening"}

\* Socket i has a backend, if it is open.
Backed(s, i) == State(s, i) = "Established" => i < s.size /\ s.tcb[i].live

\* From s to t no socket begins to stand for a connection, to listen, or to be
\* used, and none that opens is without a backend.
Calm(s, t) ==
    /\ t.size >= s.size
    /\ \A j \in Ids :
        /\ Conn(t, j) = Conn(s, j)
        /\ State(s, j) \in Dormant => State(t, j) \in Dormant
        /\ State(t, j) = "Listening" => State(s, j) = "Listening"
        /\ State(s, j) = "Nil" => State(t, j) = "Nil"
        /\ Backed(s, j) => Backed(t, j)

LEMMA QuietCalm ==
    ASSUME NEW A, NEW s \in HostState(A), NEW t, Quiet(s, t)
    PROVE  Calm(s, t)
<1>1. s.size \in Int
  BY DEF HostState
<1> QED
  BY <1>1 DEF Calm, Quiet, Backed

LEMMA CalmTrans ==
    ASSUME NEW A, NEW s \in HostState(A), NEW t \in HostState(A), NEW u \in HostState(A),
           Calm(s, t), Calm(t, u)
    PROVE  Calm(s, u)
<1>1. s.size \in Int /\ t.size \in Int /\ u.size \in Int
  BY DEF HostState
<1> QED
  BY <1>1 DEF Calm

\* A handler that changes socket i only, in these ways.
LEMMA TouchesCalm ==
    ASSUME NEW A, NEW s \in HostState(A), NEW t \in HostState(A), NEW i \in Ids,
           Touches(s, t, i),
           State(s, i) \in Dormant => State(t, i) \in Dormant,
           State(t, i) = "Listening" => State(s, i) = "Listening",
           State(s, i) = "Nil" => State(t, i) = "Nil",
           Backed(t, i)
    PROVE  Calm(s, t)
<1>1. s.size \in Int /\ t.size \in Int /\ \A j \in Ids : j \in Int
  BY BoundsAre DEF HostState
<1>2. ASSUME NEW j \in Ids \ {i}, Backed(s, j)
      PROVE  Backed(t, j)
  BY <1>1, <1>2 DEF Touches, Backed
<1> QED
  BY <1>2 DEF Calm, Touches

LEMMA EmptyBlockIs ==
    ASSUME NEW A, Nat \subseteq A
    PROVE  EmptyBlock \in Block(A)
<1>1. <<>> \in Seq(Requests) /\ 0 \in A
  OBVIOUS
<1> QED
  BY <1>1 DEF Block, EmptyBlock

LEMMA BackEstablishIs ==

    ASSUME NEW A, Nat \subseteq A, NEW s \in HostState(A), NEW i \in Ids
    PROVE  LET t == BackEstablish(s, i) IN
           /\ t \in HostState(A) /\ Touches(s, t, i) /\ t.sock = s.sock
           /\ i < t.size /\ t.tcb[i].live
<1> DEFINE b == [EmptyBlock EXCEPT !.live = TRUE]
           size == IF s.size > i THEN s.size ELSE i + 1
           u == [s EXCEPT !.size = size]
           t == [u EXCEPT !.tcb[i] = b]
<1>1. s.size \in 0..MaxSockets /\ MaxSockets \in Nat /\ i \in Nat /\ i + 1 \in 0..MaxSockets
  BY BoundsAre DEF HostState
<1>2. size \in 0..MaxSockets /\ size >= s.size /\ i < size
  BY <1>1
<1>3. BackEstablish(s, i) = t
  BY DEF BackEstablish, HostState
<1>4. b \in Block(A) /\ b.live
  <2>1. EmptyBlock \in Block(A)
    BY EmptyBlockIs
  <2> QED
    BY <2>1 DEF Block
<1> HIDE DEF b, size
<1>5. /\ u \in HostState(A) /\ u.size = size /\ u.sock = s.sock /\ u.tcb = s.tcb
  BY <1>2 DEF HostState
<1> HIDE DEF u
<1>6. /\ t \in HostState(A) /\ t.tcb[i] = b /\ \A j \in Ids \ {i} : t.tcb[j] = u.tcb[j]
      /\ t.sock = u.sock /\ t.size = u.size
  BY <1>4, <1>5, TcbIs
<1> HIDE DEF t
<1>7. Touches(s, t, i)
  BY <1>2, <1>5, <1>6 DEF Touches, Conn, State
<1> QED
  BY <1>2, <1>3, <1>4, <1>5, <1>6, <1>7

LEMMA BackFreeIs ==
    ASSUME NEW A, NEW s \in HostState(A), NEW i \in Ids
    PROVE  LET t == BackFree(s, i) IN
           t \in HostState(A) /\ Touches(s, t, i) /\ t.sock = s.sock
<1>1. s.size \in Int
  BY DEF HostState
<1>2. CASE i >= s.size
  <2>1. BackFree(s, i) = [s EXCEPT !.crashed = TRUE]
    BY <1>2 DEF BackFree
  <2> DEFINE t == [s EXCEPT !.crashed = TRUE]
  <2>2. t \in HostState(A) /\ Apart(s, t)
    BY DEF HostState, Apart
  <2> HIDE DEF t
  <2>3. Touches(s, t, i)
    BY <2>2, QuietSame, QuietTouches
  <2> QED
    BY <2>1, <2>2, <2>3 DEF t, Apart
<1>3. CASE ~(i >= s.size)
  <2> DEFINE calls == Range(s.tcb[i].wait \o s.tcb[i].sendWait)
             u == Fail(s, calls)
             b == [u.tcb[i] EXCEPT !.live = FALSE, !.wait = <<>>, !.sendWait = <<>>]
             t == [u EXCEPT !.tcb[i] = b]
  <2>1. u \in HostState(A) /\ Apart(s, u)
    BY FailIs
  <2>2. BackFree(s, i) = t
    <3>1. BackFree(s, i) = Unbuilt(u, i)
      BY <1>3 DEF BackFree, Unbuilt
    <3> HIDE DEF u
    <3> QED
      BY <2>1, <3>1, FreedBlock
  <2> HIDE DEF u, calls
  <2>3. u.tcb[i] \in Block(A) /\ <<>> \in Seq(Requests)
    BY <2>1, BlockFields
  <2>4. b \in Block(A)
    BY <2>3 DEF Block
  <2> HIDE DEF b
  <2>5. /\ t \in HostState(A) /\ \A j \in Ids \ {i} : t.tcb[j] = u.tcb[j]
        /\ t.sock = u.sock /\ t.size = u.size
    BY <2>1, <2>4, TcbIs
  <2> HIDE DEF t
  <2>6. Touches(s, t, i)
    BY <1>1, <2>1, <2>5 DEF Touches, Apart, Conn, State
  <2> QED
    BY <2>1, <2>2, <2>5, <2>6 DEF Apart
<1> QED
  BY <1>2, <1>3

LEMMA CompleteCloseIs ==
    ASSUME NEW A, Nat \subseteq A, NEW s \in HostState(A), NEW i \in Ids
    PROVE  LET t == CompleteClose(s, i) IN
           t \in HostState(A) /\ Touches(s, t, i) /\ State(t, i) = "Fin_Wait1"
<1> DEFINE u == Goto(s, i, "Fin_Wait1")
           t == SendShort(u, i, "Fin")
<1>1. "Fin_Wait1" \in SocketStates /\ "Fin" \in Flags
  BY DEF SocketStates, Flags
<1>2. u \in HostState(A) /\ Touches(s, u, i) /\ State(u, i) = "Fin_Wait1"
  BY <1>1, GotoIs
<1>3. CompleteClose(s, i) = t
  BY DEF CompleteClose
<1> HIDE DEF u
<1>4. t \in HostState(A) /\ Apart(u, t)
  BY <1>1, <1>2, SendShortIs
<1> HIDE DEF t
<1>5. Touches(u, t, i) /\ State(t, i) = State(u, i)
  BY <1>2, <1>4, QuietSame, QuietTouches DEF Apart, State
<1> QED
  BY <1>2, <1>3, <1>4, <1>5, TouchesTrans

\* Closing is calm: the connection is open before, and its socket is not after,
\* or nothing has changed.
LEMMA BackCloseIs ==
    ASSUME NEW A, Nat \subseteq A, NEW s \in HostState(A), NEW i \in Ids,
           State(s, i) = "Established"
    PROVE  BackClose(s, i) \in HostState(A) /\ Calm(s, BackClose(s, i))
<1>1. CASE s.tcb[i].acked = s.tcb[i].sent
  <2> DEFINE t == CompleteClose(s, i)
  <2>1. t \in HostState(A) /\ Touches(s, t, i) /\ State(t, i) = "Fin_Wait1"
    BY CompleteCloseIs
  <2>2. BackClose(s, i) = t
    BY <1>1 DEF BackClose
  <2> HIDE DEF t
  <2>3. Backed(t, i) /\ State(s, i) \notin Dormant
    BY <2>1 DEF Backed, Dormant
  <2>4. Calm(s, t)
    BY <2>1, <2>3, TouchesCalm DEF Dormant
  <2> QED
    BY <2>1, <2>2, <2>4
<1>2. CASE s.tcb[i].acked # s.tcb[i].sent
  <2> DEFINE b == [s.tcb[i] EXCEPT !.fin = TRUE]
             t == [s EXCEPT !.tcb[i] = b]
  <2>1. BackClose(s, i) = t
    BY <1>2 DEF BackClose
  <2>2. s.tcb[i] \in Block(A)
    BY BlockFields
  <2>3. b \in Block(A) /\ b.live = s.tcb[i].live
    BY <2>2 DEF Block
  <2> HIDE DEF b
  <2>4. t \in HostState(A) /\ Quiet(s, t)
    BY <2>3, CountsIs
  <2> QED
    BY <2>1, <2>4, QuietCalm
<1> QED
  BY <1>1, <1>2

LEMMA BackAckIs ==
    ASSUME NEW A, Nat \subseteq A, NEW s \in HostState(A), NEW i \in Ids, NEW n \in A,
           State(s, i) = "Established"
    PROVE  BackAck(s, i, n) \in HostState(A) /\ Calm(s, BackAck(s, i, n))
<1> DEFINE b == [s.tcb[i] EXCEPT !.acked = n]
           u == [s EXCEPT !.tcb[i] = b]
           t == ResolveSends(u, i)
           v == BackFree(t, i)
           z == CompleteClose(v, i)
<1>1. s.tcb[i] \in Block(A)
  BY BlockFields
<1>2. b \in Block(A) /\ b.live = s.tcb[i].live
  BY <1>1 DEF Block
<1>3. BackAck(s, i, n) \in {s, t, z}
  BY DEF BackAck
<1> HIDE DEF b
<1>4. u \in HostState(A) /\ Quiet(s, u)
  BY <1>2, CountsIs
<1> HIDE DEF u
<1>5. t \in HostState(A) /\ Quiet(u, t)
  BY <1>4, ResolveSendsIs
<1> HIDE DEF t
<1>6. Quiet(s, t)
  BY <1>4, <1>5, QuietTrans
<1>7. v \in HostState(A) /\ Touches(t, v, i)
  BY <1>5, BackFreeIs
<1> HIDE DEF v
<1>8. z \in HostState(A) /\ Touches(v, z, i) /\ State(z, i) = "Fin_Wait1"
  BY <1>7, CompleteCloseIs
<1> HIDE DEF z
<1>9. Touches(s, t, i)
  BY <1>6, QuietTouches
<1>10. Touches(s, z, i)
  BY <1>5, <1>7, <1>8, <1>9, TouchesTrans
<1>11. Backed(z, i) /\ State(s, i) \notin Dormant
  BY <1>8 DEF Backed, Dormant
<1>12. Calm(s, z)
  BY <1>8, <1>10, <1>11, TouchesCalm DEF Dormant
<1>13. Calm(s, t) /\ Calm(s, s)
  <2>1. Quiet(s, s)
    BY DEF Quiet
  <2> QED
    BY <1>6, <2>1, QuietCalm
<1> QED
  BY <1>3, <1>5, <1>8, <1>12, <1>13

-----------------------------------------------------------------------------
(* Resetting.                                                              *)

LEMMA ResetQueuedIs ==
    ASSUME NEW A, Nat \subseteq A, NEW s \in HostState(A), NEW i \in Ids
    PROVE  ResetQueued(s, i) \in HostState(A) /\ Calm(s, ResetQueued(s, i))
<1> DEFINE r == SendShort(s, i, "Rst")
           c == FreeCalls(r, i)
           f == BackFree(c, i)
           t == IF State(s, i) \in {"Listening", "Closed"} THEN r ELSE f
           u == Goto(t, i, "Nil")
<1>1. ResetQueued(s, i) = u
  BY DEF ResetQueued
<1>2. "Rst" \in Flags /\ "Nil" \in SocketStates
  BY DEF Flags, SocketStates
<1>3. r \in HostState(A) /\ Apart(s, r)
  BY <1>2, SendShortIs
<1> HIDE DEF r
<1>4. c \in HostState(A) /\ Quiet(r, c)
  BY <1>3, FreeCallsIs
<1> HIDE DEF c
<1>5. f \in HostState(A) /\ Touches(c, f, i)
  BY <1>4, BackFreeIs
<1> HIDE DEF f
<1>6. Touches(s, r, i) /\ Touches(r, c, i)
  BY <1>3, <1>4, QuietSame, QuietTouches
<1>7. Touches(s, c, i)
  BY <1>3, <1>4, <1>6, TouchesTrans
<1>8. Touches(s, f, i)
  BY <1>4, <1>5, <1>7, TouchesTrans
<1>9. t \in HostState(A) /\ Touches(s, t, i)
  BY <1>3, <1>5, <1>6, <1>8
<1> HIDE DEF t
<1>10. u \in HostState(A) /\ Touches(t, u, i) /\ State(u, i) = "Nil"
  BY <1>2, <1>9, GotoIs
<1> HIDE DEF u
<1>11. Touches(s, u, i)
  BY <1>9, <1>10, TouchesTrans
<1>12. Backed(u, i) /\ State(u, i) \in Dormant
  BY <1>10 DEF Backed, Dormant
<1>13. Calm(s, u)
  BY <1>10, <1>11, <1>12, TouchesCalm
<1> QED
  BY <1>1, <1>10, <1>13

\* The recursive function of ResetAll exists, and what each reset keeps it keeps.
LEMMA ResetAllStays ==
    ASSUME NEW T, NEW s \in T, NEW queue \in Seq(Ids),
           \A t \in T, j \in Ids : ResetQueued(t, j) \in T
    PROVE  ResetAll(s, queue) \in T
<1> DEFINE n == Len(queue)
           R == [k \in 0..n |-> T]
           f == [x \in (1..n) \X T |-> ResetQueued(x[2], queue[x[1]])]
           Body(g) == [k \in 0..n |-> IF k = 0 THEN s ELSE ResetQueued(g[k - 1], queue[k])]
           all == CHOOSE g : g = Body(g)
<1>1. n \in Nat /\ \A k \in 1..n : queue[k] \in Ids
  OBVIOUS
<1>2. s \in R[0]
  BY <1>1
<1>3. ResetAll(s, queue) = all[n]
  BY DEF ResetAll
<1> HIDE DEF n
<1>4. ASSUME NEW k \in 1..n, NEW t \in R[k - 1]
      PROVE  ResetQueued(t, queue[k]) \in R[k] /\ f[<<k, t>>] = ResetQueued(t, queue[k])
  <2>1. k - 1 \in 0..n /\ k \in 0..n
    BY <1>1
  <2>2. t \in T
    BY <2>1
  <2>3. <<k, t>> \in (1..n) \X T
    BY <2>2
  <2> QED
    BY <1>1, <2>1, <2>2, <2>3
<1> HIDE DEF R, f
<1>5. \A k \in 1..n : \A t \in R[k - 1] : f[<<k, t>>] \in R[k]
  BY <1>4
<1>6. PICK g : g = [k \in 0..n |-> g[k]] /\ Follows(g, n, f, s)
  BY <1>1, <1>2, <1>5, FoldExists DEF n
<1>7. \A k \in 0..n : g[k] \in R[k]
  <2>1. g[0] \in R[0] /\ \A k \in 1..n : g[k - 1] \in R[k - 1] => g[k] \in R[k]
    BY <1>2, <1>5, <1>6 DEF Follows
  <2> QED
    BY <1>1, <2>1, FoldStays DEF n
<1>8. g = Body(g)
  <2>1. ASSUME NEW k \in 0..n
        PROVE  g[k] = Body(g)[k]
    <3>1. CASE k = 0
      BY <1>6, <3>1 DEF Follows
    <3>2. CASE k # 0
      <4>1. k \in 1..n /\ k - 1 \in 0..n
        BY <1>1, <3>2 DEF n
      <4>2. g[k] = f[<<k, g[k - 1]>>] /\ g[k - 1] \in R[k - 1]
        BY <1>6, <1>7, <4>1 DEF Follows
      <4> QED
        BY <1>4, <3>2, <4>1, <4>2
    <3> QED
      BY <3>1, <3>2
  <2> QED
    BY <1>6, <2>1
<1>9. all = Body(all)
  BY <1>8
<1> HIDE DEF all
<1>10. all[0] = s /\ \A k \in 1..n : all[k] = ResetQueued(all[k - 1], queue[k])
  <2>1. 0 \in 0..n /\ \A k \in 1..n : k \in 0..n /\ k # 0
    BY <1>1 DEF n
  <2> QED
    BY <1>9, <2>1
<1>11. all[0] \in R[0] /\ \A k \in 1..n : all[k - 1] \in R[k - 1] => all[k] \in R[k]
  BY <1>2, <1>4, <1>10
<1>12. \A k \in 0..n : all[k] \in R[k]
  BY <1>1, <1>11, FoldStays DEF n
<1>13. n \in 0..n
  BY <1>1 DEF n
<1>14. all[n] \in T
  BY <1>12, <1>13 DEF R
<1> QED
  BY <1>3, <1>14

LEMMA ResetAllIs ==
    ASSUME NEW A, Nat \subseteq A, NEW s \in HostState(A), NEW queue \in Seq(Ids)
    PROVE  ResetAll(s, queue) \in HostState(A) /\ Calm(s, ResetAll(s, queue))
<1> DEFINE T == {t \in HostState(A) : Calm(s, t)}
<1>1. ASSUME NEW t \in T, NEW j \in Ids
      PROVE  ResetQueued(t, j) \in T
  <2>1. ResetQueued(t, j) \in HostState(A) /\ Calm(t, ResetQueued(t, j))
    BY ResetQueuedIs
  <2> QED
    BY <2>1, CalmTrans
<1>2. s \in T
  <2>1. Quiet(s, s)
    BY DEF Quiet
  <2> QED
    BY <2>1, QuietCalm
<1> HIDE DEF T
<1>3. ResetAll(s, queue) \in T
  BY <1>1, <1>2, ResetAllStays
<1> QED
  BY <1>3 DEF T

LEMMA FreeWaitIs ==
    ASSUME NEW A, Nat \subseteq A, NEW s \in HostState(A), NEW i \in Ids
    PROVE  FreeWait(s, i) \in HostState(A) /\ Calm(s, FreeWait(s, i))
<1> DEFINE queue == s.sock[i].listenWait
           c == FreeCalls(s, i)
           r == ResetAll(c, queue)
           k == [r.sock[i] EXCEPT !.listenWait = <<>>]
           t == [r EXCEPT !.sock[i] = k]
<1>1. FreeWait(s, i) = t
  BY DEF FreeWait
<1>2. queue \in Seq(Ids)
  BY SockFields
<1>3. c \in HostState(A) /\ Quiet(s, c)
  BY FreeCallsIs
<1> HIDE DEF c, queue
<1>4. r \in HostState(A) /\ Calm(c, r)
  BY <1>2, <1>3, ResetAllIs
<1> HIDE DEF r
<1>5. r.sock[i] \in Socket(A) /\ <<>> \in Seq(Ids)
  BY <1>4, SockFields
<1>6. /\ k \in Socket(A) /\ k.state = r.sock[i].state /\ k.ip = r.sock[i].ip
      /\ k.sport = r.sock[i].sport /\ k.dport = r.sock[i].dport
  BY <1>5 DEF Socket
<1> HIDE DEF k
<1>7. t \in HostState(A) /\ Quiet(r, t)
  BY <1>4, <1>6, WaitsIs
<1> HIDE DEF t
<1>8. Calm(s, c) /\ Calm(r, t)
  BY <1>3, <1>4, <1>7, QuietCalm
<1>9. Calm(s, r)
  BY <1>3, <1>4, <1>8, CalmTrans
<1>10. Calm(s, t)
  BY <1>4, <1>7, <1>8, <1>9, CalmTrans
<1> QED
  BY <1>1, <1>7, <1>10

\* Cleaning up the backend of a socket that is not open.
LEMMA BackFreeCalm ==
    ASSUME NEW A, NEW s \in HostState(A), NEW i \in Ids, State(s, i) # "Established"
    PROVE  LET t == BackFree(s, i) IN
           t \in HostState(A) /\ Calm(s, t) /\ \A j \in Ids : State(t, j) = State(s, j)
<1> DEFINE t == BackFree(s, i)
<1>1. t \in HostState(A) /\ Touches(s, t, i) /\ t.sock = s.sock
  BY BackFreeIs
<1> HIDE DEF t
<1>2. \A j \in Ids : State(t, j) = State(s, j)
  BY <1>1 DEF State
<1>3. Backed(t, i)
  BY <1>2 DEF Backed
<1>4. Calm(s, t)
  BY <1>1, <1>2, <1>3, TouchesCalm
<1> QED
  BY <1>1, <1>2, <1>4 DEF t

\* Leaving for a state that is neither open nor listening.
LEMMA GotoCalm ==
    ASSUME NEW A, NEW s \in HostState(A), NEW i \in Ids,
           NEW state \in SocketStates \ {"Established", "Listening"},
           State(s, i) \in Dormant => state \in Dormant,
           State(s, i) = "Nil" => state = "Nil"
    PROVE  LET t == Goto(s, i, state) IN
           t \in HostState(A) /\ Calm(s, t) /\ State(t, i) = state
<1> DEFINE t == Goto(s, i, state)
<1>1. t \in HostState(A) /\ Touches(s, t, i) /\ State(t, i) = state
  BY GotoIs
<1> HIDE DEF t
<1>2. Backed(t, i)
  BY <1>1 DEF Backed
<1>3. Calm(s, t)
  BY <1>1, <1>2, TouchesCalm
<1> QED
  BY <1>1, <1>3 DEF t

LEMMA ResetSocketIs ==
    ASSUME NEW A, Nat \subseteq A, NEW s \in HostState(A), NEW i \in Ids, State(s, i) # "Nil"
    PROVE  ResetSocket(s, i) \in HostState(A) /\ Calm(s, ResetSocket(s, i))
<1> DEFINE g == Goto(s, i, "Closed")
           w == FreeWait(g, i)
           t == BackFree(w, i)
<1>1. ResetSocket(s, i) \in {s, t}
  BY DEF ResetSocket
<1>2. /\ "Closed" \in SocketStates \ {"Established", "Listening"}
      /\ "Closed" \in Dormant
  BY DEF SocketStates, Dormant
<1>3. g \in HostState(A) /\ Calm(s, g) /\ State(g, i) = "Closed"
  BY <1>2, GotoCalm
<1> HIDE DEF g
<1>4. w \in HostState(A) /\ Calm(g, w)
  BY <1>3, FreeWaitIs
<1> HIDE DEF w
<1>5. State(w, i) # "Established"
  BY <1>2, <1>3, <1>4 DEF Calm, Dormant
<1>6. t \in HostState(A) /\ Calm(w, t)
  BY <1>4, <1>5, BackFreeCalm
<1> HIDE DEF t
<1>7. Calm(s, w)
  BY <1>3, <1>4, CalmTrans
<1>8. Calm(s, t)
  BY <1>4, <1>6, <1>7, CalmTrans
<1>9. Calm(s, s)
  <2>1. Quiet(s, s)
    BY DEF Quiet
  <2> QED
    BY <2>1, QuietCalm
<1> QED
  BY <1>1, <1>6, <1>8, <1>9

-----------------------------------------------------------------------------
(* What a step may do to a host: what is calm, or one socket begins to be  *)
(* used, to listen, or to stand for a connection.                          *)

\* From s to t only socket i changes.
OnlySocket(s, t, i) ==
    /\ t.size >= s.size
    /\ \A j \in Ids \ {i} : /\ Conn(t, j) = Conn(s, j) /\ State(t, j) = State(s, j)
                            /\ t.tcb[j].live = s.tcb[j].live

\* New takes an unused socket for a port no other socket has.
Begins(s, t, i) ==
    /\ State(s, i) = "Nil" /\ State(t, i) = "Closed"
    /\ Bound(s, t.sock[i].sport) = {}

\* Listen, where the socket was never a connection.
Listens(h, s, t, i) ==
    /\ "Listen" \in Methods[h]
    /\ State(s, i) = "Closed" /\ State(t, i) = "Listening"
    /\ Conn(t, i) = Conn(s, i) /\ s.sock[i].ip = Nowhere

\* Connect.
Dials(h, s, t, i) ==
    /\ "Connect" \in Methods[h]
    /\ State(s, i) = "Closed" /\ State(t, i) = "Syn_Sent"
    /\ t.sock[i].sport = s.sock[i].sport

\* A SYN that no connection and a listener is found for.
Replies(s, t, i) ==
    /\ State(s, i) = "Nil" /\ State(t, i) = "Syn_Rcvd"
    /\ \E l \in Ids : State(s, l) = "Listening"
    /\ Connected(s, t.sock[i].ip, t.sock[i].sport, t.sock[i].dport) = {}

Opens(h, s, t) ==
    \E i \in Ids :
        /\ OnlySocket(s, t, i)
        /\ Begins(s, t, i) \/ Listens(h, s, t, i) \/ Dials(h, s, t, i) \/ Replies(s, t, i)

\* h leaves behind a state of the right shape, in one of these ways.
Moves(A, h) ==
    \E w, t : /\ Leaves(h, w, t) /\ t \in HostState(A)
              /\ Calm(host[h], t) \/ Opens(h, host[h], t)

LEMMA CalmMoves ==
    ASSUME NEW A, NEW h, NEW w, NEW t \in HostState(A), Leaves(h, w, t), Calm(host[h], t)
    PROVE  Moves(A, h)
BY DEF Moves

LEMMA QuietMoves ==
    ASSUME NEW A, NEW h, host[h] \in HostState(A), NEW w, NEW t \in HostState(A),
           Leaves(h, w, t), Quiet(host[h], t)
    PROVE  Moves(A, h)
BY QuietCalm DEF Moves

LEMMA OpensMoves ==
    ASSUME NEW A, NEW h, NEW w, NEW t \in HostState(A), Leaves(h, w, t),
           Opens(h, host[h], t)
    PROVE  Moves(A, h)
BY DEF Moves

\* A request that is not answered at once gets a number that is free.
LEMMA AsksIs ==
    ASSUME NEW A, NEW h \in Hosts, host[h] \in HostState(A), NEW m, Calls(h, m)
    PROVE  /\ Request(h) \in Requests
           /\ Asks(h) \in HostState(A) /\ Apart(host[h], Asks(h))
<1>1. host[h].open \in SUBSET Requests
  BY DEF HostState
<1> DEFINE free == Requests \ host[h].open
<1>2. free \subseteq Nat /\ free # {}
  BY <1>1, BoundsAre DEF Calls
<1> HIDE DEF free
<1>3. Min(free) \in free
  BY <1>2, MinIs
<1>4. Request(h) \in Requests
  BY <1>3 DEF Request, free
<1> DEFINE O == host[h].open \cup {Request(h)}
<1>5. O \in SUBSET Requests
  BY <1>1, <1>4
<1>6. Asks(h) = [host[h] EXCEPT !.open = O]
  BY DEF Asks
<1> HIDE DEF O
<1> QED
  BY <1>4, <1>5, <1>6, OpenIs

LEMMA MinIn ==
    ASSUME NEW I, I \subseteq Ids, I # {}
    PROVE  Min(I) \in I
BY BoundsAre, MinIs

LEMMA NewMoves ==
    ASSUME NEW A, Nat \cup Ports \subseteq A, NEW h \in Hosts, host[h] \in HostState(A),
           New(h)
    PROVE  Moves(A, h)
<1> DEFINE s == host[h]
           i == Min(Unused(s))
<1>1. i \in Ids /\ State(s, i) = "Nil"
  <2>1. Unused(s) # {} /\ Unused(s) \subseteq Ids
    BY DEF New, Unused
  <2>2. i \in Unused(s)
    BY <2>1, MinIn
  <2> QED
    BY <2>2 DEF Unused
<1>2. PICK port \in Ports :
         /\ Bound(s, port) = {}
         /\ Leaves(h, wire, [Goto(s, i, "Closed") EXCEPT !.sock[i].sport = port,
                                                         !.owned = @ \cup {i}])
  BY DEF New
<1> DEFINE k == [s.sock[i] EXCEPT !.state = "Closed", !.sport = port]
           u == [s EXCEPT !.owned = @ \cup {i}]
           t == [u EXCEPT !.sock[i] = k]
<1> HIDE DEF i
<1>3. s \in HostState(A) /\ s.sock[i] \in Socket(A) /\ port \in A
  BY <1>1, SockFields
<1>4. t = [Goto(s, i, "Closed") EXCEPT !.sock[i].sport = port, !.owned = @ \cup {i}]
  BY <1>1, <1>3 DEF Goto, HostState
<1>5. k \in Socket(A) /\ k.state = "Closed" /\ k.sport = port
  BY <1>3 DEF Socket, SocketStates
<1> HIDE DEF k
<1>6. u \in HostState(A) /\ Apart(s, u)
  BY <1>1, <1>3 DEF HostState, Apart
<1> HIDE DEF u
<1>7. /\ t \in HostState(A) /\ t.sock[i] = k /\ t.tcb = u.tcb /\ t.size = u.size
      /\ \A j \in Ids \ {i} : t.sock[j] = u.sock[j]
  BY <1>1, <1>5, <1>6, SockIs
<1>8. Leaves(h, wire, t)
  BY <1>2, <1>4 DEF i
<1> HIDE DEF t
<1>9. s.size \in Int
  BY DEF HostState
<1>10. OnlySocket(s, t, i)
  BY <1>6, <1>7, <1>9 DEF OnlySocket, Apart, Conn, State
<1>11. Begins(s, t, i)
  BY <1>1, <1>2, <1>5, <1>7 DEF Begins, State
<1> QED
  BY <1>1, <1>7, <1>8, <1>10, <1>11, OpensMoves DEF Opens

LEMMA ListenMoves ==
    ASSUME NEW A, NEW h \in Hosts, host[h] \in HostState(A), NEW i \in Ids,
           NeverConnected(h, i), Listen(h, i)
    PROVE  Moves(A, h)
<1> DEFINE s == host[h]
           t == Goto(s, i, "Listening")
<1>1. "Listening" \in SocketStates
  BY DEF SocketStates
<1>2. t \in HostState(A) /\ Touches(s, t, i) /\ State(t, i) = "Listening"
  BY <1>1, GotoIs
<1>3. Leaves(h, wire, t) /\ "Listen" \in Methods[h] /\ State(s, i) = "Closed"
  BY DEF Listen, Calls
<1> HIDE DEF t
<1>4. OnlySocket(s, t, i)
  BY <1>2 DEF OnlySocket, Touches
<1>5. Listens(h, s, t, i)
  BY <1>2, <1>3 DEF Listens, Touches, NeverConnected
<1> QED
  BY <1>2, <1>3, <1>4, <1>5, OpensMoves DEF Opens

LEMMA ConnectMoves ==
    ASSUME NEW A, Nat \cup Ports \subseteq A, NEW h \in Hosts, host[h] \in HostState(A),
           NEW i \in Ids, Connect(h, i)
    PROVE  Moves(A, h)
<1> DEFINE s == host[h]
           a == Asks(h)
           r == Request(h)
<1>1. State(s, i) = "Closed" /\ "Connect" \in Methods[h]
  BY DEF Connect, Calls
<1>2. r \in Requests /\ a \in HostState(A) /\ Apart(s, a)
  <2>1. Calls(h, "Connect")
    BY DEF Connect
  <2> QED
    BY <2>1, AsksIs
<1>3. PICK ip \in Hosts \ {h}, port \in Ports :
         Leaves(h, wire,
            SendShort([Goto(a, i, "Syn_Sent") EXCEPT
                          !.sock[i].ip = ip, !.sock[i].dport = port,
                          !.sock[i].connectWait = r], i, "Syn"))
  BY DEF Connect
<1> HIDE DEF a, r
<1> DEFINE k == [a.sock[i] EXCEPT !.state = "Syn_Sent", !.ip = ip, !.dport = port,
                                  !.connectWait = r]
           u == [a EXCEPT !.sock[i] = k]
           t == SendShort(u, i, "Syn")
<1>4. a.sock[i] \in Socket(A) /\ port \in A
  BY <1>2, SockFields
<1>5. u = [Goto(a, i, "Syn_Sent") EXCEPT !.sock[i].ip = ip, !.sock[i].dport = port,
                                         !.sock[i].connectWait = r]
  BY <1>2, <1>4 DEF Goto, HostState
<1>6. Leaves(h, wire, t)
  BY <1>3, <1>5
<1>7. k \in Socket(A) /\ k.state = "Syn_Sent" /\ k.sport = a.sock[i].sport
  BY <1>2, <1>4 DEF Socket, SocketStates
<1> HIDE DEF k
<1>8. /\ u \in HostState(A) /\ u.sock[i] = k /\ u.tcb = a.tcb /\ u.size = a.size
      /\ \A j \in Ids \ {i} : u.sock[j] = a.sock[j]
  BY <1>2, <1>7, SockIs
<1> HIDE DEF u
<1>9. t \in HostState(A) /\ Apart(u, t)
  BY <1>8, SendShortIs DEF Flags
<1> HIDE DEF t
<1>10. s.size \in Int
  BY DEF HostState
<1>11. OnlySocket(s, t, i)
  BY <1>2, <1>8, <1>9, <1>10 DEF OnlySocket, Apart, Conn, State
<1>12. Dials(h, s, t, i)
  BY <1>1, <1>2, <1>7, <1>8, <1>9 DEF Dials, Apart, State
<1> QED
  BY <1>6, <1>9, <1>11, <1>12, OpensMoves DEF Opens

LEMMA AcceptMoves ==
    ASSUME NEW A, NEW h \in Hosts, host[h] \in HostState(A), NEW i \in Ids, Accept(h, i)
    PROVE  Moves(A, h)
<1> DEFINE s == host[h]
           queue == s.sock[i].listenWait
           a == Asks(h)
           r == Request(h)
<1>1. r \in Requests /\ a \in HostState(A) /\ Apart(s, a)
  <2>1. Calls(h, "Accept")
    BY DEF Accept
  <2> QED
    BY <2>1, AsksIs
<1>2. s.sock[i] \in Socket(A) /\ queue \in Seq(Ids) /\ s.sock[i].acceptWait \in Seq(Requests)
  BY SockFields
<1>3. CASE Leaves(h, wire, [a EXCEPT !.sock[i].acceptWait = Append(@, r)])
  <2> HIDE DEF a, r
  <2> DEFINE k == [a.sock[i] EXCEPT !.acceptWait = Append(@, r)]
             t == [a EXCEPT !.sock[i] = k]
  <2>1. Leaves(h, wire, t)
    BY <1>3
  <2>2. a.sock[i] = s.sock[i]
    BY <1>1 DEF Apart
  <2>3. Append(s.sock[i].acceptWait, r) \in Seq(Requests)
    BY <1>1, <1>2
  <2>4. /\ k \in Socket(A) /\ k.state = a.sock[i].state /\ k.ip = a.sock[i].ip
        /\ k.sport = a.sock[i].sport /\ k.dport = a.sock[i].dport
    BY <1>2, <2>2, <2>3 DEF Socket
  <2> HIDE DEF k
  <2>5. t \in HostState(A) /\ Quiet(a, t)
    BY <1>1, <2>4, WaitsIs
  <2> HIDE DEF t
  <2>6. Quiet(s, t)
    BY <1>1, <2>5, QuietSame, QuietTrans
  <2> QED
    BY <2>1, <2>5, <2>6, QuietMoves
<1>4. CASE /\ queue # <<>>
           /\ Leaves(h, wire, [s EXCEPT !.sock[i].listenWait = Tail(@),
                                        !.owned = @ \cup {Head(queue)}])
  <2> DEFINE k == [s.sock[i] EXCEPT !.listenWait = Tail(@)]
             u == [s EXCEPT !.owned = @ \cup {Head(queue)}]
             t == [u EXCEPT !.sock[i] = k]
  <2>1. t = [s EXCEPT !.sock[i].listenWait = Tail(@), !.owned = @ \cup {Head(queue)}]
    BY DEF HostState
  <2>2. Leaves(h, wire, t)
    BY <1>4, <2>1
  <2>3. Tail(queue) \in Seq(Ids) /\ Head(queue) \in Ids
    BY <1>2, <1>4
  <2>4. /\ k \in Socket(A) /\ k.state = s.sock[i].state /\ k.ip = s.sock[i].ip
        /\ k.sport = s.sock[i].sport /\ k.dport = s.sock[i].dport
    BY <1>2, <2>3 DEF Socket
  <2>5. u \in HostState(A) /\ Apart(s, u)
    BY <2>3 DEF HostState, Apart
  <2> HIDE DEF k, u
  <2>6. u.sock[i] = s.sock[i]
    BY <2>5 DEF Apart
  <2>7. t \in HostState(A) /\ Quiet(u, t)
    BY <2>4, <2>5, <2>6, WaitsIs
  <2> HIDE DEF t
  <2>8. Quiet(s, t)
    BY <2>5, <2>7, QuietSame, QuietTrans
  <2> QED
    BY <2>2, <2>7, <2>8, QuietMoves
<1> QED
  BY <1>3, <1>4 DEF Accept

LEMMA SendMoves ==
    ASSUME NEW A, Nat \subseteq A, NEW h \in Hosts, host[h] \in HostState(A), NEW i \in Ids,
           Send(h, i)
    PROVE  Moves(A, h)
<1> DEFINE s == host[h]
           a == Asks(h)
           r == Request(h)
<1>1. r \in Requests /\ a \in HostState(A) /\ Apart(s, a)
  <2>1. Calls(h, "Send")
    BY DEF Send
  <2> QED
    BY <2>1, AsksIs
<1>2. CASE Leaves(h, wire, Buffered(s, i, r))
  <2>1. Buffered(s, i, r) \in HostState(A) /\ Quiet(s, Buffered(s, i, r))
    BY BufferedIs
  <2> QED
    BY <1>2, <2>1, QuietMoves
<1>3. CASE Leaves(h, wire, [a EXCEPT !.tcb[i].sendWait = Append(@, r)])
  <2> HIDE DEF a, r
  <2> DEFINE b == [a.tcb[i] EXCEPT !.sendWait = Append(@, r)]
             t == [a EXCEPT !.tcb[i] = b]
  <2>1. Leaves(h, wire, t)
    BY <1>3
  <2>2. a.tcb[i] \in Block(A) /\ a.tcb[i].sendWait \in Seq(Requests)
    BY <1>1, BlockFields
  <2>3. Append(a.tcb[i].sendWait, r) \in Seq(Requests)
    BY <1>1, <2>2
  <2>4. b \in Block(A) /\ b.live = a.tcb[i].live
    BY <2>2, <2>3 DEF Block
  <2> HIDE DEF b
  <2>5. t \in HostState(A) /\ Quiet(a, t)
    BY <1>1, <2>4, CountsIs
  <2> HIDE DEF t
  <2>6. Quiet(s, t)
    BY <1>1, <2>5, QuietSame, QuietTrans
  <2> QED
    BY <2>1, <2>5, <2>6, QuietMoves
<1> QED
  BY <1>2, <1>3 DEF Send

LEMMA RecvMoves ==
    ASSUME NEW A, Nat \subseteq A, NEW h \in Hosts, host[h] \in HostState(A), NEW i \in Ids,
           Recv(h, i)
    PROVE  Moves(A, h)
<1> DEFINE s == host[h]
           a == Asks(h)
           r == Request(h)
<1>1. r \in Requests /\ a \in HostState(A) /\ Apart(s, a)
  <2>1. Calls(h, "Recv")
    BY DEF Recv
  <2> QED
    BY <2>1, AsksIs
<1>2. CASE /\ s.tcb[i].read < s.tcb[i].rcvd
           /\ Leaves(h, wire, [s EXCEPT !.tcb[i].read = @ + 1])
  <2> DEFINE b == [s.tcb[i] EXCEPT !.read = @ + 1]
             t == [s EXCEPT !.tcb[i] = b]
  <2>1. Leaves(h, wire, t)
    BY <1>2
  <2>2. s.tcb[i] \in Block(A) /\ s.tcb[i].read \in Nat /\ s.tcb[i].rcvd \in Nat
    BY BlockFields
  <2>3. s.tcb[i].read + 1 \in Nat /\ s.tcb[i].read + 1 <= s.tcb[i].rcvd
    BY <1>2, <2>2
  <2>4. b \in Block(A) /\ b.live = s.tcb[i].live
    BY <2>2, <2>3 DEF Block
  <2> HIDE DEF b
  <2>5. t \in HostState(A) /\ Quiet(s, t)
    BY <2>4, CountsIs
  <2> QED
    BY <2>1, <2>5, QuietMoves
<1>3. CASE Leaves(h, wire, [a EXCEPT !.tcb[i].wait = Append(@, r)])
  <2> HIDE DEF a, r
  <2> DEFINE b == [a.tcb[i] EXCEPT !.wait = Append(@, r)]
             t == [a EXCEPT !.tcb[i] = b]
  <2>1. Leaves(h, wire, t)
    BY <1>3
  <2>2. a.tcb[i] \in Block(A) /\ a.tcb[i].wait \in Seq(Requests)
    BY <1>1, BlockFields
  <2>3. Append(a.tcb[i].wait, r) \in Seq(Requests)
    BY <1>1, <2>2
  <2>4. b \in Block(A) /\ b.live = a.tcb[i].live
    BY <2>2, <2>3 DEF Block
  <2> HIDE DEF b
  <2>5. t \in HostState(A) /\ Quiet(a, t)
    BY <1>1, <2>4, CountsIs
  <2> HIDE DEF t
  <2>6. Quiet(s, t)
    BY <1>1, <2>5, QuietSame, QuietTrans
  <2> QED
    BY <2>1, <2>5, <2>6, QuietMoves
<1> QED
  BY <1>2, <1>3 DEF Recv

LEMMA CloseMoves ==
    ASSUME NEW A, Nat \subseteq A, NEW h \in Hosts, host[h] \in HostState(A), NEW i \in Ids,
           Close(h, i)
    PROVE  Moves(A, h)
<1> DEFINE s == host[h]
           a == Asks(h)
           r == Request(h)
           waiting == [a EXCEPT !.sock[i].closeWait = r]
<1>1. r \in Requests /\ a \in HostState(A) /\ Apart(s, a)
  <2>1. Calls(h, "Close")
    BY DEF Close
  <2> QED
    BY <2>1, AsksIs
<1>2. waiting \in HostState(A) /\ Quiet(s, waiting)
  <2> HIDE DEF a, r
  <2> DEFINE k == [a.sock[i] EXCEPT !.closeWait = r]
             t == [a EXCEPT !.sock[i] = k]
  <2>1. waiting = t
    OBVIOUS
  <2>2. a.sock[i] \in Socket(A)
    BY <1>1, SockFields
  <2>3. /\ k \in Socket(A) /\ k.state = a.sock[i].state /\ k.ip = a.sock[i].ip
        /\ k.sport = a.sock[i].sport /\ k.dport = a.sock[i].dport
    BY <1>1, <2>2 DEF Socket
  <2> HIDE DEF k
  <2>4. t \in HostState(A) /\ Quiet(a, t)
    BY <1>1, <2>3, WaitsIs
  <2> HIDE DEF t, waiting
  <2> QED
    BY <1>1, <2>1, <2>4, QuietSame, QuietTrans
<1>3. Calm(s, waiting) /\ State(waiting, i) = State(s, i)
  BY <1>2, QuietCalm DEF Quiet
<1>4. CASE /\ State(s, i) \in {"Syn_Sent", "Listening"}
           /\ Leaves(h, wire, Goto(FreeWait(s, i), i, "Closed"))
  <2> DEFINE f == FreeWait(s, i)
             t == Goto(f, i, "Closed")
  <2>1. f \in HostState(A) /\ Calm(s, f)
    BY FreeWaitIs
  <2> HIDE DEF f
  <2>2. State(f, i) = "Nil" \/ "Closed" \in SocketStates \ {"Established", "Listening"}
    BY DEF SocketStates
  <2>3. CASE State(f, i) # "Nil"
    <3>1. t \in HostState(A) /\ Calm(f, t)
      BY <2>1, <2>2, <2>3, GotoCalm DEF Dormant
    <3> HIDE DEF t
    <3>2. Calm(s, t)
      BY <2>1, <3>1, CalmTrans
    <3> QED
      BY <1>4, <3>1, <3>2, CalmMoves DEF t, f
  <2>4. CASE State(f, i) = "Nil"
    <3>1. t \in HostState(A) /\ Touches(f, t, i) /\ State(t, i) = "Closed"
      BY <2>1, GotoIs DEF SocketStates
    <3> HIDE DEF t
    <3>2. s.size \in Int /\ f.size \in Int /\ t.size \in Int /\ \A j \in Ids : j \in Int
      BY <2>1, <3>1, BoundsAre DEF HostState
    <3>3. t.size >= s.size
      BY <2>1, <3>1, <3>2 DEF Calm, Touches
    <3>4. ASSUME NEW j \in Ids
          PROVE  /\ Conn(t, j) = Conn(s, j)
                 /\ State(s, j) \in Dormant => State(t, j) \in Dormant
                 /\ State(t, j) = "Listening" => State(s, j) = "Listening"
                 /\ State(s, j) = "Nil" => State(t, j) = "Nil"
      BY <1>4, <2>1, <3>1 DEF Calm, Touches, Dormant
    <3>5. ASSUME NEW j \in Ids, Backed(f, j)
          PROVE  Backed(t, j)
      BY <3>1, <3>2, <3>5 DEF Touches, Backed
    <3>6. ASSUME NEW j \in Ids, Backed(s, j)
          PROVE  Backed(t, j)
      BY <2>1, <3>5, <3>6 DEF Calm
    <3>7. Calm(s, t)
      BY <3>3, <3>4, <3>6 DEF Calm
    <3> QED
      BY <1>4, <3>1, <3>7, CalmMoves DEF t, f
  <2> QED
    BY <2>3, <2>4

<1>5. CASE State(s, i) = "Established" /\ Leaves(h, wire, BackClose(waiting, i))
  <2> HIDE DEF waiting
  <2>1. BackClose(waiting, i) \in HostState(A) /\ Calm(waiting, BackClose(waiting, i))
    BY <1>2, <1>3, <1>5, BackCloseIs
  <2>2. Calm(s, BackClose(waiting, i))
    BY <1>2, <1>3, <2>1, CalmTrans
  <2> QED
    BY <1>5, <2>1, <2>2, CalmMoves
<1>6. CASE /\ State(s, i) = "Close_Wait"
           /\ Leaves(h, wire, SendShort(BackFree(Goto(waiting, i, "Last_Ack"), i), i, "Fin"))
  <2> HIDE DEF waiting
  <2> DEFINE g == Goto(waiting, i, "Last_Ack")
             f == BackFree(g, i)
             t == SendShort(f, i, "Fin")
  <2>1. /\ "Last_Ack" \in SocketStates \ {"Established", "Listening"}
        /\ State(waiting, i) \notin Dormant
    BY <1>3, <1>6 DEF SocketStates, Dormant
  <2>2. g \in HostState(A) /\ Calm(waiting, g) /\ State(g, i) = "Last_Ack"
    BY <1>2, <2>1, GotoCalm DEF Dormant
  <2> HIDE DEF g
  <2>3. f \in HostState(A) /\ Calm(g, f)
    BY <2>2, BackFreeCalm
  <2> HIDE DEF f
  <2>4. t \in HostState(A) /\ Apart(f, t)
    BY <2>3, SendShortIs DEF Flags
  <2> HIDE DEF t
  <2>5. Calm(f, t)
    BY <2>3, <2>4, QuietSame, QuietCalm
  <2>6. Calm(s, g)
    BY <1>2, <1>3, <2>2, CalmTrans
  <2>7. Calm(s, f)
    BY <2>2, <2>3, <2>6, CalmTrans
  <2>8. Calm(s, t)
    BY <2>3, <2>4, <2>5, <2>7, CalmTrans
  <2> QED
    BY <1>6, <2>4, <2>8, CalmMoves DEF t, f, g
<1>7. CASE /\ State(s, i) \in {"Syn_Rcvd", "Fin_Wait1", "Fin_Wait2", "Closing", "Last_Ack"}
           /\ Leaves(h, wire, ResetSocket(SendShort(s, i, "Rst"), i))
  <2> DEFINE f == SendShort(s, i, "Rst")
             t == ResetSocket(f, i)
  <2>1. f \in HostState(A) /\ Apart(s, f)
    BY SendShortIs DEF Flags
  <2> HIDE DEF f
  <2>2. State(f, i) # "Nil"
    BY <1>7, <2>1 DEF Apart, State
  <2>3. t \in HostState(A) /\ Calm(f, t)
    BY <2>1, <2>2, ResetSocketIs
  <2> HIDE DEF t
  <2>4. Calm(s, f)
    BY <2>1, QuietSame, QuietCalm
  <2>5. Calm(s, t)
    BY <2>1, <2>3, <2>4, CalmTrans
  <2> QED
    BY <1>7, <2>3, <2>5, CalmMoves DEF t, f
<1> QED
  BY <1>4, <1>5, <1>6, <1>7 DEF Close

LEMMA FreeMoves ==
    ASSUME NEW A, NEW h \in Hosts, host[h] \in HostState(A), NEW i \in Ids, Free(h, i)
    PROVE  Moves(A, h)
<1> DEFINE s == host[h]
           g == Goto(s, i, "Nil")
           t == [g EXCEPT !.owned = @ \ {i}]
<1>1. State(s, i) = "Closed" /\ Leaves(h, wire, t)
  BY DEF Free
<1>2. g \in HostState(A) /\ Calm(s, g)
  BY <1>1, GotoCalm DEF SocketStates, Dormant
<1> HIDE DEF g
<1>3. t \in HostState(A) /\ Apart(g, t)
  BY <1>2 DEF HostState, Apart
<1> HIDE DEF t
<1>4. Calm(g, t)
  BY <1>2, <1>3, QuietSame, QuietCalm
<1>5. Calm(s, t)
  BY <1>2, <1>3, <1>4, CalmTrans
<1> QED
  BY <1>1, <1>3, <1>5, CalmMoves

LEMMA TimeOutMoves ==
    ASSUME NEW A, NEW h \in Hosts, host[h] \in HostState(A), NEW i \in Ids,
           host[h].tcb[i].acked + 1 \in A, TimeOut(h, i)
    PROVE  Moves(A, h)
<1> DEFINE s == host[h]
           t == PushMessage(s, i, s.tcb[i].acked + 1)
<1>1. Leaves(h, wire, t)
  BY DEF TimeOut
<1>2. t \in HostState(A) /\ Apart(s, t)
  BY PushMessageIs
<1> HIDE DEF t
<1>3. Quiet(s, t)
  BY <1>2, QuietSame
<1> QED
  BY <1>1, <1>2, <1>3, QuietMoves

-----------------------------------------------------------------------------
(* What a packet does to the host it is for.                               *)

\* A socket that listens never stood for a connection.
ListensNowhere(s) == \A i \in Ids : State(s, i) = "Listening" => s.sock[i].ip = Nowhere

LEMMA RstMoves ==
    ASSUME NEW A, Nat \subseteq A, NEW h \in Hosts, host[h] \in HostState(A), NEW i \in Ids,
           NEW w, State(host[h], i) # "Nil", OnRst(h, i, w)
    PROVE  Moves(A, h)
<1>1. ResetSocket(host[h], i) \in HostState(A) /\ Calm(host[h], ResetSocket(host[h], i))
  BY ResetSocketIs
<1> QED
  BY <1>1, CalmMoves DEF OnRst

\* Opening a connection that waits for it, with its backend.
LEMMA OpeningIs ==
    ASSUME NEW A, Nat \subseteq A, NEW s \in HostState(A), NEW i \in Ids,
           State(s, i) \in {"Syn_Sent", "Syn_Rcvd"}
    PROVE  LET t == BackEstablish(Goto(s, i, "Established"), i) IN
           t \in HostState(A) /\ Calm(s, t)
<1> DEFINE g == Goto(s, i, "Established")
           t == BackEstablish(g, i)
<1>1. g \in HostState(A) /\ Touches(s, g, i) /\ State(g, i) = "Established"
  BY GotoIs DEF SocketStates
<1> HIDE DEF g
<1>2. t \in HostState(A) /\ Touches(g, t, i) /\ t.sock = g.sock /\ i < t.size /\ t.tcb[i].live
  BY <1>1, BackEstablishIs
<1> HIDE DEF t
<1>3. Touches(s, t, i)
  BY <1>1, <1>2, TouchesTrans
<1>4. Backed(t, i) /\ State(t, i) = "Established" /\ State(s, i) \notin Dormant
  BY <1>1, <1>2 DEF Backed, Dormant, State
<1>5. Calm(s, t)
  BY <1>2, <1>3, <1>4, TouchesCalm DEF Dormant
<1> QED
  BY <1>2, <1>5 DEF t, g

LEMMA SynAckMoves ==
    ASSUME NEW A, Nat \subseteq A, NEW h \in Hosts, host[h] \in HostState(A), NEW i \in Ids,
           NEW w, OnSynAck(h, i, w)
    PROVE  Moves(A, h)
<1> DEFINE s == host[h]
           b == BackEstablish(Goto(s, i, "Established"), i)
           r == ReturnConnect(b, i)
           t == SendShort(r, i, "Ack")
<1>1. State(s, i) = "Syn_Sent" /\ Leaves(h, w, t)
  BY DEF OnSynAck
<1>2. b \in HostState(A) /\ Calm(s, b)
  BY <1>1, OpeningIs
<1> HIDE DEF b
<1>3. r \in HostState(A) /\ Quiet(b, r)
  BY <1>2, ReturnConnectIs
<1> HIDE DEF r
<1>4. t \in HostState(A) /\ Apart(r, t)
  BY <1>3, SendShortIs DEF Flags
<1> HIDE DEF t
<1>5. Calm(b, t)
  BY <1>2, <1>3, <1>4, QuietSame, QuietTrans, QuietCalm
<1>6. Calm(s, t)
  BY <1>2, <1>4, <1>5, CalmTrans
<1> QED
  BY <1>1, <1>4, <1>6, CalmMoves

\* A listener is only found for a SYN that no connection is for.
LEMMA SynMoves ==
    ASSUME NEW A, Nat \subseteq A, NEW h \in Hosts, host[h] \in HostState(A),
           ListensNowhere(host[h]), NEW g \in Hosts, NEW p,
           p.sport \in A, p.dport \in A, NEW w,
           NEW i \in IF Connected(host[h], g, p.dport, p.sport) # {}
                     THEN Connected(host[h], g, p.dport, p.sport)
                     ELSE Listeners(host[h], p.dport),
           OnSyn(h, i, g, p, w)
    PROVE  Moves(A, h)
<1> DEFINE s == host[h]
           child == Min(Unused(s))
<1>1. i \in Ids
  BY DEF Connected, Listeners, Bound
<1>2. CASE State(s, i) = "Established" /\ Leaves(h, w, BackData(s, i, p.n))
  <2>1. BackData(s, i, p.n) \in HostState(A) /\ Quiet(s, BackData(s, i, p.n))
    BY <1>1, BackDataIs
  <2> QED
    BY <1>2, <2>1, QuietMoves
<1> DEFINE created == [s EXCEPT !.sock[child] =
                          [@ EXCEPT !.state = "Syn_Rcvd", !.ip = g,
                                    !.sport = s.sock[i].sport, !.dport = p.sport]]
           t == SendShort(created, child, "SynAck")
<1>3. CASE State(s, i) = "Listening" /\ Unused(s) # {} /\ Leaves(h, w, t)
  <2>1. child \in Ids /\ State(s, child) = "Nil"
    <3>1. Unused(s) \subseteq Ids
      BY DEF Unused
    <3>2. child \in Unused(s)
      BY <1>3, <3>1, MinIn
    <3> QED
      BY <3>2 DEF Unused
  <2> HIDE DEF child
  <2>2. /\ s.sock[i].sport = p.dport
        /\ Connected(s, g, p.dport, p.sport) = {}
    <3>1. g # Nowhere
      BY HostsAssumption
    <3>2. s.sock[i].ip = Nowhere
      BY <1>1, <1>3 DEF ListensNowhere
    <3>3. i \notin Connected(s, g, p.dport, p.sport)
      BY <3>1, <3>2 DEF Connected
    <3> QED
      BY <3>3 DEF Listeners, Bound
  <2> DEFINE k == [s.sock[child] EXCEPT !.state = "Syn_Rcvd", !.ip = g,
                                        !.sport = s.sock[i].sport, !.dport = p.sport]
  <2>3. s.sock[child] \in Socket(A) /\ created = [s EXCEPT !.sock[child] = k]
    BY <2>1, SockFields
  <2>4. /\ k \in Socket(A) /\ k.state = "Syn_Rcvd" /\ k.ip = g
        /\ k.sport = p.dport /\ k.dport = p.sport
    BY <2>2, <2>3 DEF Socket, SocketStates
  <2> HIDE DEF k, created
  <2>5. /\ created \in HostState(A) /\ created.sock[child] = k /\ created.tcb = s.tcb
        /\ created.size = s.size /\ \A j \in Ids \ {child} : created.sock[j] = s.sock[j]
    BY <2>1, <2>3, <2>4, SockIs
  <2>6. t \in HostState(A) /\ Apart(created, t)
    BY <2>1, <2>5, SendShortIs DEF Flags
  <2> HIDE DEF t
  <2>7. s.size \in Int
    BY DEF HostState
  <2>8. OnlySocket(s, t, child)
    BY <2>5, <2>6, <2>7 DEF OnlySocket, Apart, Conn, State
  <2>9. Replies(s, t, child)
    BY <1>1, <1>3, <2>1, <2>2, <2>4, <2>5, <2>6 DEF Replies, Apart, State
  <2> QED
    BY <1>3, <2>1, <2>6, <2>8, <2>9, OpensMoves DEF Opens
<1> QED
  BY <1>2, <1>3 DEF OnSyn

LEMMA FinMoves ==
    ASSUME NEW A, Nat \subseteq A, NEW h \in Hosts, host[h] \in HostState(A), NEW i \in Ids,
           NEW w, OnFin(h, i, w)
    PROVE  Moves(A, h)
<1> DEFINE s == host[h]
<1>1. CASE /\ State(s, i) = "Established"
           /\ Leaves(h, w, BackFree(SendShort(Goto(s, i, "Close_Wait"), i, "Ack"), i))
  <2> DEFINE g == Goto(s, i, "Close_Wait")
             u == SendShort(g, i, "Ack")
             t == BackFree(u, i)
  <2>1. g \in HostState(A) /\ Calm(s, g) /\ State(g, i) = "Close_Wait"
    BY <1>1, GotoCalm DEF SocketStates, Dormant
  <2> HIDE DEF g
  <2>2. u \in HostState(A) /\ Apart(g, u)
    BY <2>1, SendShortIs DEF Flags
  <2> HIDE DEF u
  <2>3. State(u, i) # "Established"
    BY <2>1, <2>2 DEF Apart, State
  <2>4. t \in HostState(A) /\ Calm(u, t)
    BY <2>2, <2>3, BackFreeCalm
  <2> HIDE DEF t
  <2>5. Calm(g, u)
    BY <2>1, <2>2, QuietSame, QuietCalm
  <2>6. Calm(s, u)
    BY <2>1, <2>2, <2>5, CalmTrans
  <2>7. Calm(s, t)
    BY <2>2, <2>4, <2>6, CalmTrans
  <2> QED
    BY <1>1, <2>4, <2>7, CalmMoves DEF t, u, g
<1>2. CASE /\ State(s, i) = "Fin_Wait1"
           /\ Leaves(h, w, SendShort(Goto(s, i, "Closing"), i, "Ack"))
  <2> DEFINE g == Goto(s, i, "Closing")
             t == SendShort(g, i, "Ack")
  <2>1. g \in HostState(A) /\ Calm(s, g)
    BY <1>2, GotoCalm DEF SocketStates, Dormant
  <2> HIDE DEF g
  <2>2. t \in HostState(A) /\ Apart(g, t)
    BY <2>1, SendShortIs DEF Flags
  <2> HIDE DEF t
  <2>3. Calm(g, t)
    BY <2>1, <2>2, QuietSame, QuietCalm
  <2>4. Calm(s, t)
    BY <2>1, <2>2, <2>3, CalmTrans
  <2> QED
    BY <1>2, <2>2, <2>4, CalmMoves DEF t, g
<1>3. CASE /\ State(s, i) = "Fin_Wait2"
           /\ Leaves(h, w, SendShort(ReturnClose(Goto(s, i, "Closed"), i), i, "Ack"))
  <2> DEFINE g == Goto(s, i, "Closed")
             r == ReturnClose(g, i)
             t == SendShort(r, i, "Ack")
  <2>1. g \in HostState(A) /\ Calm(s, g)
    BY <1>3, GotoCalm DEF SocketStates, Dormant
  <2> HIDE DEF g
  <2>2. r \in HostState(A) /\ Quiet(g, r)
    BY <2>1, ReturnCloseIs
  <2> HIDE DEF r
  <2>3. t \in HostState(A) /\ Apart(r, t)
    BY <2>2, SendShortIs DEF Flags
  <2> HIDE DEF t
  <2>4. Calm(g, t)
    BY <2>1, <2>2, <2>3, QuietSame, QuietTrans, QuietCalm
  <2>5. Calm(s, t)
    BY <2>1, <2>3, <2>4, CalmTrans
  <2> QED
    BY <1>3, <2>3, <2>5, CalmMoves DEF t, r, g
<1> QED
  BY <1>1, <1>2, <1>3 DEF OnFin

LEMMA AckMoves ==
    ASSUME NEW A, Nat \subseteq A, NEW h \in Hosts, host[h] \in HostState(A), NEW i \in Ids,
           NEW p, p.n \in A, NEW w, OnAck(h, i, p, w)
    PROVE  Moves(A, h)
<1> DEFINE s == host[h]
           listeners == Listeners(s, s.sock[i].sport)
<1>1. CASE State(s, i) = "Established" /\ Leaves(h, w, BackAck(s, i, p.n))
  <2>1. BackAck(s, i, p.n) \in HostState(A) /\ Calm(s, BackAck(s, i, p.n))
    BY <1>1, BackAckIs
  <2> QED
    BY <1>1, <2>1, CalmMoves
<1>2. CASE /\ State(s, i) = "Syn_Rcvd"
           /\ Leaves(h, w, ResetSocket(SendShort(s, i, "Rst"), i))
  <2> DEFINE u == SendShort(s, i, "Rst")
             t == ResetSocket(u, i)
  <2>1. u \in HostState(A) /\ Apart(s, u)
    BY SendShortIs DEF Flags
  <2> HIDE DEF u
  <2>2. State(u, i) # "Nil"
    BY <1>2, <2>1 DEF Apart, State
  <2>3. t \in HostState(A) /\ Calm(u, t)
    BY <2>1, <2>2, ResetSocketIs
  <2> HIDE DEF t
  <2>4. Calm(s, u)
    BY <2>1, QuietSame, QuietCalm
  <2>5. Calm(s, t)
    BY <2>1, <2>3, <2>4, CalmTrans
  <2> QED
    BY <1>2, <2>3, <2>5, CalmMoves DEF t, u
<1>3. CASE /\ State(s, i) = "Syn_Rcvd" /\ listeners # {}
           /\ Leaves(h, w, QueueListen(BackEstablish(Goto(s, i, "Established"), i),
                                       Min(listeners), i))
  <2> DEFINE l == Min(listeners)
             b == BackEstablish(Goto(s, i, "Established"), i)
             t == QueueListen(b, l, i)
  <2>1. l \in Ids
    <3>1. listeners \subseteq Ids
      BY DEF Listeners, Bound
    <3>2. l \in listeners
      BY <1>3, <3>1, MinIn
    <3> QED
      BY <3>1, <3>2
  <2>2. Leaves(h, w, t)
    BY <1>3
  <2> HIDE DEF l
  <2>3. b \in HostState(A) /\ Calm(s, b)
    BY <1>3, OpeningIs
  <2> HIDE DEF b
  <2>4. t \in HostState(A) /\ Quiet(b, t)
    BY <2>1, <2>3, QueueListenIs
  <2> HIDE DEF t
  <2>5. Calm(b, t)
    BY <2>3, <2>4, QuietCalm
  <2>6. Calm(s, t)
    BY <2>3, <2>4, <2>5, CalmTrans
  <2> QED
    BY <2>2, <2>4, <2>6, CalmMoves
<1>4. CASE State(s, i) = "Fin_Wait1" /\ Leaves(h, w, Goto(s, i, "Fin_Wait2"))
  <2> DEFINE t == Goto(s, i, "Fin_Wait2")
  <2>1. t \in HostState(A) /\ Calm(s, t)
    BY <1>4, GotoCalm DEF SocketStates, Dormant
  <2> QED
    BY <1>4, <2>1, CalmMoves
<1>5. CASE /\ State(s, i) \in {"Closing", "Last_Ack"}
           /\ Leaves(h, w, ReturnClose(Goto(s, i, "Closed"), i))
  <2> DEFINE g == Goto(s, i, "Closed")
             t == ReturnClose(g, i)
  <2>1. g \in HostState(A) /\ Calm(s, g)
    BY <1>5, GotoCalm DEF SocketStates, Dormant
  <2> HIDE DEF g
  <2>2. t \in HostState(A) /\ Quiet(g, t)
    BY <2>1, ReturnCloseIs
  <2> HIDE DEF t
  <2>3. Calm(g, t)
    BY <2>1, <2>2, QuietCalm
  <2>4. Calm(s, t)
    BY <2>1, <2>2, <2>3, CalmTrans
  <2> QED
    BY <1>5, <2>2, <2>4, CalmMoves DEF t, g
<1> QED
  BY <1>1, <1>2, <1>3, <1>4, <1>5 DEF OnAck

LEMMA ArrivalMoves ==
    ASSUME NEW A, Nat \subseteq A, NEW g \in Hosts, NEW h \in Hosts,
           host[h] \in HostState(A), ListensNowhere(host[h]),
           Head(wire[<<g, h>>]).sport \in A, Head(wire[<<g, h>>]).dport \in A,
           Head(wire[<<g, h>>]).n \in A,
           PacketArrives(g, h)
    PROVE  Moves(A, h)
<1> DEFINE c == <<g, h>>
           p == Head(wire[c])
           s == host[h]
           connected == Connected(s, g, p.dport, p.sport)
           found == IF connected # {} THEN connected ELSE Listeners(s, p.dport)
           i == Min(found)
           w == Without(c)
<1>1. found \subseteq Ids /\ \A j \in found : State(s, j) # "Nil"
  BY DEF Connected, Listeners, Bound
<1>2. found # {} => i \in found
  BY <1>1, MinIn
<1>3. \/ /\ found = {}
         /\ Leaves(h, w, IF p.flag = "Rst" THEN s ELSE Push(s, g, p.dport, p.sport, "Rst", 0))
      \/ found # {} /\ Leaves(h, w, s)
      \/ found # {} /\ OnRst(h, i, w)
      \/ found # {} /\ OnSynAck(h, i, w)
      \/ found # {} /\ OnSyn(h, i, g, p, w)
      \/ found # {} /\ OnFin(h, i, w)
      \/ found # {} /\ OnAck(h, i, p, w)
  BY DEF PacketArrives
<1> HIDE DEF w, i, p
<1>4. p.sport \in A /\ p.dport \in A /\ p.n \in A
  BY DEF p
<1>5. CASE /\ found = {}
           /\ Leaves(h, w, IF p.flag = "Rst" THEN s
                           ELSE Push(s, g, p.dport, p.sport, "Rst", 0))
  <2> DEFINE u == Push(s, g, p.dport, p.sport, "Rst", 0)
  <2>1. u \in HostState(A) /\ Apart(s, u)
    BY <1>4, PushIs DEF Flags
  <2> HIDE DEF u
  <2>2. Leaves(h, w, s) \/ Leaves(h, w, u)
    BY <1>5 DEF u
  <2>3. Quiet(s, s) /\ Quiet(s, u)
    BY <2>1, QuietSame DEF Quiet
  <2> QED
    BY <2>1, <2>2, <2>3, QuietMoves
<1>6. CASE found # {} /\ Leaves(h, w, s)
  <2>1. Quiet(s, s)
    BY DEF Quiet
  <2> QED
    BY <1>6, <2>1, QuietMoves
<1>7. CASE found # {} /\ OnRst(h, i, w)
  BY <1>1, <1>2, <1>7, RstMoves
<1>8. CASE found # {} /\ OnSynAck(h, i, w)
  BY <1>1, <1>2, <1>8, SynAckMoves
<1>9. CASE found # {} /\ OnSyn(h, i, g, p, w)
  BY <1>2, <1>4, <1>9, SynMoves
<1>10. CASE found # {} /\ OnFin(h, i, w)
  BY <1>1, <1>2, <1>10, FinMoves
<1>11. CASE found # {} /\ OnAck(h, i, p, w)
  BY <1>1, <1>2, <1>4, <1>11, AckMoves
<1> QED
  BY <1>3, <1>5, <1>6, <1>7, <1>8, <1>9, <1>10, <1>11

LEMMA AppMoves ==
    ASSUME NEW A, Nat \cup Ports \subseteq A, NEW h \in Hosts, host[h] \in HostState(A),
           AppStep(h)
    PROVE  Moves(A, h)
<1>1. CASE New(h)
  BY <1>1, NewMoves
<1>2. ASSUME NEW i \in host[h].owned,
             \/ NeverConnected(h, i) /\ Listen(h, i)
             \/ Accept(h, i) \/ Connect(h, i)
             \/ Send(h, i) \/ Recv(h, i) \/ Close(h, i) \/ Free(h, i)
      PROVE  Moves(A, h)
  <2>1. i \in Ids
    BY DEF HostState
  <2>2. CASE NeverConnected(h, i) /\ Listen(h, i)
    BY <2>1, <2>2, ListenMoves
  <2>3. CASE Accept(h, i)
    BY <2>1, <2>3, AcceptMoves
  <2>4. CASE Connect(h, i)
    BY <2>1, <2>4, ConnectMoves
  <2>5. CASE Send(h, i)
    BY <2>1, <2>5, SendMoves
  <2>6. CASE Recv(h, i)
    BY <2>1, <2>6, RecvMoves
  <2>7. CASE Close(h, i)
    BY <2>1, <2>7, CloseMoves
  <2>8. CASE Free(h, i)
    BY <2>1, <2>8, FreeMoves
  <2> QED
    BY <1>2, <2>2, <2>3, <2>4, <2>5, <2>6, <2>7, <2>8
<1> QED
  BY <1>1, <1>2 DEF AppStep

-----------------------------------------------------------------------------
(* What a step does to every host.                                         *)

LEMMA SeqMono ==
    ASSUME NEW S, NEW T, S \subseteq T, NEW q \in Seq(S)
    PROVE  q \in Seq(T)
<1>1. Len(q) \in Nat /\ q = [k \in 1..Len(q) |-> q[k]] /\ \A k \in 1..Len(q) : q[k] \in T
  OBVIOUS
<1> QED
  BY <1>1

\* More ports and numbers do not take a host's shape away.
LEMMA ShapeGrows ==
    ASSUME NEW A, NEW B, A \subseteq B
    PROVE  HostState(A) \subseteq HostState(B)
<1>1. Socket(A) \subseteq Socket(B) /\ Block(A) \subseteq Block(B) /\ Pushed(A) \subseteq Pushed(B)
  BY DEF Socket, Block, Pushed
<1> SUFFICES ASSUME NEW s \in HostState(A)
             PROVE  s \in HostState(B)
  OBVIOUS
<1>2. s.out \in Seq(Pushed(B))
  <2>1. s.out \in Seq(Pushed(A))
    BY DEF HostState
  <2> QED
    BY <1>1, <2>1, SeqMono
<1>3. s.sock \in [Ids -> Socket(B)] /\ s.tcb \in [Ids -> Block(B)]
  BY <1>1 DEF HostState
<1> QED
  BY <1>2, <1>3 DEF HostState

\* Between s and t is such a step.
Step(h, s, t) == Calm(s, t) \/ Opens(h, s, t)

\* The step of a host is its handler's: sending what was pushed, and noting
\* which requests failed, changes no socket.
LEMMA LeavesIs ==
    ASSUME NEW A, host \in [Hosts -> HostState(A)], NEW h \in Hosts, Moves(A, h),
           \A g \in Hosts : host[g].out = <<>>
    PROVE  /\ host' \in [Hosts -> HostState(A)]
           /\ \A g \in Hosts : host'[g].out = <<>> /\ Step(g, host[g], host'[g])
<1>1. PICK w, t : /\ Leaves(h, w, t) /\ t \in HostState(A)
                  /\ Calm(host[h], t) \/ Opens(h, host[h], t)
  BY DEF Moves
<1> DEFINE s == host[h]
           u == [t EXCEPT !.out = <<>>, !.failed = @ \ s.failed]
<1>2. s \in HostState(A)
  OBVIOUS
<1>3. <<>> \in Seq(Pushed(A))
  OBVIOUS
<1>4. u \in HostState(A) /\ u.out = <<>> /\ Apart(t, u)
  BY <1>1, <1>2, <1>3 DEF HostState, Apart
<1>5. host' = [host EXCEPT ![h] = u]
  BY <1>1 DEF Leaves
<1> HIDE DEF u
<1>6. Step(h, s, u)
  <2>1. CASE Calm(s, t)
    <3>1. Calm(t, u)
      BY <1>1, <1>4, QuietSame, QuietCalm
    <3>2. Calm(s, u)
      BY <1>1, <1>2, <1>4, <2>1, <3>1, CalmTrans
    <3> QED
      BY <3>2 DEF Step
  <2>2. CASE Opens(h, s, t)
    <3>1. PICK i \in Ids :
             /\ OnlySocket(s, t, i)
             /\ Begins(s, t, i) \/ Listens(h, s, t, i) \/ Dials(h, s, t, i) \/ Replies(s, t, i)
      BY <2>2 DEF Opens
    <3>2. OnlySocket(s, u, i)
      BY <1>4, <3>1 DEF OnlySocket, Apart, Conn, State
    <3>3. /\ Begins(s, t, i) => Begins(s, u, i)
          /\ Listens(h, s, t, i) => Listens(h, s, u, i)
          /\ Dials(h, s, t, i) => Dials(h, s, u, i)
          /\ Replies(s, t, i) => Replies(s, u, i)
      BY <1>4 DEF Begins, Listens, Dials, Replies, Apart, Conn, State
    <3> QED
      BY <3>1, <3>2, <3>3 DEF Step, Opens
  <2> QED
    BY <1>1, <2>1, <2>2
<1>7. ASSUME NEW g \in Hosts, g # h
      PROVE  host'[g].out = <<>> /\ Step(g, host[g], host'[g])
  <2>1. host'[g] = host[g] /\ host[g] \in HostState(A)
    BY <1>5, <1>7
  <2>2. Calm(host[g], host[g])
    BY <2>1, QuietCalm DEF Quiet
  <2> QED
    BY <2>1, <2>2 DEF Step
<1>8. host'[h] = u
  BY <1>5
<1> QED
  BY <1>4, <1>5, <1>6, <1>7, <1>8

\* All hosts have their shape, for some ports and numbers.
Shaped ==
    \E A : /\ Nat \cup Ports \subseteq A /\ host \in [Hosts -> HostState(A)]
           /\ \A h \in Hosts : host[h].out = <<>>

\* A step keeps the shape, and is one of those above on every host.
LEMMA NextSteps ==
    ASSUME Shaped, \A h \in Hosts : ListensNowhere(host[h]), Next
    PROVE  \E A : /\ Nat \cup Ports \subseteq A
                  /\ host \in [Hosts -> HostState(A)] /\ host' \in [Hosts -> HostState(A)]
                  /\ \A h \in Hosts : host'[h].out = <<>> /\ Step(h, host[h], host'[h])
<1>1. PICK A : /\ Nat \cup Ports \subseteq A /\ host \in [Hosts -> HostState(A)]
               /\ \A h \in Hosts : host[h].out = <<>>
  BY DEF Shaped
<1> DEFINE Goal(B) ==
              /\ Nat \cup Ports \subseteq B
              /\ host \in [Hosts -> HostState(B)] /\ host' \in [Hosts -> HostState(B)]
              /\ \A h \in Hosts : host'[h].out = <<>> /\ Step(h, host[h], host'[h])
<1>2. ASSUME NEW B, A \subseteq B
      PROVE  host \in [Hosts -> HostState(B)] /\ Nat \cup Ports \subseteq B
  BY <1>1, <1>2, ShapeGrows
<1>3. ASSUME NEW h \in Hosts, AppStep(h)
      PROVE  Goal(A)
  <2>1. Moves(A, h)
    BY <1>1, <1>3, AppMoves
  <2> QED
    BY <1>1, <2>1, LeavesIs
<1>4. ASSUME NEW c \in Links, PacketArrives(c[1], c[2])
      PROVE  \E B : Goal(B)
  <2> DEFINE g == c[1]
             h == c[2]
             p == Head(wire[<<g, h>>])
             B == A \cup {p.sport, p.dport, p.n}
  <2>1. g \in Hosts /\ h \in Hosts
    BY DEF Links
  <2>2. /\ A \subseteq B /\ Nat \subseteq B
        /\ p.sport \in B /\ p.dport \in B /\ p.n \in B
    BY <1>1
  <2> HIDE DEF B
  <2>3. host \in [Hosts -> HostState(B)] /\ Nat \cup Ports \subseteq B
    BY <1>2, <2>2
  <2>4. host[h] \in HostState(B)
    BY <2>1, <2>3
  <2> HIDE DEF g, h
  <2>5. PacketArrives(g, h)
    BY <1>4 DEF g, h
  <2>6. Moves(B, h)
    BY <2>1, <2>2, <2>4, <2>5, ArrivalMoves
  <2>7. Goal(B)
    BY <1>1, <2>1, <2>3, <2>6, LeavesIs
  <2> QED
    BY <2>7
<1>5. ASSUME NEW h \in Hosts, NEW i \in Ids, TimeOut(h, i)
      PROVE  \E B : Goal(B)
  <2> DEFINE B == A \cup {host[h].tcb[i].acked + 1}
  <2>1. A \subseteq B /\ host[h].tcb[i].acked + 1 \in B
    OBVIOUS
  <2> HIDE DEF B
  <2>2. host \in [Hosts -> HostState(B)] /\ Nat \cup Ports \subseteq B
    BY <1>2, <2>1
  <2>3. Moves(B, h)
    BY <1>5, <2>1, <2>2, TimeOutMoves
  <2>4. Goal(B)
    BY <1>1, <2>2, <2>3, LeavesIs
  <2> QED
    BY <2>4
<1>6. ASSUME NEW c \in Links, PacketLost(c)
      PROVE  Goal(A)
  <2>1. host' = host
    BY <1>6 DEF PacketLost
  <2>2. ASSUME NEW h \in Hosts
        PROVE  Calm(host[h], host[h])
    BY <1>1, QuietCalm DEF Quiet
  <2> QED
    BY <1>1, <2>1, <2>2 DEF Step
<1> QED
  BY <1>3, <1>4, <1>5, <1>6 DEF Next

-----------------------------------------------------------------------------
(* What every such step keeps.                                             *)

LEMMA ListensNowhereKept ==
    ASSUME NEW h, NEW s, NEW t, ListensNowhere(s), Step(h, s, t)
    PROVE  ListensNowhere(t)
<1>1. CASE Calm(s, t)
  BY <1>1 DEF Calm, ListensNowhere, Conn
<1>2. CASE Opens(h, s, t)
  <2>1. PICK i \in Ids :
           /\ OnlySocket(s, t, i)
           /\ Begins(s, t, i) \/ Listens(h, s, t, i) \/ Dials(h, s, t, i) \/ Replies(s, t, i)
    BY <1>2 DEF Opens
  <2>2. ASSUME NEW j \in Ids \ {i}, State(t, j) = "Listening"
        PROVE  t.sock[j].ip = Nowhere
    BY <2>1, <2>2 DEF OnlySocket, ListensNowhere, Conn
  <2>3. State(t, i) = "Listening" => t.sock[i].ip = Nowhere
    BY <2>1 DEF Begins, Listens, Dials, Replies, Conn
  <2> QED
    BY <2>2, <2>3 DEF ListensNowhere
<1> QED
  BY <1>1, <1>2 DEF Step

LEMMA BackedKept ==
    ASSUME NEW A, NEW s \in HostState(A), NEW t \in HostState(A),
           \A i \in Ids : Backed(s, i), NEW h, Step(h, s, t)
    PROVE  \A i \in Ids : Backed(t, i)
<1>1. CASE Calm(s, t)
  BY <1>1 DEF Calm
<1>2. CASE Opens(h, s, t)
  <2>1. PICK i \in Ids :
           /\ OnlySocket(s, t, i)
           /\ Begins(s, t, i) \/ Listens(h, s, t, i) \/ Dials(h, s, t, i) \/ Replies(s, t, i)
    BY <1>2 DEF Opens
  <2>2. s.size \in Int /\ t.size \in Int /\ \A j \in Ids : j \in Int
    BY BoundsAre DEF HostState
  <2>3. ASSUME NEW j \in Ids \ {i}
        PROVE  Backed(t, j)
    <3>1. Backed(s, j)
      OBVIOUS
    <3> QED
      BY <2>1, <2>2, <3>1 DEF OnlySocket, Backed
  <2>4. Backed(t, i)
    BY <2>1 DEF Begins, Listens, Dials, Replies, Backed
  <2> QED
    BY <2>3, <2>4
<1> QED
  BY <1>1, <1>2 DEF Step

\* A host that connects has no listeners, and each of its sockets a port of
\* its own.
OwnPorts(h, s) ==
    "Connect" \in Methods[h] =>
        /\ \A i \in Ids : State(s, i) # "Listening"
        /\ \A i, j \in Ids : i # j /\ State(s, i) # "Nil" /\ State(s, j) # "Nil"
                                => s.sock[i].sport # s.sock[j].sport

\* Two sockets do not stand for the same connection.
OneEach(s) ==
    \A i, j \in Ids : i # j /\ State(s, i) \notin Dormant /\ State(s, j) \notin Dormant
                          => Conn(s, i) # Conn(s, j)

LEMMA OwnPortsKept ==
    ASSUME NEW h, ~({"Listen", "Connect"} \subseteq Methods[h]),
           NEW s, NEW t, OwnPorts(h, s), Step(h, s, t)
    PROVE  OwnPorts(h, t)
<1> SUFFICES ASSUME "Connect" \in Methods[h]
             PROVE  /\ \A i \in Ids : State(t, i) # "Listening"
                    /\ \A i, j \in Ids : i # j /\ State(t, i) # "Nil" /\ State(t, j) # "Nil"
                                            => t.sock[i].sport # t.sock[j].sport
  BY DEF OwnPorts
<1>1. /\ \A i \in Ids : State(s, i) # "Listening"
      /\ \A i, j \in Ids : i # j /\ State(s, i) # "Nil" /\ State(s, j) # "Nil"
                              => s.sock[i].sport # s.sock[j].sport
  BY DEF OwnPorts
<1>2. CASE Calm(s, t)
  BY <1>1, <1>2 DEF Calm, Conn
<1>3. CASE Opens(h, s, t)
  <2>1. PICK i \in Ids :
           /\ OnlySocket(s, t, i)
           /\ Begins(s, t, i) \/ Listens(h, s, t, i) \/ Dials(h, s, t, i) \/ Replies(s, t, i)
    BY <1>3 DEF Opens
  <2>2. "Listen" \notin Methods[h]
    OBVIOUS
  <2>3. Begins(s, t, i) \/ Dials(h, s, t, i)
    BY <1>1, <2>1, <2>2 DEF Listens, Replies
  <2>4. \A j \in Ids : State(t, j) # "Listening"
    BY <1>1, <2>1, <2>3 DEF OnlySocket, Begins, Dials
  <2>5. ASSUME NEW j \in Ids \ {i}
        PROVE  t.sock[j].sport = s.sock[j].sport /\ State(t, j) = State(s, j)
    BY <2>1 DEF OnlySocket, Conn
  <2>6. ASSUME NEW j \in Ids \ {i}, State(t, j) # "Nil"
        PROVE  t.sock[i].sport # t.sock[j].sport
    <3>1. CASE Begins(s, t, i)
      BY <2>5, <2>6, <3>1 DEF Begins, Bound
    <3>2. CASE Dials(h, s, t, i)
      BY <1>1, <2>5, <2>6, <3>2 DEF Dials
    <3> QED
      BY <2>3, <3>1, <3>2
  <2> QED
    BY <1>1, <2>4, <2>5, <2>6
<1> QED
  BY <1>2, <1>3 DEF Step

LEMMA OneEachStays ==
    ASSUME NEW h, ~({"Listen", "Connect"} \subseteq Methods[h]),
           NEW s, NEW t, OwnPorts(h, s), OneEach(s), Step(h, s, t)
    PROVE  OneEach(t)
<1>1. CASE Calm(s, t)
  BY <1>1 DEF Calm, OneEach
<1>2. CASE Opens(h, s, t)
  <2>1. PICK i \in Ids :
           /\ OnlySocket(s, t, i)
           /\ Begins(s, t, i) \/ Listens(h, s, t, i) \/ Dials(h, s, t, i) \/ Replies(s, t, i)
    BY <1>2 DEF Opens
  <2>2. ASSUME NEW j \in Ids \ {i}
        PROVE  Conn(t, j) = Conn(s, j) /\ State(t, j) = State(s, j)
    BY <2>1 DEF OnlySocket
  <2>3. ASSUME NEW j \in Ids \ {i}, State(t, i) \notin Dormant, State(t, j) \notin Dormant
        PROVE  Conn(t, i) # Conn(t, j)
    <3>1. State(s, j) \notin Dormant
      BY <2>2, <2>3
    <3>2. CASE Dials(h, s, t, i)
      <4>1. s.sock[i].sport # s.sock[j].sport
        BY <3>1, <3>2 DEF Dials, OwnPorts, Dormant
      <4> QED
        BY <2>2, <3>2, <4>1 DEF Dials, Conn
    <3>3. CASE Replies(s, t, i)
      <4>1. j \notin Connected(s, t.sock[i].ip, t.sock[i].sport, t.sock[i].dport)
        BY <3>3 DEF Replies
      <4>2. Conn(s, j) # Conn(t, i)
        BY <3>1, <4>1 DEF Connected, Conn, Dormant
      <4> QED
        BY <2>2, <4>2
    <3>4. ~Begins(s, t, i) /\ ~Listens(h, s, t, i)
      BY <2>3 DEF Begins, Listens, Dormant
    <3> QED
      BY <2>1, <3>2, <3>3, <3>4
  <2> QED
    BY <2>2, <2>3 DEF OneEach
<1> QED
  BY <1>1, <1>2 DEF Step

-----------------------------------------------------------------------------
(* Where the request of an application with one at a time is held.         *)

Kinds == {"connect", "close", "accept", "recv", "send"}

Waiting(r) == IF r = Null THEN <<>> ELSE <<r>>

\* The requests held for socket i, by what they wait for.
Parked(s, i) ==
    [connect |-> Waiting(s.sock[i].connectWait), close |-> Waiting(s.sock[i].closeWait),
     accept |-> s.sock[i].acceptWait, recv |-> s.tcb[i].wait, send |-> s.tcb[i].sendWait]

\* No request is open and none held, or one is open and held in one place.
Idle(s) == s.open = {} /\ \A j \in Ids, k \in Kinds : Parked(s, j)[k] = <<>>

Busy(s, i, l, r) ==
    /\ s.open = {r} /\ Parked(s, i)[l] = <<r>>
    /\ \A j \in Ids, k \in Kinds : j # i \/ k # l => Parked(s, j)[k] = <<>>

Tidy(s) == Idle(s) \/ \E i \in Ids, l \in Kinds, r \in Requests : Busy(s, i, l, r)

\* Nothing waits for the backend of socket i.
Silent(s, i) == Parked(s, i).recv = <<>> /\ Parked(s, i).send = <<>>

\* Moreover only open connections hold what waits for their backend, but for
\* those of sockets X; or the host has crashed.
Orderly(s, X) ==
    \/ s.crashed
    \/ Tidy(s) /\ \A j \in Ids \ X : State(s, j) = "Established" \/ Silent(s, j)

\* From s to t nothing happens to any request but those of kinds C of socket i,
\* which are answered.
Clears(s, t, i, C) ==
    /\ \A j \in Ids \ {i} : Parked(t, j) = Parked(s, j)
    /\ \A k \in Kinds : Parked(t, i)[k] = IF k \in C THEN <<>> ELSE Parked(s, i)[k]
    /\ t.open = {r \in s.open : \A k \in C : r \notin Range(Parked(s, i)[k])}
    /\ s.crashed => t.crashed

\* Nothing happens to any.
Same(s, t) ==
    t.open = s.open /\ (s.crashed => t.crashed) /\ \A j \in Ids : Parked(t, j) = Parked(s, j)

LEMMA SameTrans ==
    ASSUME NEW s, NEW t, NEW u, Same(s, t), Same(t, u)
    PROVE  Same(s, u)
BY DEF Same

LEMMA SameClears ==
    ASSUME NEW s, NEW t, NEW i \in Ids, Same(s, t)
    PROVE  Clears(s, t, i, {})
BY DEF Same, Clears

LEMMA RangeIs ==
    /\ Range(<<>>) = {}
    /\ \A r : Range(<<r>>) = {r}
BY DEF Range

LEMMA ClearsTidy ==
    ASSUME NEW s, NEW t, NEW i \in Ids, NEW C \in SUBSET Kinds, Tidy(s), Clears(s, t, i, C)
    PROVE  Tidy(t)
<1>1. CASE Idle(s)
  BY <1>1 DEF Clears, Tidy, Idle
<1>2. ASSUME NEW j \in Ids, NEW l \in Kinds, NEW r \in Requests, Busy(s, j, l, r)
      PROVE  Tidy(t)
  <2>1. CASE j = i /\ l \in C
    <3>1. t.open = {}
      BY <1>2, <2>1, RangeIs DEF Clears, Busy
    <3>2. \A m \in Ids, k \in Kinds : Parked(t, m)[k] = <<>>
      BY <1>2, <2>1 DEF Clears, Busy
    <3> QED
      BY <3>1, <3>2 DEF Tidy, Idle
  <2>2. CASE ~(j = i /\ l \in C)
    <3>1. t.open = {r}
      <4>1. \A k \in C : Parked(s, i)[k] = <<>>
        BY <1>2, <2>2 DEF Busy
      <4>2. \A k \in C : Range(Parked(s, i)[k]) = {}
        BY <4>1, RangeIs
      <4> QED
        BY <1>2, <4>2 DEF Clears, Busy
    <3>2. Parked(t, j)[l] = <<r>>
      BY <1>2, <2>2 DEF Clears, Busy
    <3>3. \A m \in Ids, k \in Kinds : m # j \/ k # l => Parked(t, m)[k] = <<>>
      BY <1>2, <2>2 DEF Clears, Busy
    <3> QED
      BY <3>1, <3>2, <3>3 DEF Tidy, Busy
  <2> QED
    BY <2>1, <2>2
<1> QED
  BY <1>1, <1>2 DEF Tidy

\* All of it, with the sockets X excused after the step and Y before it.
Hands(s, t, i, C, Y, X) ==
    /\ i \in Ids /\ C \in SUBSET Kinds /\ Orderly(s, Y)
    /\ s.crashed => t.crashed
    /\ t.crashed \/ Clears(s, t, i, C)
    /\ \A j \in Ids \ X :
           \/ j = i /\ {"recv", "send"} \subseteq C
           \/ j \notin Y /\ (State(s, j) = "Established" => State(t, j) = "Established")

\* What is needed of the sockets' states.
LEMMA ClearsOrderly ==
    ASSUME NEW s, NEW t, NEW i, NEW C, NEW Y, NEW X, Hands(s, t, i, C, Y, X)
    PROVE  Orderly(t, X)
<1> USE DEF Hands
<1>1. CASE t.crashed
  BY <1>1 DEF Orderly
<1>2. CASE ~t.crashed
  <2>1. Clears(s, t, i, C) /\ Tidy(s)
        /\ \A j \in Ids \ Y : State(s, j) = "Established" \/ Silent(s, j)
    BY <1>2 DEF Orderly
  <2>2. Tidy(t)
    BY <2>1, ClearsTidy
  <2>3. \A j \in Ids : \A k \in Kinds : Parked(s, j)[k] = <<>> => Parked(t, j)[k] = <<>>
    BY <2>1 DEF Clears
  <2>4. "recv" \in Kinds /\ "send" \in Kinds
    BY DEF Kinds
  <2>5. \A j \in Ids : /\ Parked(s, j).recv = Parked(s, j)["recv"]
                       /\ Parked(s, j).send = Parked(s, j)["send"]
    OBVIOUS
  <2>6. \A j \in Ids : Silent(s, j) => Silent(t, j)
    BY <2>3, <2>4 DEF Silent
  <2>7. {"recv", "send"} \subseteq C => Silent(t, i)
    BY <2>1, <2>4 DEF Clears, Silent
  <2> QED
    BY <2>1, <2>2, <2>6, <2>7 DEF Orderly
<1> QED
  BY <1>1, <1>2

\* Nothing happens to requests nor states.
LEMMA SameOrderly ==
    ASSUME NEW s, NEW t, NEW X, Orderly(s, X), Same(s, t),
           \A j \in Ids \ X : State(s, j) = "Established" => State(t, j) = "Established"
    PROVE  Orderly(t, X)
<1>1. CASE t.crashed
  BY <1>1 DEF Orderly
<1>2. CASE ~t.crashed
  <2>1. /\ Tidy(s) /\ \A j \in Ids \ X : State(s, j) = "Established" \/ Silent(s, j)
    BY <1>2 DEF Orderly, Same
  <2>2. Tidy(t)
    BY <2>1 DEF Same, Tidy, Idle, Busy
  <2>3. \A j \in Ids : Silent(s, j) => Silent(t, j)
    BY DEF Same, Silent
  <2> QED
    BY <2>1, <2>2, <2>3 DEF Orderly
<1> QED
  BY <1>1, <1>2

\* What each part of a handler does with the requests that wait.
LEMMA PushSame ==
    ASSUME NEW A, NEW s \in HostState(A), NEW ip, NEW sport, NEW dport, NEW flag, NEW n
    PROVE  LET t == Push(s, ip, sport, dport, flag, n) IN
           Same(s, t) /\ t.sock = s.sock /\ t.tcb = s.tcb /\ t.crashed = s.crashed
BY DEF Push, HostState, Same, Parked

LEMMA SendShortSame ==
    ASSUME NEW A, NEW s \in HostState(A), NEW i, NEW flag
    PROVE  LET t == SendShort(s, i, flag) IN
           Same(s, t) /\ t.sock = s.sock /\ t.tcb = s.tcb /\ t.crashed = s.crashed
BY PushSame DEF SendShort

LEMMA PushMessageSame ==
    ASSUME NEW A, NEW s \in HostState(A), NEW i, NEW n
    PROVE  LET t == PushMessage(s, i, n) IN
           Same(s, t) /\ t.sock = s.sock /\ t.tcb = s.tcb /\ t.crashed = s.crashed
BY PushSame DEF PushMessage

LEMMA GotoSame ==
    ASSUME NEW A, NEW s \in HostState(A), NEW i \in Ids, NEW state
    PROVE  Same(s, Goto(s, i, state))
<1> DEFINE k == [s.sock[i] EXCEPT !.state = state]
           t == [s EXCEPT !.sock[i] = k]
<1>1. s.sock[i] \in Socket(A) /\ Goto(s, i, state) = t
  BY DEF HostState, Goto
<1>2. /\ k.connectWait = s.sock[i].connectWait /\ k.closeWait = s.sock[i].closeWait
      /\ k.acceptWait = s.sock[i].acceptWait
  BY <1>1 DEF Socket
<1> HIDE DEF k
<1>3. /\ t.sock[i] = k /\ \A j \in Ids \ {i} : t.sock[j] = s.sock[j]
      /\ t.tcb = s.tcb /\ t.open = s.open /\ t.crashed = s.crashed
  BY DEF HostState
<1> HIDE DEF t
<1> QED
  BY <1>1, <1>2, <1>3 DEF Same, Parked

LEMMA ReturnCloseOrderly ==
    ASSUME NEW A, NEW s \in HostState(A), NEW i \in Ids, NEW X, Orderly(s, X)
    PROVE  LET t == ReturnClose(s, i) IN
           Orderly(t, X) /\ \A j \in Ids : State(t, j) = State(s, j)
<1> DEFINE r == s.sock[i].closeWait
           t == ReturnClose(s, i)
           k == [s.sock[i] EXCEPT !.closeWait = Null]
<1>1. s.sock[i] \in Socket(A) /\ r \in Requests \cup {Null}
  BY DEF HostState, Socket
<1>2. \A j \in Ids : State(t, j) = State(s, j)
  BY ReturnCloseIs DEF Quiet
<1>3. t.crashed \/ Clears(s, t, i, {"close"})
  <2>1. CASE r = Null
    BY <2>1 DEF ReturnClose, SendReturn, HostState
  <2>2. CASE r # Null
    <3> DEFINE O == s.open \ {r}
               u == [s EXCEPT !.open = O, !.sock[i] = k]
    <3>1. t = u
      BY <2>2 DEF ReturnClose, SendReturn, HostState
    <3>2. /\ k.connectWait = s.sock[i].connectWait /\ k.closeWait = Null
          /\ k.acceptWait = s.sock[i].acceptWait
      BY <1>1 DEF Socket
    <3> HIDE DEF k, O
    <3>7. /\ u.open = O /\ u.crashed = s.crashed /\ u.tcb = s.tcb /\ u.sock[i] = k
          /\ \A j \in Ids \ {i} : u.sock[j] = s.sock[j]
      BY DEF HostState
    <3> HIDE DEF u
    <3>3. /\ \A j \in Ids \ {i} : Parked(u, j) = Parked(s, j)
          /\ Parked(s, i).close = <<r>>
      BY <2>2, <3>7 DEF Parked, Waiting
    <3>4. Parked(u, i) = [connect |-> Waiting(s.sock[i].connectWait), close |-> <<>>,
                          accept |-> s.sock[i].acceptWait,
                          recv |-> s.tcb[i].wait, send |-> s.tcb[i].sendWait]
      BY <3>2, <3>7 DEF Parked, Waiting
    <3>5. \A l \in Kinds : Parked(u, i)[l] = IF l \in {"close"} THEN <<>> ELSE Parked(s, i)[l]
      BY <3>4 DEF Parked, Kinds
    <3>8. O = {q \in s.open : \A l \in {"close"} : q \notin Range(Parked(s, i)[l])}
      <4>1. Range(Parked(s, i).close) = {r}
        BY <3>3, RangeIs
      <4> HIDE DEF r
      <4> QED
        BY <4>1 DEF O
    <3>6. Clears(s, u, i, {"close"})
      BY <3>3, <3>5, <3>7, <3>8 DEF Clears
    <3> QED
      BY <3>1, <3>6
  <2> QED
    BY <2>1, <2>2
<1>4. s.crashed => t.crashed
  BY DEF ReturnClose, SendReturn, HostState
<1> HIDE DEF t
<1>5. {"close"} \in SUBSET Kinds
  BY DEF Kinds
<1>6. \A j \in Ids \ X : \/ j = i /\ {"recv", "send"} \subseteq {"close"}
                         \/ j \notin X /\ (State(s, j) = "Established" =>
                                               State(t, j) = "Established")
  BY <1>2
<1>7. Hands(s, t, i, {"close"}, X, X)
  BY <1>3, <1>4, <1>5, <1>6 DEF Hands
<1>8. Orderly(t, X)
  BY <1>7, ClearsOrderly
<1> QED
  BY <1>2, <1>8 DEF t

LEMMA ReturnConnectOrderly ==
    ASSUME NEW A, NEW s \in HostState(A), NEW i \in Ids, NEW X, Orderly(s, X)
    PROVE  LET t == ReturnConnect(s, i) IN
           Orderly(t, X) /\ \A j \in Ids : State(t, j) = State(s, j)
<1> DEFINE r == s.sock[i].connectWait
           t == ReturnConnect(s, i)
           k == [s.sock[i] EXCEPT !.connectWait = Null]
<1>1. s.sock[i] \in Socket(A) /\ r \in Requests \cup {Null}
  BY DEF HostState, Socket
<1>2. \A j \in Ids : State(t, j) = State(s, j)
  BY ReturnConnectIs DEF Quiet
<1>3. t.crashed \/ Clears(s, t, i, {"connect"})
  <2>1. CASE r = Null
    BY <2>1 DEF ReturnConnect, SendReturn, HostState
  <2>2. CASE r # Null
    <3> DEFINE O == s.open \ {r}
               u == [s EXCEPT !.open = O, !.sock[i] = k]
    <3>1. t = u
      BY <2>2 DEF ReturnConnect, SendReturn, HostState
    <3>2. /\ k.closeWait = s.sock[i].closeWait /\ k.connectWait = Null
          /\ k.acceptWait = s.sock[i].acceptWait
      BY <1>1 DEF Socket
    <3> HIDE DEF k, O
    <3>7. /\ u.open = O /\ u.crashed = s.crashed /\ u.tcb = s.tcb /\ u.sock[i] = k
          /\ \A j \in Ids \ {i} : u.sock[j] = s.sock[j]
      BY DEF HostState
    <3> HIDE DEF u
    <3>3. /\ \A j \in Ids \ {i} : Parked(u, j) = Parked(s, j)
          /\ Parked(s, i).connect = <<r>>
      BY <2>2, <3>7 DEF Parked, Waiting
    <3>4. Parked(u, i) = [connect |-> <<>>, close |-> Waiting(s.sock[i].closeWait),
                          accept |-> s.sock[i].acceptWait,
                          recv |-> s.tcb[i].wait, send |-> s.tcb[i].sendWait]
      BY <3>2, <3>7 DEF Parked, Waiting
    <3>5. \A l \in Kinds : Parked(u, i)[l] = IF l \in {"connect"} THEN <<>> ELSE Parked(s, i)[l]
      BY <3>4 DEF Parked, Kinds
    <3>8. O = {q \in s.open : \A l \in {"connect"} : q \notin Range(Parked(s, i)[l])}
      <4>1. Range(Parked(s, i).connect) = {r}
        BY <3>3, RangeIs
      <4> HIDE DEF r
      <4> QED
        BY <4>1 DEF O
    <3>6. Clears(s, u, i, {"connect"})
      BY <3>3, <3>5, <3>7, <3>8 DEF Clears
    <3> QED
      BY <3>1, <3>6
  <2> QED
    BY <2>1, <2>2
<1>4. s.crashed => t.crashed
  BY DEF ReturnConnect, SendReturn, HostState
<1> HIDE DEF t
<1>5. {"connect"} \in SUBSET Kinds
  BY DEF Kinds
<1>6. \A j \in Ids \ X : \/ j = i /\ {"recv", "send"} \subseteq {"connect"}
                         \/ j \notin X /\ (State(s, j) = "Established" =>
                                               State(t, j) = "Established")
  BY <1>2
<1>7. Hands(s, t, i, {"connect"}, X, X)
  BY <1>3, <1>4, <1>5, <1>6 DEF Hands
<1>8. Orderly(t, X)
  BY <1>7, ClearsOrderly
<1> QED
  BY <1>2, <1>8 DEF t

LEMMA RangeJoined ==
    ASSUME NEW S, NEW p \in Seq(S), NEW q \in Seq(S)
    PROVE  Range(p \o q) = Range(p) \cup Range(q)
<1>1. /\ Len(p) \in Nat /\ Len(q) \in Nat /\ Len(p \o q) = Len(p) + Len(q)
      /\ DOMAIN p = 1..Len(p) /\ DOMAIN q = 1..Len(q) /\ DOMAIN (p \o q) = 1..Len(p \o q)
  OBVIOUS
<1>2. \A m \in DOMAIN p : m \in DOMAIN (p \o q) /\ (p \o q)[m] = p[m]
  BY <1>1
<1>3. \A m \in DOMAIN q : Len(p) + m \in DOMAIN (p \o q) /\ (p \o q)[Len(p) + m] = q[m]
  BY <1>1
<1>4. ASSUME NEW m \in DOMAIN (p \o q)
      PROVE  (p \o q)[m] \in Range(p) \cup Range(q)
  <2>1. CASE m \in DOMAIN p
    BY <1>2, <2>1 DEF Range
  <2>2. CASE m \notin DOMAIN p
    <3>1. m - Len(p) \in DOMAIN q /\ m = Len(p) + (m - Len(p))
      BY <1>1, <2>2
    <3>2. (p \o q)[m] = q[m - Len(p)]
      BY <1>3, <3>1
    <3> QED
      BY <3>1, <3>2 DEF Range
  <2> QED
    BY <2>1, <2>2
<1>5. Range(p \o q) \subseteq Range(p) \cup Range(q)
  <2>1. \A r \in Range(p \o q) : \E m \in DOMAIN (p \o q) : r = (p \o q)[m]
    BY DEF Range
  <2> QED
    BY <1>4, <2>1
<1>6. Range(p) \subseteq Range(p \o q)
  <2>1. \A r \in Range(p) : \E m \in DOMAIN p : r = p[m]
    BY DEF Range
  <2>2. \A m \in DOMAIN (p \o q) : (p \o q)[m] \in Range(p \o q)
    BY DEF Range
  <2> QED
    BY <1>2, <2>1, <2>2
<1>7. Range(q) \subseteq Range(p \o q)
  <2>1. \A r \in Range(q) : \E m \in DOMAIN q : r = q[m]
    BY DEF Range
  <2>2. \A m \in DOMAIN (p \o q) : (p \o q)[m] \in Range(p \o q)
    BY DEF Range
  <2> QED
    BY <1>3, <2>1, <2>2
<1> QED
  BY <1>5, <1>6, <1>7

LEMMA FreeCallsOrderly ==
    ASSUME NEW A, NEW s \in HostState(A), NEW i \in Ids, NEW X, Orderly(s, X)
    PROVE  LET t == FreeCalls(s, i) IN
           Orderly(t, X) /\ \A j \in Ids : State(t, j) = State(s, j)
<1> DEFINE C == {"connect", "close", "accept"}
           calls == {s.sock[i].connectWait, s.sock[i].closeWait} \cup Range(s.sock[i].acceptWait)
           O == s.open \ calls
           k == [s.sock[i] EXCEPT !.connectWait = Null, !.closeWait = Null, !.acceptWait = <<>>]
           t == FreeCalls(s, i)
<1>1. s.sock[i] \in Socket(A) /\ Null \notin s.open
  BY BoundsAre DEF HostState, Requests, Null
<1>2. \A j \in Ids : State(t, j) = State(s, j)
  BY FreeCallsIs DEF Quiet
<1>3. /\ t.sock[i] = k /\ \A j \in Ids \ {i} : t.sock[j] = s.sock[j]
      /\ t.tcb = s.tcb /\ t.open = O /\ t.crashed = s.crashed
  BY DEF FreeCalls, Fail, HostState
<1>4. k.connectWait = Null /\ k.closeWait = Null /\ k.acceptWait = <<>>
  BY <1>1 DEF Socket
<1> HIDE DEF t, k
<1>5. \A j \in Ids \ {i} : Parked(t, j) = Parked(s, j)
  BY <1>3 DEF Parked
<1>6. Parked(t, i) = [connect |-> <<>>, close |-> <<>>, accept |-> <<>>,
                      recv |-> s.tcb[i].wait, send |-> s.tcb[i].sendWait]
  BY <1>3, <1>4 DEF Parked, Waiting
<1>7. \A l \in Kinds : Parked(t, i)[l] = IF l \in C THEN <<>> ELSE Parked(s, i)[l]
  BY <1>6 DEF Parked, Kinds
<1>8. ASSUME NEW r \in s.open
      PROVE  (\A l \in C : r \notin Range(Parked(s, i)[l])) <=> r \notin calls
  <2>1. \A x : r \in Range(Waiting(x)) <=> r = x
    BY <1>1, RangeIs DEF Waiting
  <2>2. /\ Parked(s, i).connect = Waiting(s.sock[i].connectWait)
        /\ Parked(s, i).close = Waiting(s.sock[i].closeWait)
        /\ Parked(s, i).accept = s.sock[i].acceptWait
    BY DEF Parked
  <2> QED
    BY <2>1, <2>2
<1>9. Clears(s, t, i, C)
  BY <1>3, <1>5, <1>7, <1>8 DEF Clears, O
<1>10. C \in SUBSET Kinds
  BY DEF Kinds
<1>11. \A j \in Ids \ X :
          \/ j = i /\ {"recv", "send"} \subseteq C
          \/ j \notin X /\ (State(s, j) = "Established" => State(t, j) = "Established")
  BY <1>2
<1>12. s.crashed => t.crashed
  BY <1>3
<1> HIDE DEF C
<1>13. Hands(s, t, i, C, X, X)
  BY <1>9, <1>10, <1>11, <1>12 DEF Hands
<1>14. Orderly(t, X)
  BY <1>13, ClearsOrderly
<1> QED
  BY <1>2, <1>14 DEF t

\* Afterwards the socket holds nothing that waits for a backend, even if it is
\* not open.
LEMMA BackFreeOrderly ==
    ASSUME NEW A, NEW s \in HostState(A), NEW i \in Ids, NEW X, Orderly(s, X)
    PROVE  LET t == BackFree(s, i) IN
           /\ Orderly(t, X \ {i}) /\ (t.crashed \/ Silent(t, i))
           /\ \A j \in Ids : State(t, j) = State(s, j)
<1> DEFINE C == {"recv", "send"}
           p == s.tcb[i].wait
           q == s.tcb[i].sendWait
           O == s.open \ Range(p \o q)
           b == [s.tcb[i] EXCEPT !.live = FALSE, !.wait = <<>>, !.sendWait = <<>>]
           t == BackFree(s, i)
<1>1. s.tcb[i] \in Block(A) /\ p \in Seq(Requests) /\ q \in Seq(Requests)
  BY BlockFields
<1>2. \A j \in Ids : State(t, j) = State(s, j)
  BY BackFreeIs DEF State
<1>3. t.crashed \/ Clears(s, t, i, C)
  <2>1. CASE i >= s.size
    BY <2>1 DEF BackFree, HostState
  <2>2. CASE ~(i >= s.size)
    <3>1. /\ t.tcb[i] = b /\ \A j \in Ids \ {i} : t.tcb[j] = s.tcb[j]
          /\ t.sock = s.sock /\ t.open = O /\ t.crashed = s.crashed
      BY <2>2 DEF BackFree, Fail, HostState
    <3>2. b.wait = <<>> /\ b.sendWait = <<>>
      BY <1>1 DEF Block
    <3> HIDE DEF t, b
    <3>3. \A j \in Ids \ {i} : Parked(t, j) = Parked(s, j)
      BY <3>1 DEF Parked
    <3>4. Parked(t, i) = [connect |-> Waiting(s.sock[i].connectWait),
                          close |-> Waiting(s.sock[i].closeWait),
                          accept |-> s.sock[i].acceptWait, recv |-> <<>>, send |-> <<>>]
      BY <3>1, <3>2 DEF Parked
    <3>5. \A l \in Kinds : Parked(t, i)[l] = IF l \in C THEN <<>> ELSE Parked(s, i)[l]
      BY <3>4 DEF Parked, Kinds
    <3>6. O = {r \in s.open : \A l \in C : r \notin Range(Parked(s, i)[l])}
      <4>1. Range(p \o q) = Range(p) \cup Range(q)
        BY <1>1, RangeJoined
      <4>2. Parked(s, i).recv = p /\ Parked(s, i).send = q
        BY DEF Parked
      <4> QED
        BY <4>1, <4>2
    <3> QED
      BY <3>1, <3>3, <3>5, <3>6 DEF Clears
  <2> QED
    BY <2>1, <2>2
<1>4. s.crashed => t.crashed
  BY DEF BackFree, Fail, HostState
<1>5. C \in SUBSET Kinds
  BY DEF Kinds
<1> HIDE DEF t
<1>6. \A j \in Ids \ (X \ {i}) :
          \/ j = i /\ {"recv", "send"} \subseteq C
          \/ j \notin X /\ (State(s, j) = "Established" => State(t, j) = "Established")
  BY <1>2
<1> HIDE DEF C
<1>7. Hands(s, t, i, C, X, X \ {i})
  BY <1>3, <1>4, <1>5, <1>6 DEF Hands
<1>8. Orderly(t, X \ {i})
  BY <1>7, ClearsOrderly
<1>9. t.crashed \/ Silent(t, i)
  BY <1>3 DEF Clears, Silent, Kinds, C
<1> QED
  BY <1>2, <1>8, <1>9 DEF t

LEMMA TidyOne ==
    ASSUME NEW s, Tidy(s), NEW i \in Ids, NEW l \in Kinds
    PROVE  Parked(s, i)[l] = <<>> \/ \E r : Parked(s, i)[l] = <<r>>
BY DEF Tidy, Idle, Busy

LEMMA BackEstablishOrderly ==
    ASSUME NEW A, NEW s \in HostState(A), NEW i \in Ids, NEW X, Orderly(s, X),
           s.crashed \/ Silent(s, i)
    PROVE  LET t == BackEstablish(s, i) IN
           Orderly(t, X) /\ t.sock = s.sock
<1> DEFINE b == [EmptyBlock EXCEPT !.live = TRUE]
           t == BackEstablish(s, i)
<1>1. /\ t.tcb[i] = b /\ \A j \in Ids \ {i} : t.tcb[j] = s.tcb[j]
      /\ t.sock = s.sock /\ t.open = s.open /\ t.crashed = s.crashed
  BY DEF BackEstablish, HostState
<1>2. b.wait = <<>> /\ b.sendWait = <<>>
  BY DEF EmptyBlock
<1> HIDE DEF t, b
<1>3. CASE s.crashed
  BY <1>1, <1>3 DEF Orderly, t
<1>4. CASE ~s.crashed
  <2>1. s.tcb[i].wait = <<>> /\ s.tcb[i].sendWait = <<>>
    BY <1>4 DEF Silent, Parked
  <2>2. \A j \in Ids \ {i} : Parked(t, j) = Parked(s, j)
    BY <1>1 DEF Parked
  <2>3. Parked(t, i) = Parked(s, i)
    BY <1>1, <1>2, <2>1 DEF Parked
  <2>4. Same(s, t)
    BY <1>1, <2>2, <2>3 DEF Same
  <2>5. \A j \in Ids \ X : State(s, j) = "Established" => State(t, j) = "Established"
    BY <1>1 DEF State
  <2>6. Orderly(t, X)
    BY <2>4, <2>5, SameOrderly
  <2> QED
    BY <1>1, <2>6 DEF t
<1> QED
  BY <1>3, <1>4

LEMMA GotoOrderly ==
    ASSUME NEW A, NEW s \in HostState(A), NEW i \in Ids, NEW state, NEW X, Orderly(s, X),
           i \in X \/ s.crashed \/ Silent(s, i) \/ state = "Established"
    PROVE  Orderly(Goto(s, i, state), X)
<1> DEFINE t == Goto(s, i, state)
<1>1. Same(s, t)
  BY GotoSame
<1>2. s.sock[i] \in Socket(A)
  BY SockFields
<1>3. State(t, i) = state /\ \A j \in Ids \ {i} : State(t, j) = State(s, j)
  BY <1>2 DEF Goto, HostState, Socket, State
<1> HIDE DEF t
<1>4. CASE s.crashed
  BY <1>1, <1>4 DEF Same, Orderly, t
<1>5. CASE ~s.crashed
  <2>1. Tidy(s) /\ \A j \in Ids \ X : State(s, j) = "Established" \/ Silent(s, j)
    BY <1>5 DEF Orderly
  <2>2. Tidy(t)
    BY <1>1, <2>1 DEF Same, Tidy, Idle, Busy
  <2>3. \A j \in Ids : Silent(s, j) => Silent(t, j)
    BY <1>1 DEF Same, Silent
  <2> QED
    BY <1>3, <1>5, <2>1, <2>2, <2>3 DEF Orderly, t
<1> QED
  BY <1>4, <1>5

LEMMA SilentIs ==
    ASSUME NEW s, NEW i \in Ids, NEW X, Orderly(s, X), i \notin X,
           State(s, i) # "Established"
    PROVE  s.crashed \/ Silent(s, i)
BY DEF Orderly

\* What keeps the sockets and the blocks, like a packet pushed.
LEMMA ApartOrderly ==
    ASSUME NEW s, NEW t, NEW X, Orderly(s, X), Same(s, t), t.sock = s.sock
    PROVE  Orderly(t, X)
<1>1. \A j \in Ids \ X : State(s, j) = "Established" => State(t, j) = "Established"
  BY DEF State
<1> QED
  BY <1>1, SameOrderly

LEMMA SendShortOrderly ==
    ASSUME NEW A, NEW s \in HostState(A), NEW i, NEW flag, NEW X, Orderly(s, X)
    PROVE  Orderly(SendShort(s, i, flag), X)
BY SendShortSame, ApartOrderly

LEMMA CompleteCloseOrderly ==
    ASSUME NEW A, NEW s \in HostState(A), NEW i \in Ids, NEW X, Orderly(s, X),
           i \in X \/ s.crashed \/ Silent(s, i)
    PROVE  Orderly(CompleteClose(s, i), X)
<1> DEFINE t == Goto(s, i, "Fin_Wait1")
<1>1. t \in HostState(A)
  BY GotoIs DEF SocketStates
<1>2. Orderly(t, X)
  BY GotoOrderly
<1> HIDE DEF t
<1>3. Orderly(SendShort(t, i, "Fin"), X)
  BY <1>1, <1>2, SendShortOrderly
<1> QED
  BY <1>3 DEF CompleteClose, t

LEMMA BackDataOrderly ==
    ASSUME NEW A, NEW s \in HostState(A), NEW i \in Ids, NEW n, NEW X, Orderly(s, X)
    PROVE  Orderly(BackData(s, i, n), X)
<1> DEFINE b == s.tcb[i]
           inOrder == n = b.rcvd + 1
           wakes == inOrder /\ b.wait # <<>>
           rcvd == IF inOrder THEN n ELSE b.rcvd
           read == IF wakes THEN b.read + 1 ELSE b.read
           wait == IF wakes THEN Tail(b.wait) ELSE b.wait
           kept == [b EXCEPT !.rcvd = rcvd, !.read = read, !.wait = wait]
           O == IF wakes THEN s.open \ {Head(b.wait)} ELSE s.open
           C == IF wakes THEN {"recv"} ELSE {}
           t == BackData(s, i, n)
<1>1. b \in Block(A)
  BY BlockFields
<1>2. /\ t.tcb[i] = kept /\ \A j \in Ids \ {i} : t.tcb[j] = s.tcb[j]
      /\ t.sock = s.sock /\ t.open = O /\ t.crashed = s.crashed
  BY DEF BackData, Push, HostState
<1>3. kept.wait = wait /\ kept.sendWait = b.sendWait
  BY <1>1 DEF Block
<1> HIDE DEF t, kept, wakes
<1>4. CASE s.crashed
  BY <1>2, <1>4 DEF Orderly, t
<1>5. CASE ~s.crashed
  <2>1. Tidy(s)
    BY <1>5 DEF Orderly
  <2>2. \A j \in Ids \ {i} : Parked(t, j) = Parked(s, j)
    BY <1>2 DEF Parked
  <2>3. wakes => \E r : b.wait = <<r>>
    <3>1. "recv" \in Kinds /\ Parked(s, i)["recv"] = b.wait
      BY DEF Kinds, Parked
    <3> QED
      BY <2>1, <3>1, TidyOne DEF wakes
  <2>4. /\ wakes => wait = <<>> /\ Range(b.wait) = {Head(b.wait)}
        /\ ~wakes => wait = b.wait
    <3>1. ASSUME wakes
          PROVE  wait = <<>> /\ Range(b.wait) = {Head(b.wait)}
      <4>1. PICK r : b.wait = <<r>>
        BY <2>3, <3>1
      <4>2. Tail(<<r>>) = <<>> /\ Head(<<r>>) = r
        OBVIOUS
      <4> QED
        BY <3>1, <4>1, <4>2, RangeIs
    <3> QED
      BY <3>1
  <2> HIDE DEF wait
  <2>5. Parked(t, i) = [connect |-> Waiting(s.sock[i].connectWait),
                        close |-> Waiting(s.sock[i].closeWait),
                        accept |-> s.sock[i].acceptWait, recv |-> wait, send |-> b.sendWait]
    BY <1>2, <1>3 DEF Parked
  <2>6. \A l \in Kinds : Parked(t, i)[l] = IF l \in C THEN <<>> ELSE Parked(s, i)[l]
    BY <2>4, <2>5 DEF Parked, Kinds
  <2>7. O = {r \in s.open : \A l \in C : r \notin Range(Parked(s, i)[l])}
    BY <2>4 DEF Parked
  <2>8. Clears(s, t, i, C)
    BY <1>2, <2>2, <2>6, <2>7 DEF Clears
  <2>9. \A j \in Ids \ X :
            \/ j = i /\ {"recv", "send"} \subseteq C
            \/ j \notin X /\ (State(s, j) = "Established" => State(t, j) = "Established")
    BY <1>2 DEF State
  <2>10. C \in SUBSET Kinds
    BY DEF Kinds
  <2> HIDE DEF C
  <2>11. Hands(s, t, i, C, X, X)
    BY <1>2, <2>8, <2>9, <2>10 DEF Hands
  <2>12. Orderly(t, X)
    BY <2>11, ClearsOrderly
  <2> QED
    BY <2>12 DEF t
<1> QED
  BY <1>4, <1>5

LEMMA OrderlyMore ==
    ASSUME NEW s, NEW X, NEW Y, X \subseteq Y, Orderly(s, X)
    PROVE  Orderly(s, Y)
BY DEF Orderly

LEMMA BufferedWaits ==
    ASSUME NEW A, NEW s \in HostState(A), NEW i \in Ids, NEW r
    PROVE  LET t == Buffered(s, i, r) IN
           /\ t.sock = s.sock /\ t.open = s.open \ {r} /\ t.crashed = s.crashed
           /\ \A j \in Ids : /\ t.tcb[j].wait = s.tcb[j].wait
                             /\ t.tcb[j].sendWait = s.tcb[j].sendWait
<1> DEFINE n == s.tcb[i].sent + 1
           b == [s.tcb[i] EXCEPT !.sent = n]
           t == Buffered(s, i, r)
<1>1. s.tcb[i] \in Block(A)
  BY BlockFields
<1>2. b.wait = s.tcb[i].wait /\ b.sendWait = s.tcb[i].sendWait
  BY <1>1 DEF Block
<1>3. /\ t.sock = s.sock /\ t.open = s.open \ {r} /\ t.crashed = s.crashed
      /\ t.tcb[i] = b /\ \A j \in Ids \ {i} : t.tcb[j] = s.tcb[j]
  BY DEF Buffered, PushMessage, Push, HostState
<1> HIDE DEF b, t
<1> QED
  BY <1>2, <1>3 DEF t

\* A Send that need not wait.
LEMMA BufferedSame ==
    ASSUME NEW A, NEW s \in HostState(A), NEW i \in Ids, NEW r, r \notin s.open
    PROVE  Same(s, Buffered(s, i, r)) /\ Buffered(s, i, r).sock = s.sock
<1> DEFINE t == Buffered(s, i, r)
<1>1. /\ t.sock = s.sock /\ t.open = s.open \ {r} /\ t.crashed = s.crashed
      /\ \A j \in Ids : /\ t.tcb[j].wait = s.tcb[j].wait
                        /\ t.tcb[j].sendWait = s.tcb[j].sendWait
  BY BufferedWaits
<1> HIDE DEF t
<1>2. Same(s, t)
  <2>1. t.open = s.open
    BY <1>1
  <2> QED
    BY <1>1, <2>1 DEF Same, Parked
<1> QED
  BY <1>1, <1>2 DEF t

\* One that waited.
LEMMA ResolveSendOrderly ==
    ASSUME NEW A, Nat \subseteq A, NEW s \in HostState(A), NEW i \in Ids, NEW r, NEW X,
           Orderly(s, X), s.tcb[i].sendWait = <<r>>
    PROVE  Orderly(ResolveSend(s, i, r), X) /\ ResolveSend(s, i, r).sock = s.sock
<1>1. CASE ~HasRoom(s.tcb[i])
  BY <1>1 DEF ResolveSend
<1>2. CASE HasRoom(s.tcb[i])
  <2> DEFINE u == Buffered(s, i, r)
             b == [u.tcb[i] EXCEPT !.sendWait = Tail(@)]
             t == [u EXCEPT !.tcb[i] = b]
             C == {"send"}
  <2>1. ResolveSend(s, i, r) = t
    BY <1>2 DEF ResolveSend
  <2>2. u \in HostState(A)
    BY BufferedIs
  <2>3. /\ u.sock = s.sock /\ u.open = s.open \ {r} /\ u.crashed = s.crashed
        /\ \A j \in Ids : /\ u.tcb[j].wait = s.tcb[j].wait
                          /\ u.tcb[j].sendWait = s.tcb[j].sendWait
    BY BufferedWaits
  <2> HIDE DEF u
  <2>4. u.tcb[i] \in Block(A) /\ u.tcb[i].sendWait = <<r>> /\ Tail(<<r>>) = <<>>
    BY <2>2, <2>3, BlockFields
  <2>5. b.wait = s.tcb[i].wait /\ b.sendWait = <<>>
    BY <2>3, <2>4 DEF Block
  <2> HIDE DEF b
  <2>6. /\ t.sock = u.sock /\ t.open = u.open /\ t.crashed = u.crashed
        /\ t.tcb[i] = b /\ \A j \in Ids \ {i} : t.tcb[j] = u.tcb[j]
    BY <2>2 DEF HostState
  <2> HIDE DEF t
  <2>7. \A j \in Ids \ {i} : Parked(t, j) = Parked(s, j)
    BY <2>3, <2>6 DEF Parked
  <2>8. Parked(t, i) = [connect |-> Waiting(s.sock[i].connectWait),
                        close |-> Waiting(s.sock[i].closeWait),
                        accept |-> s.sock[i].acceptWait,
                        recv |-> s.tcb[i].wait, send |-> <<>>]
    BY <2>3, <2>5, <2>6 DEF Parked
  <2>9. \A l \in Kinds : Parked(t, i)[l] = IF l \in C THEN <<>> ELSE Parked(s, i)[l]
    BY <2>8 DEF Parked, Kinds
  <2>10. t.open = {q \in s.open : \A l \in C : q \notin Range(Parked(s, i)[l])}
    <3>1. Parked(s, i)["send"] = <<r>>
      BY DEF Parked
    <3>2. Range(Parked(s, i)["send"]) = {r}
      BY <3>1, RangeIs
    <3>3. t.open = s.open \ {r}
      BY <2>3, <2>6
    <3> QED
      BY <3>2, <3>3
  <2>11. Clears(s, t, i, C)
    BY <2>3, <2>6, <2>7, <2>9, <2>10 DEF Clears
  <2>12. \A j \in Ids \ X :
            \/ j = i /\ {"recv", "send"} \subseteq C
            \/ j \notin X /\ (State(s, j) = "Established" => State(t, j) = "Established")
    BY <2>3, <2>6 DEF State
  <2>13. C \in SUBSET Kinds
    BY DEF Kinds
  <2>14. s.crashed => t.crashed
    BY <2>3, <2>6
  <2> HIDE DEF C
  <2>15. Hands(s, t, i, C, X, X)
    BY <2>11, <2>12, <2>13, <2>14 DEF Hands
  <2>16. Orderly(t, X)
    BY <2>15, ClearsOrderly
  <2> QED
    BY <2>1, <2>3, <2>6, <2>16
<1> QED
  BY <1>1, <1>2

\* No more than one waits.
LEMMA ResolveSendsOne ==
    ASSUME NEW s, NEW i
    PROVE  /\ s.tcb[i].sendWait = <<>> => ResolveSends(s, i) = s
           /\ \A r : s.tcb[i].sendWait = <<r>> => ResolveSends(s, i) = ResolveSend(s, i, r)
<1> DEFINE waiting == s.tcb[i].sendWait
           n == Len(waiting)
           Body(g) == [k \in 0..n |-> IF k = 0 THEN s ELSE ResolveSend(g[k - 1], i, waiting[k])]
           all == CHOOSE g : g = Body(g)
<1>1. ResolveSends(s, i) = all[n]
  BY DEF ResolveSends
<1>2. ASSUME waiting = <<>>
      PROVE  ResolveSends(s, i) = s
  <2>1. n = 0
    BY <1>2
  <2>2. 0..n = {0}
    BY <2>1
  <2> DEFINE f == [k \in 0..n |-> s]
  <2>3. f = Body(f)
    BY <2>2
  <2>4. all = Body(all)
    BY <2>3
  <2> HIDE DEF all
  <2> QED
    BY <1>1, <2>1, <2>2, <2>4
<1>3. ASSUME NEW r, waiting = <<r>>
      PROVE  ResolveSends(s, i) = ResolveSend(s, i, r)
  <2>1. n = 1 /\ waiting[1] = r
    BY <1>3
  <2>2. 0..n = {0, 1}
    BY <2>1
  <2> DEFINE f == [k \in 0..n |-> IF k = 0 THEN s ELSE ResolveSend(s, i, waiting[k])]
  <2>3. f = Body(f)
    <3>1. f[0] = s
      BY <2>2
    <3>2. \A k \in 0..n : k # 0 => k - 1 = 0
      BY <2>2
    <3> QED
      BY <3>1, <3>2
  <2>4. all = Body(all)
    BY <2>3
  <2> HIDE DEF all
  <2>5. all[0] = s /\ all[1] = ResolveSend(all[1 - 1], i, waiting[1])
    BY <2>2, <2>4
  <2> QED
    BY <1>1, <2>1, <2>5
<1> QED
  BY <1>2, <1>3

LEMMA ResolveSendsOrderly ==
    ASSUME NEW A, Nat \subseteq A, NEW s \in HostState(A), NEW i \in Ids, NEW X, Orderly(s, X),
           ~s.crashed
    PROVE  Orderly(ResolveSends(s, i), X) /\ ResolveSends(s, i).sock = s.sock
<1>1. Tidy(s) /\ "send" \in Kinds
  BY DEF Orderly, Kinds
<1>2. Parked(s, i)["send"] = <<>> \/ \E r : Parked(s, i)["send"] = <<r>>
  BY <1>1, TidyOne
<1>3. Parked(s, i)["send"] = s.tcb[i].sendWait
  BY DEF Parked
<1>4. CASE s.tcb[i].sendWait = <<>>
  BY <1>4, ResolveSendsOne
<1>5. ASSUME NEW r, s.tcb[i].sendWait = <<r>>
      PROVE  Orderly(ResolveSends(s, i), X) /\ ResolveSends(s, i).sock = s.sock
  BY <1>5, ResolveSendsOne, ResolveSendOrderly
<1> QED
  BY <1>2, <1>3, <1>4, <1>5

LEMMA BackAckOrderly ==
    ASSUME NEW A, Nat \subseteq A, NEW s \in HostState(A), NEW i \in Ids, NEW n \in A,
           Orderly(s, {}), ~s.crashed
    PROVE  Orderly(BackAck(s, i, n), {})
<1> DEFINE b == [s.tcb[i] EXCEPT !.acked = n]
           u == [s EXCEPT !.tcb[i] = b]
           t == ResolveSends(u, i)
           v == BackFree(t, i)
           z == CompleteClose(v, i)
<1>1. s.tcb[i] \in Block(A)
  BY BlockFields
<1>2. /\ b \in Block(A) /\ b.live = s.tcb[i].live
      /\ b.wait = s.tcb[i].wait /\ b.sendWait = s.tcb[i].sendWait
  BY <1>1 DEF Block
<1>3. BackAck(s, i, n) \in {s, t, z}
  BY DEF BackAck
<1> HIDE DEF b
<1>4. u \in HostState(A)
  BY <1>2, CountsIs
<1>5. /\ u.sock = s.sock /\ u.open = s.open /\ u.crashed = s.crashed
      /\ u.tcb[i] = b /\ \A j \in Ids \ {i} : u.tcb[j] = s.tcb[j]
  BY DEF HostState
<1> HIDE DEF u
<1>6. Same(s, u)
  BY <1>2, <1>5 DEF Same, Parked
<1>7. Orderly(u, {}) /\ ~u.crashed
  BY <1>5, <1>6, ApartOrderly
<1>8. t \in HostState(A) /\ Orderly(t, {})
  BY <1>4, <1>7, ResolveSendsIs, ResolveSendsOrderly
<1> HIDE DEF t
<1>9. v \in HostState(A) /\ Orderly(v, {} \ {i}) /\ (v.crashed \/ Silent(v, i))
  BY <1>8, BackFreeIs, BackFreeOrderly
<1> HIDE DEF v
<1>10. Orderly(v, {})
  BY <1>9, OrderlyMore
<1>11. Orderly(z, {})
  BY <1>9, <1>10, CompleteCloseOrderly
<1> HIDE DEF z
<1> QED
  BY <1>3, <1>8, <1>11

LEMMA BackCloseOrderly ==
    ASSUME NEW A, NEW s \in HostState(A), NEW i \in Ids, Orderly(s, {}),
           s.crashed \/ Silent(s, i)
    PROVE  Orderly(BackClose(s, i), {})
<1> DEFINE b == [s.tcb[i] EXCEPT !.fin = TRUE]
           t == [s EXCEPT !.tcb[i] = b]
<1>1. s.tcb[i] \in Block(A)
  BY BlockFields
<1>2. b.wait = s.tcb[i].wait /\ b.sendWait = s.tcb[i].sendWait
  BY <1>1 DEF Block
<1>3. BackClose(s, i) \in {CompleteClose(s, i), t}
  BY DEF BackClose
<1> HIDE DEF b
<1>4. /\ t.sock = s.sock /\ t.open = s.open /\ t.crashed = s.crashed
      /\ t.tcb[i] = b /\ \A j \in Ids \ {i} : t.tcb[j] = s.tcb[j]
  BY DEF HostState
<1> HIDE DEF t
<1>5. Same(s, t)
  BY <1>2, <1>4 DEF Same, Parked
<1>6. Orderly(t, {})
  BY <1>4, <1>5, ApartOrderly
<1>7. Orderly(CompleteClose(s, i), {})
  BY CompleteCloseOrderly
<1> QED
  BY <1>3, <1>6, <1>7

\* A connection that waits for an Accept, or meets the one that waits.
LEMMA QueueListenOrderly ==
    ASSUME NEW A, NEW s \in HostState(A), NEW l \in Ids, NEW i \in Ids, NEW X, Orderly(s, X)
    PROVE  Orderly(QueueListen(s, l, i), X)
<1> DEFINE calls == s.sock[l].acceptWait
           t == QueueListen(s, l, i)
<1>1. s.sock[l] \in Socket(A)
  BY SockFields
<1>2. CASE s.crashed
  BY <1>2 DEF QueueListen, HostState, Orderly
<1>3. CASE ~s.crashed /\ calls = <<>>
  <2> DEFINE k == [s.sock[l] EXCEPT !.listenWait = Append(@, i)]
  <2>1. /\ k.connectWait = s.sock[l].connectWait /\ k.closeWait = s.sock[l].closeWait
        /\ k.acceptWait = s.sock[l].acceptWait /\ k.state = s.sock[l].state
    BY <1>1 DEF Socket
  <2>2. /\ t.sock[l] = k /\ \A j \in Ids \ {l} : t.sock[j] = s.sock[j]
        /\ t.tcb = s.tcb /\ t.open = s.open /\ t.crashed = s.crashed
    BY <1>3 DEF QueueListen, HostState
  <2> HIDE DEF t, k
  <2>3. Same(s, t) /\ \A j \in Ids : State(t, j) = State(s, j)
    BY <2>1, <2>2 DEF Same, Parked, State
  <2>4. Orderly(t, X)
    BY <2>3, SameOrderly
  <2> QED
    BY <2>4 DEF t
<1>4. CASE ~s.crashed /\ calls # <<>>
  <2> DEFINE k == [s.sock[l] EXCEPT !.acceptWait = Tail(@)]
             O == s.open \ {Head(calls)}
             C == {"accept"}
  <2>1. PICK r : calls = <<r>>
    <3>1. "accept" \in Kinds /\ Parked(s, l)["accept"] = calls
      BY DEF Kinds, Parked
    <3>2. Tidy(s)
      BY <1>4 DEF Orderly
    <3> QED
      BY <1>4, <3>1, <3>2, TidyOne
  <2>2. Tail(<<r>>) = <<>> /\ Head(<<r>>) = r
    OBVIOUS
  <2>3. /\ k.connectWait = s.sock[l].connectWait /\ k.closeWait = s.sock[l].closeWait
        /\ k.acceptWait = <<>> /\ k.state = s.sock[l].state
    BY <1>1, <2>1, <2>2 DEF Socket
  <2>4. /\ t.sock[l] = k /\ \A j \in Ids \ {l} : t.sock[j] = s.sock[j]
        /\ t.tcb = s.tcb /\ t.open = O /\ t.crashed = s.crashed
    BY <1>4 DEF QueueListen, HostState
  <2> HIDE DEF t, k
  <2>5. \A j \in Ids \ {l} : Parked(t, j) = Parked(s, j)
    BY <2>4 DEF Parked
  <2>6. Parked(t, l) = [connect |-> Waiting(s.sock[l].connectWait),
                        close |-> Waiting(s.sock[l].closeWait), accept |-> <<>>,
                        recv |-> s.tcb[l].wait, send |-> s.tcb[l].sendWait]
    BY <2>3, <2>4 DEF Parked
  <2>7. \A m \in Kinds : Parked(t, l)[m] = IF m \in C THEN <<>> ELSE Parked(s, l)[m]
    BY <2>6 DEF Parked, Kinds
  <2>8. O = {q \in s.open : \A m \in C : q \notin Range(Parked(s, l)[m])}
    <3>1. Parked(s, l)["accept"] = <<r>> /\ O = s.open \ {r}
      BY <2>1, <2>2 DEF Parked
    <3> HIDE DEF O
    <3> QED
      BY <3>1, RangeIs
  <2> HIDE DEF O
  <2>9. Clears(s, t, l, C)
    BY <2>4, <2>5, <2>7, <2>8 DEF Clears
  <2>10. \A j \in Ids \ X :
            \/ j = l /\ {"recv", "send"} \subseteq C
            \/ j \notin X /\ (State(s, j) = "Established" => State(t, j) = "Established")
    BY <2>3, <2>4 DEF State
  <2>11. C \in SUBSET Kinds
    BY DEF Kinds
  <2>12. (s.crashed => t.crashed) /\ (t.crashed \/ Clears(s, t, l, C))
    BY <2>4, <2>9
  <2> HIDE DEF C, calls
  <2>13. Hands(s, t, l, C, X, X)
    BY <2>10, <2>11, <2>12 DEF Hands
  <2>14. Orderly(t, X)
    BY <2>13, ClearsOrderly
  <2> QED
    BY <2>14 DEF t
<1> QED
  BY <1>2, <1>3, <1>4

\* Resetting only answers requests.
LEMMA ResetQueuedOrderly ==
    ASSUME NEW A, Nat \subseteq A, NEW s \in HostState(A), NEW i \in Ids, NEW X, Orderly(s, X)
    PROVE  LET t == ResetQueued(s, i) IN Orderly(t, X) /\ t.open \subseteq s.open
<1> DEFINE r == SendShort(s, i, "Rst")
           c == FreeCalls(r, i)
           f == BackFree(c, i)
           t == IF State(s, i) \in {"Listening", "Closed"} THEN r ELSE f
           u == Goto(t, i, "Nil")
<1>1. ResetQueued(s, i) = u
  BY DEF ResetQueued
<1>2. r \in HostState(A) /\ r.sock = s.sock /\ r.open = s.open /\ Orderly(r, X)
  BY SendShortIs, SendShortSame, SendShortOrderly DEF Flags, Same
<1> HIDE DEF r
<1>3. c \in HostState(A) /\ Orderly(c, X) /\ c.open \subseteq r.open
  <2>1. c.open \subseteq r.open
    BY <1>2 DEF FreeCalls, Fail, HostState
  <2> HIDE DEF c
  <2> QED
    BY <1>2, <2>1, FreeCallsIs, FreeCallsOrderly DEF c
<1> HIDE DEF c
<1>4. /\ f \in HostState(A) /\ Orderly(f, X \ {i}) /\ (f.crashed \/ Silent(f, i))
      /\ f.open \subseteq c.open
  <2>1. f.open \subseteq c.open
    BY <1>3 DEF BackFree, Fail, HostState
  <2> HIDE DEF f
  <2> QED
    BY <1>3, <2>1, BackFreeIs, BackFreeOrderly DEF f
<1> HIDE DEF f
<1>5. Orderly(f, X)
  BY <1>4, OrderlyMore
<1>6. /\ t \in HostState(A) /\ Orderly(t, X) /\ t.open \subseteq s.open
      /\ i \in X \/ t.crashed \/ Silent(t, i)
  <2>1. CASE State(s, i) \in {"Listening", "Closed"}
    <3>1. State(r, i) # "Established"
      BY <1>2, <2>1 DEF State
    <3>2. i \in X \/ r.crashed \/ Silent(r, i)
      BY <1>2, <3>1, SilentIs
    <3> QED
      BY <1>2, <2>1, <3>2
  <2>2. CASE State(s, i) \notin {"Listening", "Closed"}
    BY <1>2, <1>3, <1>4, <1>5, <2>2
  <2> QED
    BY <2>1, <2>2
<1> HIDE DEF t
<1>7. Orderly(u, X)
  BY <1>6, GotoOrderly
<1>8. u.open = t.open
  BY <1>6 DEF Goto, HostState
<1> QED
  BY <1>1, <1>6, <1>7, <1>8

LEMMA ResetAllOrderly ==
    ASSUME NEW A, Nat \subseteq A, NEW s \in HostState(A), NEW queue \in Seq(Ids), NEW X,
           Orderly(s, X)
    PROVE  LET t == ResetAll(s, queue) IN Orderly(t, X) /\ t.open \subseteq s.open
<1> DEFINE T == {t \in HostState(A) : Orderly(t, X) /\ t.open \subseteq s.open}
<1>1. ASSUME NEW t \in T, NEW j \in Ids
      PROVE  ResetQueued(t, j) \in T
  <2>1. ResetQueued(t, j) \in HostState(A)
    BY ResetQueuedIs
  <2>2. Orderly(ResetQueued(t, j), X) /\ ResetQueued(t, j).open \subseteq t.open
    BY ResetQueuedOrderly
  <2> QED
    BY <2>1, <2>2
<1>2. s \in T
  OBVIOUS
<1> HIDE DEF T
<1>3. ResetAll(s, queue) \in T
  BY <1>1, <1>2, ResetAllStays
<1> QED
  BY <1>3 DEF T

LEMMA FreeWaitOrderly ==
    ASSUME NEW A, Nat \subseteq A, NEW s \in HostState(A), NEW i \in Ids, NEW X, Orderly(s, X)
    PROVE  LET t == FreeWait(s, i) IN Orderly(t, X) /\ t.open \subseteq s.open
<1> DEFINE queue == s.sock[i].listenWait
           c == FreeCalls(s, i)
           r == ResetAll(c, queue)
           k == [r.sock[i] EXCEPT !.listenWait = <<>>]
           t == [r EXCEPT !.sock[i] = k]
<1>1. FreeWait(s, i) = t
  BY DEF FreeWait
<1>2. queue \in Seq(Ids)
  BY SockFields
<1>3. c \in HostState(A) /\ Orderly(c, X) /\ c.open \subseteq s.open
  <2>1. c.open \subseteq s.open
    BY DEF FreeCalls, Fail, HostState
  <2> HIDE DEF c
  <2> QED
    BY <2>1, FreeCallsIs, FreeCallsOrderly DEF c
<1> HIDE DEF c, queue
<1>4. r \in HostState(A) /\ Orderly(r, X) /\ r.open \subseteq c.open
  BY <1>2, <1>3, ResetAllIs, ResetAllOrderly
<1> HIDE DEF r
<1>5. r.sock[i] \in Socket(A)
  BY <1>4, SockFields
<1>6. /\ k.connectWait = r.sock[i].connectWait /\ k.closeWait = r.sock[i].closeWait
      /\ k.acceptWait = r.sock[i].acceptWait /\ k.state = r.sock[i].state
  BY <1>5 DEF Socket
<1> HIDE DEF k
<1>7. /\ t.sock[i] = k /\ \A j \in Ids \ {i} : t.sock[j] = r.sock[j]
      /\ t.tcb = r.tcb /\ t.open = r.open /\ t.crashed = r.crashed
  BY <1>4 DEF HostState
<1> HIDE DEF t
<1>8. Same(r, t) /\ \A j \in Ids : State(t, j) = State(r, j)
  BY <1>6, <1>7 DEF Same, Parked, State
<1>9. Orderly(t, X)
  BY <1>4, <1>8, SameOrderly
<1> QED
  BY <1>1, <1>3, <1>4, <1>7, <1>9

LEMMA ResetSocketOrderly ==
    ASSUME NEW A, Nat \subseteq A, NEW s \in HostState(A), NEW i \in Ids, Orderly(s, {})
    PROVE  Orderly(ResetSocket(s, i), {})
<1> DEFINE g == Goto(s, i, "Closed")
           w == FreeWait(g, i)
           t == BackFree(w, i)
<1>1. ResetSocket(s, i) \in {s, t}
  BY DEF ResetSocket
<1>2. g \in HostState(A) /\ Orderly(g, {i})
  <2>1. Orderly(s, {i})
    BY OrderlyMore
  <2> QED
    BY <2>1, GotoIs, GotoOrderly DEF SocketStates
<1> HIDE DEF g
<1>3. w \in HostState(A) /\ Orderly(w, {i})
  BY <1>2, FreeWaitIs, FreeWaitOrderly
<1> HIDE DEF w
<1>4. Orderly(t, {i} \ {i})
  BY <1>3, BackFreeOrderly
<1> HIDE DEF t
<1>5. Orderly(t, {})
  BY <1>4, OrderlyMore
<1> QED
  BY <1>1, <1>5

\* A socket that was not open goes on to another state.
LEMMA ShiftOrderly ==
    ASSUME NEW A, NEW s \in HostState(A), NEW i \in Ids, NEW state \in SocketStates,
           Orderly(s, {}), State(s, i) # "Established"
    PROVE  Goto(s, i, state) \in HostState(A) /\ Orderly(Goto(s, i, state), {})
<1>1. s.crashed \/ Silent(s, i)
  BY SilentIs
<1> QED
  BY <1>1, GotoIs, GotoOrderly

\* It opens.
LEMMA OpeningOrderly ==
    ASSUME NEW A, NEW s \in HostState(A), NEW i \in Ids, Orderly(s, {}),
           State(s, i) # "Established"
    PROVE  Orderly(BackEstablish(Goto(s, i, "Established"), i), {})
<1> DEFINE g == Goto(s, i, "Established")
<1>1. g \in HostState(A) /\ Orderly(g, {}) /\ Same(s, g)
  BY ShiftOrderly, GotoSame DEF SocketStates
<1>2. s.crashed \/ Silent(s, i)
  BY SilentIs
<1> HIDE DEF g
<1>3. g.crashed \/ Silent(g, i)
  BY <1>1, <1>2 DEF Same, Silent
<1>4. Orderly(BackEstablish(g, i), {})
  BY <1>1, <1>3, BackEstablishOrderly
<1> QED
  BY <1>4 DEF g

\* h leaves behind a state of the right shape in which requests are in order.
Lands(A, h) == \E w, t : Leaves(h, w, t) /\ t \in HostState(A) /\ Orderly(t, {})

LEMMA SynAckLands ==
    ASSUME NEW A, Nat \subseteq A, NEW h \in Hosts, host[h] \in HostState(A),
           Orderly(host[h], {}), NEW i \in Ids, NEW w, OnSynAck(h, i, w)
    PROVE  Lands(A, h)
<1> DEFINE s == host[h]
           b == BackEstablish(Goto(s, i, "Established"), i)
           r == ReturnConnect(b, i)
           t == SendShort(r, i, "Ack")
<1>1. State(s, i) = "Syn_Sent" /\ Leaves(h, w, t)
  BY DEF OnSynAck
<1>2. b \in HostState(A) /\ Orderly(b, {})
  BY <1>1, OpeningIs, OpeningOrderly
<1> HIDE DEF b
<1>3. r \in HostState(A) /\ Orderly(r, {})
  BY <1>2, ReturnConnectIs, ReturnConnectOrderly
<1> HIDE DEF r
<1>4. t \in HostState(A) /\ Orderly(t, {})
  BY <1>3, SendShortIs, SendShortOrderly DEF Flags
<1> HIDE DEF t
<1> QED
  BY <1>1, <1>4 DEF Lands

LEMMA SynLands ==
    ASSUME NEW A, Nat \subseteq A, NEW h \in Hosts, host[h] \in HostState(A),
           Orderly(host[h], {}), NEW g \in Hosts, NEW p, p.sport \in A, NEW w, NEW i \in Ids,
           OnSyn(h, i, g, p, w)
    PROVE  Lands(A, h)
<1> DEFINE s == host[h]
           child == Min(Unused(s))
<1>1. CASE State(s, i) = "Established" /\ Leaves(h, w, BackData(s, i, p.n))
  <2>1. BackData(s, i, p.n) \in HostState(A) /\ Orderly(BackData(s, i, p.n), {})
    BY BackDataIs, BackDataOrderly
  <2> QED
    BY <1>1, <2>1 DEF Lands
<1> DEFINE created == [s EXCEPT !.sock[child] =
                          [@ EXCEPT !.state = "Syn_Rcvd", !.ip = g,
                                    !.sport = s.sock[i].sport, !.dport = p.sport]]
           t == SendShort(created, child, "SynAck")
<1>2. CASE State(s, i) = "Listening" /\ Unused(s) # {} /\ Leaves(h, w, t)
  <2>1. child \in Ids /\ State(s, child) = "Nil"
    <3>1. Unused(s) \subseteq Ids
      BY DEF Unused
    <3>2. child \in Unused(s)
      BY <1>2, <3>1, MinIn
    <3> QED
      BY <3>2 DEF Unused
  <2> HIDE DEF child
  <2> DEFINE k == [s.sock[child] EXCEPT !.state = "Syn_Rcvd", !.ip = g,
                                        !.sport = s.sock[i].sport, !.dport = p.sport]
  <2>2. /\ s.sock[child] \in Socket(A) /\ s.sock[i].sport \in A
        /\ created = [s EXCEPT !.sock[child] = k]
    BY <2>1, SockFields
  <2>3. /\ k \in Socket(A) /\ k.connectWait = s.sock[child].connectWait
        /\ k.closeWait = s.sock[child].closeWait /\ k.acceptWait = s.sock[child].acceptWait
    BY <2>2 DEF Socket, SocketStates
  <2> HIDE DEF k, created
  <2>4. /\ created \in HostState(A) /\ created.sock[child] = k /\ created.tcb = s.tcb
        /\ \A j \in Ids \ {child} : created.sock[j] = s.sock[j]
    BY <2>1, <2>2, <2>3, SockIs
  <2>5. created.open = s.open /\ created.crashed = s.crashed
    BY <2>2 DEF HostState
  <2>6. Same(s, created)
    BY <2>3, <2>4, <2>5 DEF Same, Parked
  <2>7. Orderly(created, {})
    <3>1. \A j \in Ids : State(s, j) = "Established" => State(created, j) = "Established"
      BY <2>1, <2>4 DEF State
    <3> QED
      BY <2>6, <3>1, SameOrderly
  <2>8. t \in HostState(A) /\ Orderly(t, {})
    BY <2>1, <2>4, <2>7, SendShortIs, SendShortOrderly DEF Flags
  <2> QED
    BY <1>2, <2>8 DEF Lands
<1> QED
  BY <1>1, <1>2 DEF OnSyn

LEMMA FinLands ==
    ASSUME NEW A, Nat \subseteq A, NEW h \in Hosts, host[h] \in HostState(A),
           Orderly(host[h], {}), NEW i \in Ids, NEW w, OnFin(h, i, w)
    PROVE  Lands(A, h)
<1> DEFINE s == host[h]
<1>1. CASE /\ State(s, i) = "Established"
           /\ Leaves(h, w, BackFree(SendShort(Goto(s, i, "Close_Wait"), i, "Ack"), i))
  <2> DEFINE g == Goto(s, i, "Close_Wait")
             u == SendShort(g, i, "Ack")
             t == BackFree(u, i)
  <2>1. g \in HostState(A) /\ Orderly(g, {i})
    <3>1. Orderly(s, {i})
      BY OrderlyMore
    <3> QED
      BY <3>1, GotoIs, GotoOrderly DEF SocketStates
  <2> HIDE DEF g
  <2>2. u \in HostState(A) /\ Orderly(u, {i})
    BY <2>1, SendShortIs, SendShortOrderly DEF Flags
  <2> HIDE DEF u
  <2>3. t \in HostState(A) /\ Orderly(t, {i} \ {i})
    BY <2>2, BackFreeIs, BackFreeOrderly
  <2> HIDE DEF t
  <2>4. Orderly(t, {})
    BY <2>3, OrderlyMore
  <2> QED
    BY <1>1, <2>3, <2>4 DEF Lands, t, u, g
<1>2. CASE /\ State(s, i) = "Fin_Wait1"
           /\ Leaves(h, w, SendShort(Goto(s, i, "Closing"), i, "Ack"))
  <2> DEFINE g == Goto(s, i, "Closing")
             t == SendShort(g, i, "Ack")
  <2>1. g \in HostState(A) /\ Orderly(g, {})
    BY <1>2, ShiftOrderly DEF SocketStates
  <2> HIDE DEF g
  <2>2. t \in HostState(A) /\ Orderly(t, {})
    BY <2>1, SendShortIs, SendShortOrderly DEF Flags
  <2> HIDE DEF t
  <2> QED
    BY <1>2, <2>2 DEF Lands, t, g
<1>3. CASE /\ State(s, i) = "Fin_Wait2"
           /\ Leaves(h, w, SendShort(ReturnClose(Goto(s, i, "Closed"), i), i, "Ack"))
  <2> DEFINE g == Goto(s, i, "Closed")
             r == ReturnClose(g, i)
             t == SendShort(r, i, "Ack")
  <2>1. g \in HostState(A) /\ Orderly(g, {})
    BY <1>3, ShiftOrderly DEF SocketStates
  <2> HIDE DEF g
  <2>2. r \in HostState(A) /\ Orderly(r, {})
    BY <2>1, ReturnCloseIs, ReturnCloseOrderly
  <2> HIDE DEF r
  <2>3. t \in HostState(A) /\ Orderly(t, {})
    BY <2>2, SendShortIs, SendShortOrderly DEF Flags
  <2> HIDE DEF t
  <2> QED
    BY <1>3, <2>3 DEF Lands, t, r, g
<1> QED
  BY <1>1, <1>2, <1>3 DEF OnFin

LEMMA AckLands ==
    ASSUME NEW A, Nat \subseteq A, NEW h \in Hosts, host[h] \in HostState(A),
           Orderly(host[h], {}), ~host[h].crashed, NEW i \in Ids, NEW p, p.n \in A, NEW w,
           OnAck(h, i, p, w)
    PROVE  Lands(A, h)
<1> DEFINE s == host[h]
           listeners == Listeners(s, s.sock[i].sport)
<1>1. CASE State(s, i) = "Established" /\ Leaves(h, w, BackAck(s, i, p.n))
  <2>1. BackAck(s, i, p.n) \in HostState(A) /\ Orderly(BackAck(s, i, p.n), {})
    BY <1>1, BackAckIs, BackAckOrderly
  <2> QED
    BY <1>1, <2>1 DEF Lands
<1>2. CASE /\ State(s, i) = "Syn_Rcvd"
           /\ Leaves(h, w, ResetSocket(SendShort(s, i, "Rst"), i))
  <2> DEFINE u == SendShort(s, i, "Rst")
             t == ResetSocket(u, i)
  <2>1. u \in HostState(A) /\ u.sock = s.sock /\ Orderly(u, {})
    <3>1. "Rst" \in Flags
      BY DEF Flags
    <3>2. u \in HostState(A)
      BY <3>1, SendShortIs DEF Flags
    <3>3. u.sock = s.sock
      BY <3>1, SendShortSame
    <3>4. Orderly(u, {})
      BY <3>1, SendShortOrderly
    <3> QED
      BY <3>2, <3>3, <3>4
  <2> HIDE DEF u
  <2>2. State(u, i) # "Nil"
    BY <1>2, <2>1 DEF State
  <2>3. t \in HostState(A) /\ Orderly(t, {})
    BY <2>1, <2>2, ResetSocketIs, ResetSocketOrderly
  <2> HIDE DEF t
  <2> QED
    BY <1>2, <2>3 DEF Lands, t, u
<1>3. CASE /\ State(s, i) = "Syn_Rcvd" /\ listeners # {}
           /\ Leaves(h, w, QueueListen(BackEstablish(Goto(s, i, "Established"), i),
                                       Min(listeners), i))
  <2> DEFINE l == Min(listeners)
             b == BackEstablish(Goto(s, i, "Established"), i)
             t == QueueListen(b, l, i)
  <2>1. l \in Ids
    <3>1. listeners \subseteq Ids
      BY DEF Listeners, Bound
    <3>2. l \in listeners
      BY <1>3, <3>1, MinIn
    <3> QED
      BY <3>1, <3>2
  <2>2. Leaves(h, w, t)
    BY <1>3
  <2> HIDE DEF l
  <2>3. b \in HostState(A) /\ Orderly(b, {})
    BY <1>3, OpeningIs, OpeningOrderly
  <2> HIDE DEF b
  <2>4. t \in HostState(A) /\ Orderly(t, {})
    BY <2>1, <2>3, QueueListenIs, QueueListenOrderly
  <2> HIDE DEF t
  <2> QED
    BY <2>2, <2>4 DEF Lands
<1>4. CASE State(s, i) = "Fin_Wait1" /\ Leaves(h, w, Goto(s, i, "Fin_Wait2"))
  <2>1. Goto(s, i, "Fin_Wait2") \in HostState(A) /\ Orderly(Goto(s, i, "Fin_Wait2"), {})
    BY <1>4, ShiftOrderly DEF SocketStates
  <2> QED
    BY <1>4, <2>1 DEF Lands
<1>5. CASE /\ State(s, i) \in {"Closing", "Last_Ack"}
           /\ Leaves(h, w, ReturnClose(Goto(s, i, "Closed"), i))
  <2> DEFINE g == Goto(s, i, "Closed")
             t == ReturnClose(g, i)
  <2>1. g \in HostState(A) /\ Orderly(g, {})
    BY <1>5, ShiftOrderly DEF SocketStates
  <2> HIDE DEF g
  <2>2. t \in HostState(A) /\ Orderly(t, {})
    BY <2>1, ReturnCloseIs, ReturnCloseOrderly
  <2> HIDE DEF t
  <2> QED
    BY <1>5, <2>2 DEF Lands, t, g
<1> QED
  BY <1>1, <1>2, <1>3, <1>4, <1>5 DEF OnAck

LEMMA ArrivalLands ==
    ASSUME NEW A, Nat \subseteq A, NEW g \in Hosts, NEW h \in Hosts,
           host[h] \in HostState(A), Orderly(host[h], {}),
           Head(wire[<<g, h>>]).sport \in A, Head(wire[<<g, h>>]).dport \in A,
           Head(wire[<<g, h>>]).n \in A,
           PacketArrives(g, h)
    PROVE  Lands(A, h)
<1> DEFINE c == <<g, h>>
           p == Head(wire[c])
           s == host[h]
           connected == Connected(s, g, p.dport, p.sport)
           found == IF connected # {} THEN connected ELSE Listeners(s, p.dport)
           i == Min(found)
           w == Without(c)
<1>1. found \subseteq Ids /\ \A j \in found : State(s, j) # "Nil"
  BY DEF Connected, Listeners, Bound
<1>2. found # {} => i \in found
  BY <1>1, MinIn
<1>3. \/ /\ found = {}
         /\ Leaves(h, w, IF p.flag = "Rst" THEN s ELSE Push(s, g, p.dport, p.sport, "Rst", 0))
      \/ found # {} /\ Leaves(h, w, s)
      \/ found # {} /\ OnRst(h, i, w)
      \/ found # {} /\ OnSynAck(h, i, w)
      \/ found # {} /\ OnSyn(h, i, g, p, w)
      \/ found # {} /\ OnFin(h, i, w)
      \/ found # {} /\ OnAck(h, i, p, w)
  BY DEF PacketArrives
<1>4. ~s.crashed
  BY DEF PacketArrives
<1> HIDE DEF w, i, p
<1>5. p.sport \in A /\ p.dport \in A /\ p.n \in A
  BY DEF p
<1>6. found # {} => i \in Ids /\ State(s, i) # "Nil"
  BY <1>1, <1>2
<1> HIDE DEF found
<1>7. CASE Leaves(h, w, IF p.flag = "Rst" THEN s ELSE Push(s, g, p.dport, p.sport, "Rst", 0))
  <2> DEFINE u == Push(s, g, p.dport, p.sport, "Rst", 0)
  <2>1. u \in HostState(A)
    BY <1>5, PushIs DEF Flags
  <2>2. Orderly(u, {})
    BY PushSame, ApartOrderly
  <2> HIDE DEF u
  <2>3. Leaves(h, w, s) \/ Leaves(h, w, u)
    BY <1>7 DEF u
  <2> QED
    BY <2>1, <2>2, <2>3 DEF Lands
<1>8. CASE Leaves(h, w, s)
  BY <1>8 DEF Lands
<1>9. CASE found # {} /\ OnRst(h, i, w)
  <2> DEFINE t == ResetSocket(s, i)
  <2>1. t \in HostState(A) /\ Orderly(t, {})
    BY <1>6, <1>9, ResetSocketIs, ResetSocketOrderly
  <2> QED
    BY <1>9, <2>1 DEF OnRst, Lands
<1>10. CASE found # {} /\ OnSynAck(h, i, w)
  BY <1>6, <1>10, SynAckLands
<1>11. CASE found # {} /\ OnSyn(h, i, g, p, w)
  BY <1>5, <1>6, <1>11, SynLands
<1>12. CASE found # {} /\ OnFin(h, i, w)
  BY <1>6, <1>12, FinLands
<1>13. CASE found # {} /\ OnAck(h, i, p, w)
  BY <1>4, <1>5, <1>6, <1>13, AckLands
<1> QED
  BY <1>3, <1>7, <1>8, <1>9, <1>10, <1>11, <1>12, <1>13

\* An application with one request at a time has none when it makes one; one
\* that may have more is looked at when it has none.
LEMMA CallsIdle ==
    ASSUME NEW A, NEW h \in Hosts, host[h] \in HostState(A),
           Orderly(host[h], {}), MaxOpen = 1 \/ host[h].open = {},
           NEW m, Calls(h, m)
    PROVE  /\ Idle(host[h]) /\ ~host[h].crashed /\ Request(h) \in Requests
           /\ Asks(h) \in HostState(A) /\ Asks(h).open = {Request(h)}
           /\ Asks(h).sock = host[h].sock /\ Asks(h).tcb = host[h].tcb
<1>1. ~host[h].crashed /\ host[h].open # Requests /\ host[h].open \in SUBSET Requests
  BY DEF Calls, HostState
<1>2. MaxOpen = 1 => Requests = {1}
  BY DEF Requests
<1>3. host[h].open = {}
  BY <1>1, <1>2
<1>4. Tidy(host[h])
  BY <1>1 DEF Orderly
<1>5. Idle(host[h])
  BY <1>3, <1>4 DEF Tidy, Busy
<1>6. Request(h) \in Requests /\ Asks(h) \in HostState(A) /\ Apart(host[h], Asks(h))
  BY AsksIs
<1>7. Asks(h).open = {Request(h)}
  BY <1>3 DEF Asks, HostState
<1> QED
  BY <1>1, <1>5, <1>6, <1>7 DEF Apart

LEMMA IdleOrderly ==
    ASSUME NEW s, NEW t, Idle(s), Same(s, t)
    PROVE  Idle(t) /\ Orderly(t, {})
<1>1. Idle(t)
  BY DEF Idle, Same
<1>2. \A j \in Ids : Silent(t, j)
  BY <1>1 DEF Idle, Silent, Kinds
<1> QED
  BY <1>1, <1>2 DEF Orderly, Tidy

\* The one request r is held for socket i.
LEMMA AskedOrderly ==
    ASSUME NEW s, NEW t, NEW r \in Requests, NEW i \in Ids, NEW l \in Kinds, Idle(s),
           t.open = {r}, \A j \in Ids \ {i} : Parked(t, j) = Parked(s, j),
           \A k \in Kinds : Parked(t, i)[k] = IF k = l THEN <<r>> ELSE Parked(s, i)[k],
           l \in {"recv", "send"} => State(t, i) = "Established"
    PROVE  Orderly(t, {}) /\ (l \notin {"recv", "send"} => Silent(t, i))
<1>1. Busy(t, i, l, r)
  BY DEF Busy, Idle
<1>2. "recv" \in Kinds /\ "send" \in Kinds
  BY DEF Kinds
<1>3. \A j \in Ids : j # i => Silent(t, j)
  BY <1>1, <1>2 DEF Busy, Silent
<1>4. l \notin {"recv", "send"} => Silent(t, i)
  BY <1>1, <1>2 DEF Busy, Silent
<1> QED
  BY <1>1, <1>3, <1>4 DEF Orderly, Tidy

LEMMA NewLands ==
    ASSUME NEW A, Nat \cup Ports \subseteq A, NEW h \in Hosts,
           host[h] \in HostState(A), Orderly(host[h], {}), MaxOpen = 1 \/ host[h].open = {},
           New(h)
    PROVE  Lands(A, h)
<1> DEFINE s == host[h]
           i == Min(Unused(s))
<1>1. i \in Ids
  <2>1. Unused(s) # {} /\ Unused(s) \subseteq Ids
    BY DEF New, Unused
  <2>2. i \in Unused(s)
    BY <2>1, MinIn
  <2> QED
    BY <2>2 DEF Unused
<1>2. PICK port \in Ports :
         Leaves(h, wire, [Goto(s, i, "Closed") EXCEPT !.sock[i].sport = port,
                                                      !.owned = @ \cup {i}])
  BY DEF New
<1>3. Idle(s)
  <2>1. Calls(h, "New")
    BY DEF New
  <2> QED
    BY <2>1, CallsIdle
<1> DEFINE k == [s.sock[i] EXCEPT !.state = "Closed", !.sport = port]
           u == [s EXCEPT !.owned = @ \cup {i}]
           t == [u EXCEPT !.sock[i] = k]
<1> HIDE DEF i
<1>4. s \in HostState(A) /\ s.sock[i] \in Socket(A) /\ port \in A
  BY <1>1, SockFields
<1>5. t = [Goto(s, i, "Closed") EXCEPT !.sock[i].sport = port, !.owned = @ \cup {i}]
  BY <1>1, <1>4 DEF Goto, HostState
<1>6. /\ k \in Socket(A) /\ k.connectWait = s.sock[i].connectWait
      /\ k.closeWait = s.sock[i].closeWait /\ k.acceptWait = s.sock[i].acceptWait
  BY <1>4 DEF Socket, SocketStates
<1> HIDE DEF k
<1>7. u \in HostState(A) /\ u.sock = s.sock /\ u.tcb = s.tcb /\ u.open = s.open /\ u.crashed = s.crashed
  BY <1>1, <1>4 DEF HostState
<1> HIDE DEF u
<1>8. /\ t \in HostState(A) /\ t.sock[i] = k /\ t.tcb = u.tcb /\ t.open = u.open
      /\ \A j \in Ids \ {i} : t.sock[j] = u.sock[j]
  BY <1>1, <1>6, <1>7, SockIs
<1>9. t.crashed = u.crashed
  BY <1>7 DEF HostState
<1>10. Leaves(h, wire, t)
  BY <1>2, <1>5 DEF i
<1> HIDE DEF t
<1>11. Same(s, t)
  BY <1>6, <1>7, <1>8, <1>9 DEF Same, Parked
<1>12. Orderly(t, {})
  BY <1>3, <1>11, IdleOrderly
<1> QED
  BY <1>8, <1>10, <1>12 DEF Lands

LEMMA ListenLands ==
    ASSUME NEW A, NEW h \in Hosts, host[h] \in HostState(A),
           Orderly(host[h], {}), MaxOpen = 1 \/ host[h].open = {},
           NEW i \in Ids, Listen(h, i)
    PROVE  Lands(A, h)
<1> DEFINE s == host[h]
           t == Goto(s, i, "Listening")
<1>1. Leaves(h, wire, t) /\ State(s, i) = "Closed"
  BY DEF Listen
<1>2. t \in HostState(A) /\ Orderly(t, {})
  BY <1>1, ShiftOrderly DEF SocketStates
<1> QED
  BY <1>1, <1>2 DEF Lands

LEMMA FreeLands ==
    ASSUME NEW A, NEW h \in Hosts, host[h] \in HostState(A), Orderly(host[h], {}),
           NEW i \in Ids, Free(h, i)
    PROVE  Lands(A, h)
<1> DEFINE s == host[h]
           g == Goto(s, i, "Nil")
           t == [g EXCEPT !.owned = @ \ {i}]
<1>1. Leaves(h, wire, t) /\ State(s, i) = "Closed"
  BY DEF Free
<1>2. g \in HostState(A) /\ Orderly(g, {})
  BY <1>1, ShiftOrderly DEF SocketStates
<1> HIDE DEF g
<1>3. /\ t \in HostState(A) /\ t.sock = g.sock /\ t.tcb = g.tcb /\ t.open = g.open
      /\ t.crashed = g.crashed
  BY <1>2 DEF HostState
<1> HIDE DEF t
<1>4. Same(g, t)
  BY <1>3 DEF Same, Parked
<1>5. Orderly(t, {})
  BY <1>2, <1>3, <1>4, ApartOrderly
<1> QED
  BY <1>1, <1>3, <1>5 DEF Lands

LEMMA AcceptLands ==
    ASSUME NEW A, NEW h \in Hosts, host[h] \in HostState(A),
           Orderly(host[h], {}), MaxOpen = 1 \/ host[h].open = {},
           NEW i \in Ids, Accept(h, i)
    PROVE  Lands(A, h)
<1> DEFINE s == host[h]
           queue == s.sock[i].listenWait
           a == Asks(h)
           r == Request(h)
<1>1. /\ r \in Requests /\ a \in HostState(A) /\ Idle(s)
      /\ a.sock = s.sock /\ a.tcb = s.tcb /\ a.open = {r}
  <2>1. Calls(h, "Accept")
    BY DEF Accept
  <2> QED
    BY <2>1, CallsIdle
<1> HIDE DEF a, r
<1>2. a.sock = s.sock /\ a.tcb = s.tcb /\ a.open = {r}
  BY <1>1
<1>3. s.sock[i] \in Socket(A) /\ queue \in Seq(Ids)
  BY SockFields
<1>4. CASE Leaves(h, wire, [a EXCEPT !.sock[i].acceptWait = Append(@, r)])
  <2> DEFINE k == [a.sock[i] EXCEPT !.acceptWait = Append(@, r)]
             t == [a EXCEPT !.sock[i] = k]
  <2>1. Leaves(h, wire, t)
    BY <1>4
  <2>2. s.sock[i].acceptWait = <<>>
    <3>1. Parked(s, i)["accept"] = <<>>
      BY <1>1 DEF Idle, Kinds
    <3> QED
      BY <3>1 DEF Parked
  <2>3. Append(<<>>, r) = <<r>> /\ <<r>> \in Seq(Requests)
    BY <1>1
  <2>4. /\ k \in Socket(A) /\ k.connectWait = s.sock[i].connectWait
        /\ k.closeWait = s.sock[i].closeWait /\ k.acceptWait = <<r>>
    BY <1>2, <1>3, <2>2, <2>3 DEF Socket
  <2> HIDE DEF k
  <2>5. /\ t \in HostState(A) /\ t.sock[i] = k /\ t.tcb = a.tcb /\ t.open = a.open
        /\ \A j \in Ids \ {i} : t.sock[j] = a.sock[j]
    BY <1>1, <2>4, SockIs
  <2> HIDE DEF t
  <2>6. \A j \in Ids \ {i} : Parked(t, j) = Parked(s, j)
    BY <1>2, <2>5 DEF Parked
  <2>7. Parked(t, i) = [connect |-> Waiting(s.sock[i].connectWait),
                        close |-> Waiting(s.sock[i].closeWait), accept |-> <<r>>,
                        recv |-> s.tcb[i].wait, send |-> s.tcb[i].sendWait]
    BY <1>2, <2>4, <2>5 DEF Parked
  <2>8. \A l \in Kinds : Parked(t, i)[l] = IF l = "accept" THEN <<r>> ELSE Parked(s, i)[l]
    BY <2>7 DEF Parked, Kinds
  <2>9. "accept" \in Kinds
    BY DEF Kinds
  <2>10. Orderly(t, {})
    BY <1>1, <1>2, <2>5, <2>6, <2>8, <2>9, AskedOrderly
  <2> QED
    BY <2>1, <2>5, <2>10 DEF Lands
<1>5. CASE /\ queue # <<>>
           /\ Leaves(h, wire, [s EXCEPT !.sock[i].listenWait = Tail(@),
                                        !.owned = @ \cup {Head(queue)}])
  <2> DEFINE k == [s.sock[i] EXCEPT !.listenWait = Tail(@)]
             u == [s EXCEPT !.owned = @ \cup {Head(queue)}]
             t == [u EXCEPT !.sock[i] = k]
  <2>1. t = [s EXCEPT !.sock[i].listenWait = Tail(@), !.owned = @ \cup {Head(queue)}]
    BY DEF HostState
  <2>2. Leaves(h, wire, t)
    BY <1>5, <2>1
  <2>3. Tail(queue) \in Seq(Ids) /\ Head(queue) \in Ids
    BY <1>3, <1>5
  <2>4. /\ k \in Socket(A) /\ k.connectWait = s.sock[i].connectWait
        /\ k.closeWait = s.sock[i].closeWait /\ k.acceptWait = s.sock[i].acceptWait
    BY <1>3, <2>3 DEF Socket
  <2>5. /\ u \in HostState(A) /\ u.sock = s.sock /\ u.tcb = s.tcb /\ u.open = s.open
        /\ u.crashed = s.crashed
    BY <2>3 DEF HostState
  <2> HIDE DEF k, u
  <2>6. /\ t \in HostState(A) /\ t.sock[i] = k /\ t.tcb = u.tcb /\ t.open = u.open
        /\ \A j \in Ids \ {i} : t.sock[j] = u.sock[j]
    BY <2>4, <2>5, SockIs
  <2>7. t.crashed = u.crashed
    BY <2>5 DEF HostState
  <2> HIDE DEF t
  <2>8. Same(s, t)
    BY <2>4, <2>5, <2>6, <2>7 DEF Same, Parked
  <2>9. Orderly(t, {})
    BY <1>1, <2>8, IdleOrderly
  <2> QED
    BY <2>2, <2>6, <2>9 DEF Lands
<1> QED
  BY <1>4, <1>5 DEF Accept, a, r

LEMMA ConnectLands ==
    ASSUME NEW A, Nat \cup Ports \subseteq A, NEW h \in Hosts,
           host[h] \in HostState(A), Orderly(host[h], {}), MaxOpen = 1 \/ host[h].open = {},
           NEW i \in Ids, Connect(h, i)
    PROVE  Lands(A, h)
<1> DEFINE s == host[h]
           a == Asks(h)
           r == Request(h)
<1>1. /\ r \in Requests /\ a \in HostState(A) /\ Idle(s)
      /\ a.sock = s.sock /\ a.tcb = s.tcb /\ a.open = {r}
  <2>1. Calls(h, "Connect")
    BY DEF Connect
  <2> QED
    BY <2>1, CallsIdle
<1>2. PICK ip \in Hosts \ {h}, port \in Ports :
         Leaves(h, wire,
             SendShort(Calling(a, i, ip, port, r), i, "Syn"))
  BY DEF Connect, Calling
<1> HIDE DEF a, r
<1>3. a.sock = s.sock /\ a.tcb = s.tcb /\ a.open = {r}
  BY <1>1
<1> DEFINE k == CallingOn(a.sock[i], ip, port, r)
           u == [a EXCEPT !.sock[i] = k]
           t == SendShort(u, i, "Syn")
<1>4. a.sock[i] \in Socket(A) /\ port \in A
  BY <1>1, SockFields
<1>5. u = Calling(a, i, ip, port, r)
  <2>1. a \in HostState(A)
    BY <1>1
  <2> QED
    BY <2>1, CallingSocket
<1>6. /\ k \in Socket(A) /\ k.connectWait = r
      /\ k.closeWait = s.sock[i].closeWait /\ k.acceptWait = s.sock[i].acceptWait
  BY <1>1, <1>3, <1>4 DEF Socket, SocketStates, CallingOn
<1> HIDE DEF k
<1>7. /\ u \in HostState(A) /\ u.sock[i] = k /\ u.tcb = a.tcb /\ u.open = a.open
      /\ \A j \in Ids \ {i} : u.sock[j] = a.sock[j]
  BY <1>1, <1>6, SockIs
<1>8. Leaves(h, wire, t)
  BY <1>2, <1>5
<1> HIDE DEF u
<1>9. \A j \in Ids \ {i} : Parked(u, j) = Parked(s, j)
  BY <1>3, <1>7 DEF Parked
<1>10. r # Null
  BY <1>1, BoundsAre DEF Requests, Null
<1>11. Parked(u, i) = [connect |-> <<r>>, close |-> Waiting(s.sock[i].closeWait),
                       accept |-> s.sock[i].acceptWait,
                       recv |-> s.tcb[i].wait, send |-> s.tcb[i].sendWait]
  BY <1>3, <1>6, <1>7, <1>10 DEF Parked, Waiting
<1>12. \A l \in Kinds : Parked(u, i)[l] = IF l = "connect" THEN <<r>> ELSE Parked(s, i)[l]
  BY <1>11 DEF Parked, Kinds
<1>13. "connect" \in Kinds
  BY DEF Kinds
<1>14. Orderly(u, {})
  BY <1>1, <1>3, <1>7, <1>9, <1>12, <1>13, AskedOrderly
<1>15. t \in HostState(A) /\ Orderly(t, {})
  BY <1>7, <1>14, SendShortIs, SendShortOrderly DEF Flags
<1> QED
  BY <1>8, <1>15 DEF Lands

LEMMA SendLands ==
    ASSUME NEW A, Nat \subseteq A, NEW h \in Hosts, host[h] \in HostState(A),
           Orderly(host[h], {}), MaxOpen = 1 \/ host[h].open = {},
           NEW i \in Ids, Send(h, i)
    PROVE  Lands(A, h)
<1> DEFINE s == host[h]
           a == Asks(h)
           r == Request(h)
<1>1. /\ r \in Requests /\ a \in HostState(A) /\ Idle(s)
      /\ a.sock = s.sock /\ a.tcb = s.tcb /\ a.open = {r}
  <2>1. Calls(h, "Send")
    BY DEF Send
  <2> QED
    BY <2>1, CallsIdle
<1>2. State(s, i) = "Established"
  BY DEF Send
<1>3. CASE Leaves(h, wire, Buffered(s, i, r))
  <2>1. Buffered(s, i, r) \in HostState(A)
    BY BufferedIs
  <2>2. r \notin s.open
    BY <1>1 DEF Idle
  <2>3. Orderly(Buffered(s, i, r), {})
    BY <1>1, <2>2, BufferedSame, IdleOrderly
  <2> QED
    BY <1>3, <2>1, <2>3 DEF Lands
<1>4. CASE Leaves(h, wire, [a EXCEPT !.tcb[i].sendWait = Append(@, r)])
  <2> HIDE DEF a, r
  <2> DEFINE b == [a.tcb[i] EXCEPT !.sendWait = Append(@, r)]
             t == [a EXCEPT !.tcb[i] = b]
  <2>1. Leaves(h, wire, t)
    BY <1>4
  <2>2. a.sock = s.sock /\ a.tcb = s.tcb /\ a.open = {r} /\ a.tcb[i] \in Block(A)
    BY <1>1, BlockFields
  <2>3. s.tcb[i].sendWait = <<>>
    <3>1. Parked(s, i)["send"] = <<>>
      BY <1>1 DEF Idle, Kinds
    <3> QED
      BY <3>1 DEF Parked
  <2>4. Append(<<>>, r) = <<r>> /\ <<r>> \in Seq(Requests)
    BY <1>1
  <2>5. b \in Block(A) /\ b.wait = s.tcb[i].wait /\ b.sendWait = <<r>>
    BY <2>2, <2>3, <2>4 DEF Block
  <2> HIDE DEF b
  <2>6. /\ t \in HostState(A) /\ t.tcb[i] = b /\ t.sock = a.sock /\ t.open = a.open
        /\ \A j \in Ids \ {i} : t.tcb[j] = a.tcb[j]
    BY <1>1, <2>5, TcbIs
  <2> HIDE DEF t
  <2>7. \A j \in Ids \ {i} : Parked(t, j) = Parked(s, j)
    BY <2>2, <2>6 DEF Parked
  <2>8. Parked(t, i) = [connect |-> Waiting(s.sock[i].connectWait),
                        close |-> Waiting(s.sock[i].closeWait),
                        accept |-> s.sock[i].acceptWait,
                        recv |-> s.tcb[i].wait, send |-> <<r>>]
    BY <2>2, <2>5, <2>6 DEF Parked
  <2>9. \A l \in Kinds : Parked(t, i)[l] = IF l = "send" THEN <<r>> ELSE Parked(s, i)[l]
    BY <2>8 DEF Parked, Kinds
  <2>10. "send" \in Kinds /\ State(t, i) = "Established"
    BY <1>2, <2>2, <2>6 DEF Kinds, State
  <2>11. Orderly(t, {})
    BY <1>1, <2>2, <2>6, <2>7, <2>9, <2>10, AskedOrderly
  <2> QED
    BY <2>1, <2>6, <2>11 DEF Lands
<1> QED
  BY <1>3, <1>4 DEF Send

LEMMA RecvLands ==
    ASSUME NEW A, Nat \subseteq A, NEW h \in Hosts, host[h] \in HostState(A),
           Orderly(host[h], {}), MaxOpen = 1 \/ host[h].open = {},
           NEW i \in Ids, Recv(h, i)
    PROVE  Lands(A, h)
<1> DEFINE s == host[h]
           a == Asks(h)
           r == Request(h)
<1>1. /\ r \in Requests /\ a \in HostState(A) /\ Idle(s)
      /\ a.sock = s.sock /\ a.tcb = s.tcb /\ a.open = {r}
  <2>1. Calls(h, "Recv")
    BY DEF Recv
  <2> QED
    BY <2>1, CallsIdle
<1>2. State(s, i) = "Established"
  BY DEF Recv
<1>3. CASE /\ s.tcb[i].read < s.tcb[i].rcvd
           /\ Leaves(h, wire, [s EXCEPT !.tcb[i].read = @ + 1])
  <2> DEFINE b == [s.tcb[i] EXCEPT !.read = @ + 1]
             t == [s EXCEPT !.tcb[i] = b]
  <2>1. Leaves(h, wire, t)
    BY <1>3
  <2>2. s.tcb[i] \in Block(A) /\ s.tcb[i].read \in Nat /\ s.tcb[i].rcvd \in Nat
    BY BlockFields
  <2>3. s.tcb[i].read + 1 \in Nat /\ s.tcb[i].read + 1 <= s.tcb[i].rcvd
    BY <1>3, <2>2
  <2>4. b \in Block(A) /\ b.wait = s.tcb[i].wait /\ b.sendWait = s.tcb[i].sendWait
    BY <2>2, <2>3 DEF Block
  <2> HIDE DEF b
  <2>5. /\ t \in HostState(A) /\ t.tcb[i] = b /\ t.sock = s.sock /\ t.open = s.open
        /\ \A j \in Ids \ {i} : t.tcb[j] = s.tcb[j]
    BY <2>4, TcbIs
  <2>6. t.crashed = s.crashed
    BY DEF HostState
  <2> HIDE DEF t
  <2>7. Same(s, t)
    BY <2>4, <2>5, <2>6 DEF Same, Parked
  <2>8. Orderly(t, {})
    BY <1>1, <2>7, IdleOrderly
  <2> QED
    BY <2>1, <2>5, <2>8 DEF Lands
<1>4. CASE Leaves(h, wire, [a EXCEPT !.tcb[i].wait = Append(@, r)])
  <2> HIDE DEF a, r
  <2> DEFINE b == [a.tcb[i] EXCEPT !.wait = Append(@, r)]
             t == [a EXCEPT !.tcb[i] = b]
  <2>1. Leaves(h, wire, t)
    BY <1>4
  <2>2. a.sock = s.sock /\ a.tcb = s.tcb /\ a.open = {r} /\ a.tcb[i] \in Block(A)
    BY <1>1, BlockFields
  <2>3. s.tcb[i].wait = <<>>
    <3>1. Parked(s, i)["recv"] = <<>>
      BY <1>1 DEF Idle, Kinds
    <3> QED
      BY <3>1 DEF Parked
  <2>4. Append(<<>>, r) = <<r>> /\ <<r>> \in Seq(Requests)
    BY <1>1
  <2>5. b \in Block(A) /\ b.wait = <<r>> /\ b.sendWait = s.tcb[i].sendWait
    BY <2>2, <2>3, <2>4 DEF Block
  <2> HIDE DEF b
  <2>6. /\ t \in HostState(A) /\ t.tcb[i] = b /\ t.sock = a.sock /\ t.open = a.open
        /\ \A j \in Ids \ {i} : t.tcb[j] = a.tcb[j]
    BY <1>1, <2>5, TcbIs
  <2> HIDE DEF t
  <2>7. \A j \in Ids \ {i} : Parked(t, j) = Parked(s, j)
    BY <2>2, <2>6 DEF Parked
  <2>8. Parked(t, i) = [connect |-> Waiting(s.sock[i].connectWait),
                        close |-> Waiting(s.sock[i].closeWait),
                        accept |-> s.sock[i].acceptWait,
                        recv |-> <<r>>, send |-> s.tcb[i].sendWait]
    BY <2>2, <2>5, <2>6 DEF Parked
  <2>9. \A l \in Kinds : Parked(t, i)[l] = IF l = "recv" THEN <<r>> ELSE Parked(s, i)[l]
    BY <2>8 DEF Parked, Kinds
  <2>10. "recv" \in Kinds /\ State(t, i) = "Established"
    BY <1>2, <2>2, <2>6 DEF Kinds, State
  <2>11. Orderly(t, {})
    BY <1>1, <2>2, <2>6, <2>7, <2>9, <2>10, AskedOrderly
  <2> QED
    BY <2>1, <2>6, <2>11 DEF Lands
<1> QED
  BY <1>3, <1>4 DEF Recv

LEMMA CloseLands ==
    ASSUME NEW A, Nat \subseteq A, NEW h \in Hosts, host[h] \in HostState(A),
           Orderly(host[h], {}), MaxOpen = 1 \/ host[h].open = {},
           NEW i \in Ids, Close(h, i)
    PROVE  Lands(A, h)
<1> DEFINE s == host[h]
           a == Asks(h)
           r == Request(h)
           waiting == [a EXCEPT !.sock[i].closeWait = r]
<1>1. /\ r \in Requests /\ a \in HostState(A) /\ Idle(s)
      /\ a.sock = s.sock /\ a.tcb = s.tcb /\ a.open = {r}
  <2>1. Calls(h, "Close")
    BY DEF Close
  <2> QED
    BY <2>1, CallsIdle
<1>2. /\ waiting \in HostState(A) /\ State(waiting, i) = State(s, i)
      /\ Orderly(waiting, {}) /\ Silent(waiting, i)
  <2> HIDE DEF a, r
  <2> DEFINE k == [a.sock[i] EXCEPT !.closeWait = r]
             t == [a EXCEPT !.sock[i] = k]
  <2>1. waiting = t
    OBVIOUS
  <2>2. a.sock[i] \in Socket(A)
    BY <1>1, SockFields
  <2>3. /\ k \in Socket(A) /\ k.state = s.sock[i].state /\ k.closeWait = r
        /\ k.connectWait = s.sock[i].connectWait /\ k.acceptWait = s.sock[i].acceptWait
    BY <1>1, <2>2 DEF Socket
  <2> HIDE DEF k
  <2>4. /\ t \in HostState(A) /\ t.sock[i] = k /\ t.tcb = a.tcb /\ t.open = a.open
        /\ \A j \in Ids \ {i} : t.sock[j] = a.sock[j]
    BY <1>1, <2>3, SockIs
  <2> HIDE DEF t, waiting
  <2>5. \A j \in Ids \ {i} : Parked(t, j) = Parked(s, j)
    BY <1>1, <2>4 DEF Parked
  <2>6. r # Null
    BY <1>1, BoundsAre DEF Requests, Null
  <2>7. Parked(t, i) = [connect |-> Waiting(s.sock[i].connectWait), close |-> <<r>>,
                        accept |-> s.sock[i].acceptWait,
                        recv |-> s.tcb[i].wait, send |-> s.tcb[i].sendWait]
    BY <1>1, <2>3, <2>4, <2>6 DEF Parked, Waiting
  <2>8. \A l \in Kinds : Parked(t, i)[l] = IF l = "close" THEN <<r>> ELSE Parked(s, i)[l]
    BY <2>7 DEF Parked, Kinds
  <2>9. "close" \in Kinds /\ State(t, i) = State(s, i)
    BY <2>3, <2>4 DEF Kinds, State
  <2>10. Orderly(t, {}) /\ Silent(t, i)
    BY <1>1, <2>4, <2>5, <2>8, <2>9, AskedOrderly
  <2> QED
    BY <2>1, <2>4, <2>9, <2>10
<1>3. CASE Leaves(h, wire, Goto(FreeWait(s, i), i, "Closed"))
  <2> DEFINE f == FreeWait(s, i)
             t == Goto(f, i, "Closed")
  <2>1. f \in HostState(A) /\ Orderly(f, {}) /\ f.open \subseteq s.open
    BY FreeWaitIs, FreeWaitOrderly
  <2> HIDE DEF f
  <2>2. f.crashed \/ Silent(f, i)
    <3>1. f.open = {}
      BY <1>1, <2>1 DEF Idle
    <3>2. f.crashed \/ Idle(f)
      BY <2>1, <3>1 DEF Orderly, Tidy, Busy
    <3> QED
      BY <3>2 DEF Idle, Silent, Kinds
  <2>3. t \in HostState(A) /\ Orderly(t, {})
    BY <2>1, <2>2, GotoIs, GotoOrderly DEF SocketStates
  <2> QED
    BY <1>3, <2>3 DEF Lands, f
<1>4. CASE State(s, i) = "Established" /\ Leaves(h, wire, BackClose(waiting, i))
  <2> HIDE DEF waiting
  <2>1. BackClose(waiting, i) \in HostState(A)
    BY <1>2, <1>4, BackCloseIs
  <2>2. Orderly(BackClose(waiting, i), {})
    BY <1>2, BackCloseOrderly
  <2> QED
    BY <1>4, <2>1, <2>2 DEF Lands
<1>5. CASE /\ State(s, i) = "Close_Wait"
           /\ Leaves(h, wire, SendShort(BackFree(Goto(waiting, i, "Last_Ack"), i), i, "Fin"))
  <2> HIDE DEF waiting
  <2> DEFINE g == Goto(waiting, i, "Last_Ack")
             f == BackFree(g, i)
             t == SendShort(f, i, "Fin")
  <2>1. g \in HostState(A) /\ Orderly(g, {})
    BY <1>2, GotoIs, GotoOrderly DEF SocketStates
  <2> HIDE DEF g
  <2>2. f \in HostState(A) /\ Orderly(f, {} \ {i})
    BY <2>1, BackFreeIs, BackFreeOrderly
  <2> HIDE DEF f
  <2>3. Orderly(f, {})
    BY <2>2, OrderlyMore
  <2>4. t \in HostState(A) /\ Orderly(t, {})
    BY <2>2, <2>3, SendShortIs, SendShortOrderly DEF Flags
  <2> HIDE DEF t
  <2> QED
    BY <1>5, <2>4 DEF Lands, t, f, g
<1>6. CASE /\ State(s, i) \in {"Syn_Rcvd", "Fin_Wait1", "Fin_Wait2", "Closing", "Last_Ack"}
           /\ Leaves(h, wire, ResetSocket(SendShort(s, i, "Rst"), i))
  <2> DEFINE f == SendShort(s, i, "Rst")
             t == ResetSocket(f, i)
  <2>1. f \in HostState(A) /\ f.sock = s.sock /\ Orderly(f, {})
    <3>1. s \in HostState(A) /\ Orderly(s, {})
      OBVIOUS
    <3> HIDE DEF s
    <3>2. f \in HostState(A)
      BY <3>1, SendShortIs DEF Flags
    <3>3. f.sock = s.sock
      BY <3>1, SendShortSame
    <3>4. Orderly(f, {})
      BY <3>1, SendShortOrderly
    <3> QED
      BY <3>2, <3>3, <3>4
  <2> HIDE DEF f
  <2>2. State(f, i) # "Nil"
    BY <1>6, <2>1 DEF State
  <2>3. t \in HostState(A) /\ Orderly(t, {})
    BY <2>1, <2>2, ResetSocketIs, ResetSocketOrderly
  <2> HIDE DEF t
  <2> QED
    BY <1>6, <2>3 DEF Lands, t, f
<1> QED
  BY <1>3, <1>4, <1>5, <1>6 DEF Close

LEMMA AppLands ==
    ASSUME NEW A, Nat \cup Ports \subseteq A, NEW h \in Hosts,
           host[h] \in HostState(A), Orderly(host[h], {}), MaxOpen = 1 \/ host[h].open = {},
           AppStep(h)
    PROVE  Lands(A, h)
<1>1. CASE New(h)
  BY <1>1, NewLands
<1>2. ASSUME NEW i \in host[h].owned,
             \/ NeverConnected(h, i) /\ Listen(h, i)
             \/ Accept(h, i) \/ Connect(h, i)
             \/ Send(h, i) \/ Recv(h, i) \/ Close(h, i) \/ Free(h, i)
      PROVE  Lands(A, h)
  <2>1. i \in Ids
    BY DEF HostState
  <2>2. CASE Listen(h, i)
    BY <2>1, <2>2, ListenLands
  <2>3. CASE Accept(h, i)
    BY <2>1, <2>3, AcceptLands
  <2>4. CASE Connect(h, i)
    BY <2>1, <2>4, ConnectLands
  <2>5. CASE Send(h, i)
    BY <2>1, <2>5, SendLands
  <2>6. CASE Recv(h, i)
    BY <2>1, <2>6, RecvLands
  <2>7. CASE Close(h, i)
    BY <2>1, <2>7, CloseLands
  <2>8. CASE Free(h, i)
    BY <2>1, <2>8, FreeLands
  <2> QED
    BY <1>2, <2>2, <2>3, <2>4, <2>5, <2>6, <2>7, <2>8
<1> QED
  BY <1>1, <1>2 DEF AppStep

LEMMA TimeOutLands ==
    ASSUME NEW A, NEW h \in Hosts, host[h] \in HostState(A), Orderly(host[h], {}),
           NEW i \in Ids, host[h].tcb[i].acked + 1 \in A, TimeOut(h, i)
    PROVE  Lands(A, h)
<1> DEFINE s == host[h]
           t == PushMessage(s, i, s.tcb[i].acked + 1)
<1>1. Leaves(h, wire, t)
  BY DEF TimeOut
<1>2. t \in HostState(A)
  BY PushMessageIs
<1>3. Orderly(t, {})
  BY PushMessageSame, ApartOrderly
<1> HIDE DEF t
<1> QED
  BY <1>1, <1>2, <1>3 DEF Lands

Ordered == \A h \in Hosts : Orderly(host[h], {})

LEMMA LandsOrdered ==
    ASSUME NEW A, host \in [Hosts -> HostState(A)], NEW h \in Hosts, Lands(A, h), Ordered
    PROVE  Ordered'
<1>1. PICK w, t : Leaves(h, w, t) /\ t \in HostState(A) /\ Orderly(t, {})
  BY DEF Lands
<1> DEFINE u == [t EXCEPT !.out = <<>>, !.failed = @ \ host[h].failed]
<1>2. u.sock = t.sock /\ u.tcb = t.tcb /\ u.open = t.open /\ u.crashed = t.crashed
  BY <1>1 DEF HostState
<1>3. host' = [host EXCEPT ![h] = u]
  BY <1>1 DEF Leaves
<1> HIDE DEF u
<1>4. Same(t, u)
  BY <1>2 DEF Same, Parked
<1>5. Orderly(u, {})
  BY <1>1, <1>2, <1>4, ApartOrderly
<1>6. \A g \in Hosts : Orderly(host'[g], {})
  <2>1. \A g \in Hosts : host'[g] = IF g = h THEN u ELSE host[g]
    BY <1>3
  <2> QED
    BY <1>5, <2>1 DEF Ordered
<1> QED
  BY <1>6 DEF Ordered, Orderly, Tidy, Idle, Busy, Silent, Parked, State

LEMMA OrderedSame ==
    ASSUME Ordered, host' = host
    PROVE  Ordered'
<1>1. \A h \in Hosts : Orderly(host'[h], {})
  BY DEF Ordered
<1> QED
  BY <1>1 DEF Ordered, Orderly, Tidy, Idle, Busy, Silent, Parked, State

LEMMA NextOrdered ==
    ASSUME MaxOpen = 1, Shaped, Ordered, Next
    PROVE  Ordered'
<1>1. PICK A : /\ Nat \cup Ports \subseteq A /\ host \in [Hosts -> HostState(A)]
  BY DEF Shaped
<1>2. ASSUME NEW B, A \subseteq B
      PROVE  host \in [Hosts -> HostState(B)] /\ Nat \cup Ports \subseteq B
  BY <1>1, <1>2, ShapeGrows
<1>3. \A h \in Hosts : Orderly(host[h], {})
  BY DEF Ordered
<1>4. ASSUME NEW h \in Hosts, AppStep(h)
      PROVE  Ordered'
  <2>1. Lands(A, h)
    BY <1>1, <1>3, <1>4, AppLands
  <2> QED
    BY <1>1, <2>1, LandsOrdered
<1>5. ASSUME NEW c \in Links, PacketArrives(c[1], c[2])
      PROVE  Ordered'
  <2> DEFINE g == c[1]
             h == c[2]
             p == Head(wire[<<g, h>>])
             B == A \cup {p.sport, p.dport, p.n}
  <2>1. g \in Hosts /\ h \in Hosts
    BY DEF Links
  <2>2. /\ A \subseteq B /\ Nat \subseteq B
        /\ p.sport \in B /\ p.dport \in B /\ p.n \in B
    BY <1>1
  <2> HIDE DEF B
  <2>3. host \in [Hosts -> HostState(B)]
    BY <1>2, <2>2
  <2> HIDE DEF g, h
  <2>4. PacketArrives(g, h)
    BY <1>5 DEF g, h
  <2>5. host[h] \in HostState(B) /\ Orderly(host[h], {})
    BY <1>3, <2>1, <2>3
  <2>6. Lands(B, h)
    BY <2>1, <2>2, <2>4, <2>5, ArrivalLands
  <2> QED
    BY <2>1, <2>3, <2>6, LandsOrdered
<1>6. ASSUME NEW h \in Hosts, NEW i \in Ids, TimeOut(h, i)
      PROVE  Ordered'
  <2> DEFINE B == A \cup {host[h].tcb[i].acked + 1}
  <2>1. A \subseteq B /\ host[h].tcb[i].acked + 1 \in B
    OBVIOUS
  <2> HIDE DEF B
  <2>2. host \in [Hosts -> HostState(B)]
    BY <1>2, <2>1
  <2>3. Lands(B, h)
    BY <1>3, <1>6, <2>1, <2>2, TimeOutLands
  <2> QED
    BY <2>2, <2>3, LandsOrdered
<1>7. ASSUME NEW c \in Links, PacketLost(c)
      PROVE  Ordered'
  BY <1>7, OrderedSame DEF PacketLost
<1> QED
  BY <1>4, <1>5, <1>6, <1>7 DEF Next

LEMMA ThreeIs ==
    ASSUME NEW p \in Nat, NEW q \in Nat, NEW r \in Nat
    PROVE  <<p, q>> \o <<r>> = <<p, q, r>>
<1> DEFINE v == <<p, q>> \o <<r>>
           w == <<p, q, r>>
<1>1. v \in Seq(Nat) /\ Len(v) = 3 /\ v[1] = p /\ v[2] = q /\ v[3] = r
  <2>1. /\ <<p, q>> \in Seq(Nat) /\ <<r>> \in Seq(Nat)
        /\ Len(<<p, q>>) = 2 /\ Len(<<r>>) = 1
    OBVIOUS
  <2>2. v \in Seq(Nat)
    BY <2>1
  <2>3. Len(v) = 3
    BY <2>1
  <2> QED
    BY <2>1, <2>2, <2>3
<1>2. w \in Seq(Nat) /\ Len(w) = 3 /\ w[1] = p /\ w[2] = q /\ w[3] = r
  OBVIOUS
<1> HIDE DEF v, w
<1>3. \A n \in 1..Len(v) : v[n] = w[n]
  BY <1>1, <1>2
<1>4. v = w
  BY <1>1, <1>2, <1>3, SeqEqual
<1> QED
  BY <1>4 DEF v, w

\* The places of RequestsHeld: two numbers and three queues, of which at most
\* one holds a request.
LEMMA HeldIs ==
    ASSUME NEW h \in Hosts, NEW A, host[h] \in HostState(A), NEW i \in Ids
    PROVE  LET held == Parked(host[h], i) IN
           /\ (\A k \in Kinds : held[k] = <<>>) => Held(h, i) = <<Null, Null>>
           /\ \A r \in Requests, l \in Kinds :
                 (\A k \in Kinds : held[k] = IF k = l THEN <<r>> ELSE <<>>) =>
                     \/ l = "connect" /\ Held(h, i) = <<r, Null>>
                     \/ l = "close" /\ Held(h, i) = <<Null, r>>
                     \/ l \notin {"connect", "close"} /\ Held(h, i) = <<Null, Null, r>>
<1> DEFINE k == host[h].sock[i]
           b == host[h].tcb[i]
           x == k.connectWait
           y == k.closeWait
           held == Parked(host[h], i)
<1>1. Held(h, i) = <<x, y>> \o k.acceptWait \o b.wait \o b.sendWait
  BY DEF Held
<1>2. /\ held["connect"] = Waiting(x) /\ held["close"] = Waiting(y)
      /\ held["accept"] = k.acceptWait /\ held["recv"] = b.wait /\ held["send"] = b.sendWait
  BY DEF Parked
<1>3. /\ \A z : Waiting(z) = <<>> => z = Null
      /\ \A z, r : Waiting(z) = <<r>> => z = r
  BY DEF Waiting
<1> HIDE DEF k, b, held
<1>4. /\ <<Null, Null>> \o <<>> = <<Null, Null>>
      /\ \A r \in Requests : /\ <<r, Null>> \o <<>> = <<r, Null>>
                             /\ <<Null, r>> \o <<>> = <<Null, r>>
                             /\ <<Null, Null, r>> \o <<>> = <<Null, Null, r>>
                             /\ <<Null, Null>> \o <<r>> = <<Null, Null, r>>
  <2>1. Requests \subseteq Nat /\ Null \in Nat
    BY BoundsAre DEF Null
  <2>2. ASSUME NEW r \in Requests
        PROVE  <<Null, Null>> \o <<r>> = <<Null, Null, r>>
    BY <2>1, ThreeIs
  <2> QED
    BY <2>2
<1>5. ASSUME \A l \in Kinds : held[l] = <<>>
      PROVE  Held(h, i) = <<Null, Null>>
  <2>1. x = Null /\ y = Null /\ k.acceptWait = <<>> /\ b.wait = <<>> /\ b.sendWait = <<>>
    BY <1>2, <1>3, <1>5 DEF Kinds
  <2> QED
    BY <1>1, <1>4, <2>1
<1>6. ASSUME NEW r \in Requests, NEW l \in Kinds,
             \A m \in Kinds : held[m] = IF m = l THEN <<r>> ELSE <<>>
      PROVE  \/ l = "connect" /\ Held(h, i) = <<r, Null>>
             \/ l = "close" /\ Held(h, i) = <<Null, r>>
             \/ l \notin {"connect", "close"} /\ Held(h, i) = <<Null, Null, r>>
  <2>1. /\ x = IF l = "connect" THEN r ELSE Null
        /\ y = IF l = "close" THEN r ELSE Null
    BY <1>2, <1>3, <1>6 DEF Kinds
  <2>2. /\ k.acceptWait = IF l = "accept" THEN <<r>> ELSE <<>>
        /\ b.wait = IF l = "recv" THEN <<r>> ELSE <<>>
        /\ b.sendWait = IF l = "send" THEN <<r>> ELSE <<>>
    BY <1>2, <1>6 DEF Kinds
  <2> HIDE DEF x, y
  <2>3. CASE l = "connect"
    BY <1>1, <1>4, <2>1, <2>2, <2>3
  <2>4. CASE l = "close"
    BY <1>1, <1>4, <2>1, <2>2, <2>4
  <2>5. CASE l = "accept"
    BY <1>1, <1>4, <2>1, <2>2, <2>5
  <2>6. CASE l = "recv"
    BY <1>1, <1>4, <2>1, <2>2, <2>6
  <2>7. CASE l = "send"
    BY <1>1, <1>4, <2>1, <2>2, <2>7
  <2> QED
    BY <2>3, <2>4, <2>5, <2>6, <2>7 DEF Kinds
<1> QED
  BY <1>5, <1>6 DEF held

LEMMA TidyHeld ==
    ASSUME NEW h \in Hosts, NEW A, host[h] \in HostState(A), Tidy(host[h])
    PROVE  LET places == {c \in Ids \X (1..(2 + 3 * MaxOpen)) :
                             c[2] <= Len(Held(h, c[1])) /\ Held(h, c[1])[c[2]] # Null}
           IN  /\ Cardinality(places) = Cardinality(host[h].open)
               /\ {Held(h, c[1])[c[2]] : c \in places} = host[h].open
<1> DEFINE places == {c \in Ids \X (1..(2 + 3 * MaxOpen)) :
                         c[2] <= Len(Held(h, c[1])) /\ Held(h, c[1])[c[2]] # Null}
<1>1. ASSUME NEW j \in Ids, NEW n \in Nat, Held(h, j) = <<Null, Null>>
      PROVE  <<j, n>> \notin places
  <2>1. MaxOpen \in Nat
    BY BoundsAre
  <2>2. <<j, n>> \in places => n >= 1 /\ n <= Len(Held(h, j)) /\ Held(h, j)[n] # Null
    BY <2>1
  <2> HIDE DEF places
  <2>3. n >= 1 /\ n <= 2 => <<Null, Null>>[n] = Null
    OBVIOUS
  <2> QED
    BY <1>1, <2>2, <2>3
<1>2. CASE Idle(host[h])
  <2>1. \A j \in Ids : Held(h, j) = <<Null, Null>>
    BY <1>2, HeldIs DEF Idle
  <2>2. places = {}
    BY <1>1, <2>1
  <2> HIDE DEF places
  <2> QED
    BY <1>2, <2>2 DEF Idle, places
<1>3. ASSUME NEW i \in Ids, NEW l \in Kinds, NEW r \in Requests, Busy(host[h], i, l, r)
      PROVE  /\ Cardinality(places) = Cardinality(host[h].open)
             /\ {Held(h, c[1])[c[2]] : c \in places} = host[h].open
  <2>1. r # Null
    BY BoundsAre DEF Requests, Null
  <2>2. \A j \in Ids \ {i} : Held(h, j) = <<Null, Null>>
    BY <1>3, HeldIs DEF Busy
  <2>3. \A k \in Kinds : Parked(host[h], i)[k] = IF k = l THEN <<r>> ELSE <<>>
    BY <1>3 DEF Busy
  <2>4. \/ Held(h, i) = <<r, Null>>
        \/ Held(h, i) = <<Null, r>>
        \/ Held(h, i) = <<Null, Null, r>>
    BY <2>3, HeldIs
  <2>5. PICK n \in 1..3 : /\ n <= Len(Held(h, i)) /\ Held(h, i)[n] = r
                          /\ Len(Held(h, i)) <= 3
                          /\ \A m \in 1..Len(Held(h, i)) : m # n => Held(h, i)[m] = Null
    <3>1. CASE Held(h, i) = <<r, Null>>
      BY <3>1
    <3>2. CASE Held(h, i) = <<Null, r>>
      BY <3>2
    <3>3. CASE Held(h, i) = <<Null, Null, r>>
      BY <3>3
    <3> QED
      BY <2>4, <3>1, <3>2, <3>3
  <2>6. places = {<<i, n>>}
    <3>1. <<i, n>> \in places
      <4>1. r \in 1..MaxOpen /\ MaxOpen \in Nat
        BY BoundsAre DEF Requests
      <4>2. n \in 1..(2 + 3 * MaxOpen)
        BY <4>1
      <4> QED
        BY <2>1, <2>5, <4>2
    <3>2. ASSUME NEW c \in places
          PROVE  c = <<i, n>>
      <4>1. c[1] \in Ids /\ c[2] \in Nat /\ c = <<c[1], c[2]>> /\ c[2] >= 1
        OBVIOUS
      <4>2. c[1] = i
        BY <1>1, <2>2, <4>1
      <4>3. c[2] <= Len(Held(h, i)) /\ Held(h, i)[c[2]] # Null
        BY <4>2
      <4>4. Len(Held(h, i)) \in Nat
        BY <2>4
      <4> QED
        BY <2>5, <4>1, <4>2, <4>3, <4>4
    <3> QED
      BY <3>1, <3>2
  <2> HIDE DEF places
  <2>7. {Held(h, c[1])[c[2]] : c \in places} = {r}
    BY <2>5, <2>6
  <2>8. host[h].open = {r}
    BY <1>3 DEF Busy
  <2> QED
    BY <2>6, <2>7, <2>8, FS_Singleton
<1> HIDE DEF places
<1> QED
  BY <1>2, <1>3 DEF Tidy, places

-----------------------------------------------------------------------------
(* The theorems.                                                           *)

\* No socket listens that stood for a connection before, and every open one
\* has a backend.
Open ==
    /\ Shaped
    /\ \A h \in Hosts : ListensNowhere(host[h]) /\ \A i \in Ids : Backed(host[h], i)

LEMMA OpenInit == Init => Open
<1> SUFFICES ASSUME Init
             PROVE  Open
  OBVIOUS
<1> DEFINE A == Nat \cup Ports
<1>1. EmptyBlock \in Block(A)
  BY EmptyBlockIs
<1>2. /\ EmptySocket \in Socket(A) /\ EmptySocket.state = "Nil"
  <2>1. <<>> \in Seq(Ids) /\ <<>> \in Seq(Requests) /\ 0 \in A
    OBVIOUS
  <2> QED
    BY <2>1 DEF EmptySocket, Socket, SocketStates
<1>3. EmptyHost \in HostState(A) /\ EmptyHost.out = <<>>
  <2>1. <<>> \in Seq(Pushed(A)) /\ 0 \in 0..MaxSockets
    BY BoundsAre
  <2> HIDE DEF A
  <2> QED
    BY <1>1, <1>2, <2>1 DEF EmptyHost, HostState
<1>4. \A h \in Hosts : host[h] = EmptyHost
  BY DEF Init
<1>5. Shaped
  <2>1. host \in [Hosts -> HostState(A)]
    BY <1>3 DEF Init
  <2> QED
    BY <1>3, <1>4, <2>1 DEF Shaped
<1>6. ASSUME NEW i \in Ids
      PROVE  State(EmptyHost, i) = "Nil"
  BY <1>2 DEF EmptyHost, State
<1> QED
  BY <1>4, <1>5, <1>6 DEF Open, ListensNowhere, Backed

LEMMA OpenNext == Open /\ [Next]_vars => Open'
<1> SUFFICES ASSUME Open, [Next]_vars
             PROVE  Open'
  OBVIOUS
<1>1. CASE Next
  <2>1. PICK A :
           /\ Nat \cup Ports \subseteq A
           /\ host \in [Hosts -> HostState(A)] /\ host' \in [Hosts -> HostState(A)]
           /\ \A h \in Hosts : host'[h].out = <<>> /\ Step(h, host[h], host'[h])
    BY <1>1, NextSteps DEF Open
  <2>2. Shaped'
    BY <2>1 DEF Shaped
  <2>3. ASSUME NEW h \in Hosts
        PROVE  ListensNowhere(host'[h]) /\ \A i \in Ids : Backed(host'[h], i)
    <3>1. /\ host[h] \in HostState(A) /\ host'[h] \in HostState(A)
          /\ Step(h, host[h], host'[h])
      BY <2>1
    <3>2. ListensNowhere(host[h]) /\ \A i \in Ids : Backed(host[h], i)
      BY DEF Open
    <3> QED
      BY <3>1, <3>2, ListensNowhereKept, BackedKept
  <2> QED
    BY <2>2, <2>3 DEF Open, ListensNowhere, Backed, State
<1>2. CASE UNCHANGED vars
  BY <1>2 DEF Open, Shaped, ListensNowhere, Backed, State, vars
<1> QED
  BY <1>1, <1>2 DEF vars

\* Every call of push and push_tcp leaves TcpSocket and the tables with their
\* types, in range, and gives a Recv no more than was received.
THEOREM ShapeKept == Spec => []TypeOK
<1>1. Open => TypeOK
  <2> SUFFICES ASSUME Open
               PROVE  TypeOK
    OBVIOUS
  <2>1. PICK A : /\ host \in [Hosts -> HostState(A)]
                 /\ \A h \in Hosts : host[h].out = <<>>
    BY DEF Open, Shaped
  <2>2. ASSUME NEW h \in Hosts
        PROVE  /\ host[h].open \subseteq Requests /\ host[h].failed \subseteq Requests
               /\ host[h].owned \subseteq Ids /\ host[h].size \in 0..MaxSockets
    BY <2>1 DEF HostState
  <2>3. ASSUME NEW h \in Hosts, NEW i \in Ids
        PROVE  /\ host[h].sock[i] \in Socket(A)
               /\ host[h].tcb[i].read <= host[h].tcb[i].rcvd
    <3>1. host[h] \in HostState(A)
      BY <2>1
    <3> QED
      BY <3>1, SockFields, BlockFields
  <2>4. ASSUME NEW k \in Socket(A)
        PROVE  /\ k.state \in SocketStates /\ k.ip \in Hosts \cup {Nowhere}
               /\ k.listenWait \in Seq(Ids) /\ k.acceptWait \in Seq(Requests)
               /\ {k.connectWait, k.closeWait} \subseteq Requests \cup {Null}
    BY DEF Socket
  <2> QED
    BY <2>1, <2>2, <2>3, <2>4 DEF TypeOK
<1> QED
  BY <1>1, OpenInit, OpenNext, PTL DEF Spec

\* What push_tcp and push forward for an open connection reaches a TcpBlock
\* that build_link has made for it and clean_link not yet cleaned.
THEOREM OpenKeepsBackend == Spec => []OpenHasBackend
<1>1. Open => OpenHasBackend
  BY DEF Open, OpenHasBackend, Backed
<1> QED
  BY <1>1, OpenInit, OpenNext, PTL DEF Spec

Unmixed == \A h \in Hosts : ~({"Listen", "Connect"} \subseteq Methods[h])

\* find_socket finds no more than the one connection a packet is for, where no
\* application listens and connects from one host.
THEOREM OneEachKept ==
    ASSUME Unmixed
    PROVE  Spec => []OneSocketEach
<1> DEFINE Single == \A h \in Hosts : OwnPorts(h, host[h]) /\ OneEach(host[h])
<1>1. Init => Single
  <2> SUFFICES ASSUME Init, NEW h \in Hosts, NEW i \in Ids
               PROVE  State(host[h], i) = "Nil"
    BY DEF OwnPorts, OneEach, Dormant
  <2> QED
    BY DEF Init, EmptyHost, EmptySocket, State
<1>2. Open /\ Single /\ [Next]_vars => Single'
  <2> SUFFICES ASSUME Open, Single, [Next]_vars
               PROVE  Single'
    OBVIOUS
  <2>1. CASE Next
    <3>1. ASSUME NEW h \in Hosts
          PROVE  Step(h, host[h], host'[h])
      BY <2>1, NextSteps DEF Open
    <3>2. ASSUME NEW h \in Hosts
          PROVE  OwnPorts(h, host'[h]) /\ OneEach(host'[h])
      BY <3>1, OwnPortsKept, OneEachStays DEF Unmixed
    <3> QED
      BY <3>2 DEF OwnPorts, OneEach, State, Conn
  <2>2. CASE UNCHANGED vars
    BY <2>2 DEF OwnPorts, OneEach, State, Conn, vars
  <2> QED
    BY <2>1, <2>2 DEF vars
<1>3. Single => OneSocketEach
  <2> SUFFICES ASSUME Single, NEW h \in Hosts, NEW i \in Ids, NEW j \in Ids, i # j,
                      {State(host[h], i), State(host[h], j)}
                          \cap {"Nil", "Closed", "Listening"} = {}
               PROVE  j \notin Connected(host[h], host[h].sock[i].ip, host[h].sock[i].sport,
                                         host[h].sock[i].dport)
    BY DEF OneSocketEach
  <2>1. State(host[h], i) \notin Dormant /\ State(host[h], j) \notin Dormant
    BY DEF Dormant
  <2>2. Conn(host[h], i) # Conn(host[h], j)
    BY <2>1 DEF OneEach
  <2> QED
    BY <2>2 DEF Connected, Conn
<1> QED
  BY <1>1, <1>2, <1>3, OpenInit, OpenNext, PTL DEF Spec

\* Of an application that makes one request at a time, as SocketSender and
\* SocketServer do, none is lost and none answered twice: while it is open it
\* is in one of connectWait, closeWait, acceptWait and the queues of the
\* backend, and send_return, free_wait and clean_link answer it from there.
THEOREM RequestsKept ==
    ASSUME MaxOpen = 1
    PROVE  Spec => []RequestsHeld
<1>1. Init => Ordered
  <2> SUFFICES ASSUME Init, NEW h \in Hosts
               PROVE  Orderly(host[h], {})
    BY DEF Ordered
  <2>1. host[h] = EmptyHost
    BY DEF Init
  <2>2. \A i \in Ids, k \in Kinds : Parked(EmptyHost, i)[k] = <<>>
    BY DEF Kinds, Parked, Waiting, EmptyHost, EmptySocket, EmptyBlock
  <2>3. Idle(EmptyHost)
    BY <2>2 DEF Idle, EmptyHost
  <2>4. Same(EmptyHost, EmptyHost)
    BY DEF Same
  <2> QED
    BY <2>1, <2>3, <2>4, IdleOrderly
<1>2. Open /\ Ordered /\ [Next]_vars => Ordered'
  <2> SUFFICES ASSUME Open, Ordered, [Next]_vars
               PROVE  Ordered'
    OBVIOUS
  <2>1. CASE Next
    BY <2>1, NextOrdered DEF Open
  <2>2. CASE UNCHANGED vars
    BY <2>2, OrderedSame DEF vars
  <2> QED
    BY <2>1, <2>2 DEF vars
<1>3. Open /\ Ordered => RequestsHeld
  <2> SUFFICES ASSUME Open, Ordered, NEW h \in Hosts, ~host[h].crashed
               PROVE  LET places == {c \in Ids \X (1..(2 + 3 * MaxOpen)) :
                                        /\ c[2] <= Len(Held(h, c[1]))
                                        /\ Held(h, c[1])[c[2]] # Null}
                      IN  /\ Cardinality(places) = Cardinality(host[h].open)
                          /\ {Held(h, c[1])[c[2]] : c \in places} = host[h].open
    BY DEF RequestsHeld
  <2>1. PICK A : host[h] \in HostState(A)
    BY DEF Open, Shaped
  <2>2. Tidy(host[h])
    BY DEF Ordered, Orderly
  <2> QED
    BY <2>1, <2>2, TidyHeld
<1> QED
  BY <1>1, <1>2, <1>3, OpenInit, OpenNext, PTL DEF Spec
=============================================================================
