-------------------------- MODULE TcpClientsProofs --------------------------
(***************************************************************************)
(* What the programs that call TcpFrontend rely on, for any number of      *)
(* them, any ports and sockets, beside users who make any request, and on  *)
(* any sizes of what is sent: that a client has one request open at most,  *)
(* that it is never told Error where it expects none, and that it uses its *)
(* sockets as TcpFrontend assumes.                                         *)
(***************************************************************************)
EXTENDS TcpClients, TcpFrontendProofs


-----------------------------------------------------------------------------
(* What a handler may do to the requests and sockets of a client: from s   *)
(* to t something happens to socket i only, no request is added, and none  *)
(* is answered that is not held for i.                                     *)

Only(s, t, i) ==
    /\ t.owned = s.owned /\ t.open \subseteq s.open
    /\ \A j \in Ids \ {i} : t.sock[j] = s.sock[j] /\ Parked(t, j) = Parked(s, j)
    /\ t.sock[i].listenWait = s.sock[i].listenWait
    /\ \A k \in Kinds : Parked(s, i)[k] = <<>> => Parked(t, i)[k] = <<>>
    /\ (\A k \in Kinds : Parked(s, i)[k] = <<>>) => t.open = s.open

LEMMA OnlyTrans ==
    ASSUME NEW s, NEW t, NEW u, NEW i, Only(s, t, i), Only(t, u, i)
    PROVE  Only(s, u, i)
BY DEF Only

\* Packets are pushed.
LEMMA SendShortOnly ==
    ASSUME NEW A, NEW s \in HostState(A), NEW i \in Ids, NEW j, NEW flag
    PROVE  Only(s, SendShort(s, j, flag), i) /\ SendShort(s, j, flag).sock = s.sock
<1> DEFINE t == SendShort(s, j, flag)
<1>1. t.owned = s.owned /\ t.open = s.open /\ t.sock = s.sock /\ t.tcb = s.tcb
  BY DEF SendShort, Push, HostState
<1> HIDE DEF t
<1> QED
  BY <1>1 DEF Only, Parked, t

LEMMA GotoOnly ==
    ASSUME NEW A, NEW s \in HostState(A), NEW i \in Ids, NEW state \in SocketStates
    PROVE  LET t == Goto(s, i, state) IN
           /\ t \in HostState(A) /\ Only(s, t, i) /\ State(t, i) = state
           /\ t.sock[i].closeWait = s.sock[i].closeWait
<1> DEFINE k == [s.sock[i] EXCEPT !.state = state]
           t == Goto(s, i, state)
<1>1. s.sock[i] \in Socket(A)
  BY DEF HostState
<1>2. /\ k.connectWait = s.sock[i].connectWait /\ k.closeWait = s.sock[i].closeWait
      /\ k.acceptWait = s.sock[i].acceptWait /\ k.listenWait = s.sock[i].listenWait
      /\ k.state = state
  BY <1>1 DEF Socket
<1> HIDE DEF k
<1>3. /\ t.sock[i] = k /\ \A j \in Ids \ {i} : t.sock[j] = s.sock[j]
      /\ t.tcb = s.tcb /\ t.open = s.open /\ t.owned = s.owned
  BY DEF Goto, HostState, k
<1>4. t \in HostState(A)
  BY GotoIs
<1> HIDE DEF t
<1> QED
  BY <1>2, <1>3, <1>4 DEF Only, Parked, State, t

\* A request held as closeWait, or connectWait, is answered.
LEMMA ReturnCloseOnly ==
    ASSUME NEW A, NEW s \in HostState(A), NEW i \in Ids
    PROVE  Only(s, ReturnClose(s, i), i)
<1> DEFINE r == s.sock[i].closeWait
           k == [s.sock[i] EXCEPT !.closeWait = Null]
           t == ReturnClose(s, i)
<1>1. s.sock[i] \in Socket(A)
  BY DEF HostState
<1>2. /\ k.connectWait = s.sock[i].connectWait /\ k.closeWait = Null
      /\ k.acceptWait = s.sock[i].acceptWait /\ k.listenWait = s.sock[i].listenWait
  BY <1>1 DEF Socket
<1>3. /\ t.sock[i] = k /\ \A j \in Ids \ {i} : t.sock[j] = s.sock[j]
      /\ t.tcb = s.tcb /\ t.owned = s.owned
      /\ t.open = IF r = Null THEN s.open ELSE s.open \ {r}
  BY DEF ReturnClose, SendReturn, HostState
<1> HIDE DEF k, t
<1>4. \A j \in Ids \ {i} : Parked(t, j) = Parked(s, j)
  BY <1>3 DEF Parked
<1>5. Parked(t, i) = [connect |-> Waiting(s.sock[i].connectWait), close |-> <<>>,
                      accept |-> s.sock[i].acceptWait,
                      recv |-> s.tcb[i].wait, send |-> s.tcb[i].sendWait]
  BY <1>2, <1>3 DEF Parked, Waiting
<1>6. \A l \in Kinds : Parked(s, i)[l] = <<>> => Parked(t, i)[l] = <<>>
  BY <1>5 DEF Parked, Kinds
<1>7. (\A l \in Kinds : Parked(s, i)[l] = <<>>) => r = Null
  <2>1. "close" \in Kinds /\ Parked(s, i)["close"] = Waiting(r)
    BY DEF Kinds, Parked
  <2>2. Waiting(r) = <<>> => r = Null
    BY DEF Waiting
  <2> QED
    BY <2>1, <2>2
<1> QED
  BY <1>2, <1>3, <1>4, <1>6, <1>7 DEF Only, t

LEMMA ReturnConnectOnly ==
    ASSUME NEW A, NEW s \in HostState(A), NEW i \in Ids
    PROVE  LET t == ReturnConnect(s, i) IN
           Only(s, t, i) /\ t.sock[i].closeWait = s.sock[i].closeWait
<1> DEFINE r == s.sock[i].connectWait
           k == [s.sock[i] EXCEPT !.connectWait = Null]
           t == ReturnConnect(s, i)
<1>1. s.sock[i] \in Socket(A)
  BY DEF HostState
<1>2. /\ k.connectWait = Null /\ k.closeWait = s.sock[i].closeWait
      /\ k.acceptWait = s.sock[i].acceptWait /\ k.listenWait = s.sock[i].listenWait
  BY <1>1 DEF Socket
<1>3. /\ t.sock[i] = k /\ \A j \in Ids \ {i} : t.sock[j] = s.sock[j]
      /\ t.tcb = s.tcb /\ t.owned = s.owned
      /\ t.open = IF r = Null THEN s.open ELSE s.open \ {r}
  BY DEF ReturnConnect, SendReturn, HostState
<1> HIDE DEF k, t
<1>4. \A j \in Ids \ {i} : Parked(t, j) = Parked(s, j)
  BY <1>3 DEF Parked
<1>5. Parked(t, i) = [connect |-> <<>>, close |-> Waiting(s.sock[i].closeWait),
                      accept |-> s.sock[i].acceptWait,
                      recv |-> s.tcb[i].wait, send |-> s.tcb[i].sendWait]
  BY <1>2, <1>3 DEF Parked, Waiting
<1>6. \A l \in Kinds : Parked(s, i)[l] = <<>> => Parked(t, i)[l] = <<>>
  BY <1>5 DEF Parked, Kinds
<1>7. (\A l \in Kinds : Parked(s, i)[l] = <<>>) => r = Null
  <2>1. "connect" \in Kinds /\ Parked(s, i)["connect"] = Waiting(r)
    BY DEF Kinds, Parked
  <2>2. Waiting(r) = <<>> => r = Null
    BY DEF Waiting
  <2> QED
    BY <2>1, <2>2
<1>8. Only(s, t, i)
  BY <1>2, <1>3, <1>4, <1>6, <1>7 DEF Only
<1> QED
  BY <1>2, <1>3, <1>8 DEF t

\* All that free_wait answers of socket i itself.
LEMMA FreeCallsOnly ==
    ASSUME NEW A, NEW s \in HostState(A), NEW i \in Ids
    PROVE  Only(s, FreeCalls(s, i), i)
<1> DEFINE calls == {s.sock[i].connectWait, s.sock[i].closeWait} \cup Range(s.sock[i].acceptWait)
           k == [s.sock[i] EXCEPT !.connectWait = Null, !.closeWait = Null, !.acceptWait = <<>>]
           t == FreeCalls(s, i)
<1>1. s.sock[i] \in Socket(A) /\ Null \notin s.open
  BY BoundsAre DEF HostState, Requests, Null
<1>2. /\ k.connectWait = Null /\ k.closeWait = Null /\ k.acceptWait = <<>>
      /\ k.listenWait = s.sock[i].listenWait
  BY <1>1 DEF Socket
<1>3. /\ t.sock[i] = k /\ \A j \in Ids \ {i} : t.sock[j] = s.sock[j]
      /\ t.tcb = s.tcb /\ t.owned = s.owned /\ t.open = s.open \ calls
  BY DEF FreeCalls, Fail, HostState
<1> HIDE DEF t, k
<1>4. \A j \in Ids \ {i} : Parked(t, j) = Parked(s, j)
  BY <1>3 DEF Parked
<1>5. Parked(t, i) = [connect |-> <<>>, close |-> <<>>, accept |-> <<>>,
                      recv |-> s.tcb[i].wait, send |-> s.tcb[i].sendWait]
  BY <1>2, <1>3 DEF Parked, Waiting
<1>6. \A l \in Kinds : Parked(s, i)[l] = <<>> => Parked(t, i)[l] = <<>>
  BY <1>5 DEF Parked, Kinds
<1>7. (\A l \in Kinds : Parked(s, i)[l] = <<>>) => calls = {Null}
  <2>1. /\ "connect" \in Kinds /\ Parked(s, i)["connect"] = Waiting(s.sock[i].connectWait)
        /\ "close" \in Kinds /\ Parked(s, i)["close"] = Waiting(s.sock[i].closeWait)
        /\ "accept" \in Kinds /\ Parked(s, i)["accept"] = s.sock[i].acceptWait
    BY DEF Kinds, Parked
  <2>2. \A r : Waiting(r) = <<>> => r = Null
    BY DEF Waiting
  <2> QED
    BY <2>1, <2>2, RangeIs
<1> HIDE DEF calls
<1> QED
  BY <1>1, <1>2, <1>3, <1>4, <1>6, <1>7 DEF Only, t

LEMMA BackFreeOnly ==
    ASSUME NEW A, NEW s \in HostState(A), NEW i \in Ids
    PROVE  Only(s, BackFree(s, i), i) /\ BackFree(s, i).sock = s.sock
<1> DEFINE p == s.tcb[i].wait
           q == s.tcb[i].sendWait
           b == [s.tcb[i] EXCEPT !.live = FALSE, !.wait = <<>>, !.sendWait = <<>>]
           t == BackFree(s, i)
<1>1. CASE i >= s.size
  <2>1. t.sock = s.sock /\ t.tcb = s.tcb /\ t.owned = s.owned /\ t.open = s.open
    BY <1>1 DEF BackFree, HostState
  <2> HIDE DEF t
  <2> QED
    BY <2>1 DEF Only, Parked, t
<1>2. CASE ~(i >= s.size)
  <2>1. s.tcb[i] \in Block(A)
    BY BlockFields
  <2>2. /\ t.tcb[i] = b /\ \A j \in Ids \ {i} : t.tcb[j] = s.tcb[j]
        /\ t.sock = s.sock /\ t.open = s.open \ Range(p \o q) /\ t.owned = s.owned
    BY <1>2 DEF BackFree, Fail, HostState
  <2>3. b.wait = <<>> /\ b.sendWait = <<>>
    BY <2>1 DEF Block
  <2> HIDE DEF t, b
  <2>4. \A j \in Ids \ {i} : Parked(t, j) = Parked(s, j)
    BY <2>2 DEF Parked
  <2>5. Parked(t, i) = [connect |-> Waiting(s.sock[i].connectWait),
                        close |-> Waiting(s.sock[i].closeWait),
                        accept |-> s.sock[i].acceptWait, recv |-> <<>>, send |-> <<>>]
    BY <2>2, <2>3 DEF Parked
  <2>6. \A l \in Kinds : Parked(s, i)[l] = <<>> => Parked(t, i)[l] = <<>>
    BY <2>5 DEF Parked, Kinds
  <2>7. (\A l \in Kinds : Parked(s, i)[l] = <<>>) => Range(p \o q) = {}
    <3>1. "recv" \in Kinds /\ Parked(s, i)["recv"] = p /\ "send" \in Kinds /\ Parked(s, i)["send"] = q
      BY DEF Kinds, Parked
    <3>2. <<>> \o <<>> = <<>>
      OBVIOUS
    <3> QED
      BY <3>1, <3>2, RangeIs
  <2> QED
    BY <2>2, <2>4, <2>6, <2>7 DEF Only, t
<1> QED
  BY <1>1, <1>2

LEMMA BackEstablishOnly ==
    ASSUME NEW A, NEW s \in HostState(A), NEW i \in Ids
    PROVE  Only(s, BackEstablish(s, i), i) /\ BackEstablish(s, i).sock = s.sock
<1> DEFINE b == [EmptyBlock EXCEPT !.live = TRUE]
           t == BackEstablish(s, i)
<1>1. /\ t.tcb[i] = b /\ \A j \in Ids \ {i} : t.tcb[j] = s.tcb[j]
      /\ t.sock = s.sock /\ t.open = s.open /\ t.owned = s.owned
  BY DEF BackEstablish, HostState
<1>2. b.wait = <<>> /\ b.sendWait = <<>>
  BY DEF EmptyBlock
<1> HIDE DEF t, b
<1>3. \A j \in Ids \ {i} : Parked(t, j) = Parked(s, j)
  BY <1>1 DEF Parked
<1>4. Parked(t, i) = [connect |-> Waiting(s.sock[i].connectWait),
                      close |-> Waiting(s.sock[i].closeWait),
                      accept |-> s.sock[i].acceptWait, recv |-> <<>>, send |-> <<>>]
  BY <1>1, <1>2 DEF Parked
<1>5. \A l \in Kinds : Parked(s, i)[l] = <<>> => Parked(t, i)[l] = <<>>
  BY <1>4 DEF Parked, Kinds
<1> QED
  BY <1>1, <1>3, <1>5 DEF Only, t

LEMMA BackDataOnly ==
    ASSUME NEW A, NEW s \in HostState(A), NEW i \in Ids, NEW n
    PROVE  Only(s, BackData(s, i, n), i) /\ BackData(s, i, n).sock = s.sock
<1> DEFINE b == s.tcb[i]
           inOrder == n = b.rcvd + 1
           wakes == inOrder /\ b.wait # <<>>
           rcvd == IF inOrder THEN n ELSE b.rcvd
           read == IF wakes THEN b.read + 1 ELSE b.read
           wait == IF wakes THEN Tail(b.wait) ELSE b.wait
           kept == [b EXCEPT !.rcvd = rcvd, !.read = read, !.wait = wait]
           t == BackData(s, i, n)
<1>1. b \in Block(A)
  BY BlockFields
<1>2. /\ t.tcb[i] = kept /\ \A j \in Ids \ {i} : t.tcb[j] = s.tcb[j]
      /\ t.sock = s.sock /\ t.owned = s.owned
      /\ t.open = IF wakes THEN s.open \ {Head(b.wait)} ELSE s.open
  BY DEF BackData, Push, HostState
<1>3. kept.wait = wait /\ kept.sendWait = b.sendWait
  BY <1>1 DEF Block
<1> HIDE DEF t, kept
<1>4. \A j \in Ids \ {i} : Parked(t, j) = Parked(s, j)
  BY <1>2 DEF Parked
<1>5. b.wait = <<>> => wait = <<>> /\ t.open = s.open
  BY <1>2
<1> HIDE DEF wait
<1>6. Parked(t, i) = [connect |-> Waiting(s.sock[i].connectWait),
                      close |-> Waiting(s.sock[i].closeWait),
                      accept |-> s.sock[i].acceptWait, recv |-> wait, send |-> b.sendWait]
  BY <1>2, <1>3 DEF Parked
<1>7. \A l \in Kinds : Parked(s, i)[l] = <<>> => Parked(t, i)[l] = <<>>
  BY <1>5, <1>6 DEF Parked, Kinds
<1>8. (\A l \in Kinds : Parked(s, i)[l] = <<>>) => b.wait = <<>>
  <2>1. "recv" \in Kinds /\ Parked(s, i)["recv"] = b.wait
    BY DEF Kinds, Parked
  <2> QED
    BY <2>1
<1>9. t.open \subseteq s.open
  BY <1>2
<1> QED
  BY <1>2, <1>4, <1>5, <1>7, <1>8, <1>9 DEF Only, t

\* A Send that waited is answered, or waits on.
LEMMA ResolveSendOnly ==
    ASSUME NEW A, Nat \subseteq A, NEW s \in HostState(A), NEW i \in Ids, NEW r,
           s.tcb[i].sendWait = <<r>>
    PROVE  Only(s, ResolveSend(s, i, r), i) /\ ResolveSend(s, i, r).sock = s.sock
<1>1. CASE ~HasRoom(s.tcb[i])
  <2>1. ResolveSend(s, i, r) = s
    BY <1>1 DEF ResolveSend
  <2> QED
    BY <2>1 DEF Only
<1>2. CASE HasRoom(s.tcb[i])
  <2> DEFINE u == Buffered(s, i, r)
             b == [u.tcb[i] EXCEPT !.sendWait = Tail(@)]
             t == [u EXCEPT !.tcb[i] = b]
  <2>1. ResolveSend(s, i, r) = t
    BY <1>2 DEF ResolveSend
  <2>2. u \in HostState(A)
    BY BufferedIs
  <2>3. /\ u.sock = s.sock /\ u.open = s.open \ {r} /\ u.owned = s.owned
        /\ \A j \in Ids : /\ u.tcb[j].wait = s.tcb[j].wait
                          /\ u.tcb[j].sendWait = s.tcb[j].sendWait
    <3>1. u.owned = s.owned
      BY DEF Buffered, PushMessage, Push, HostState
    <3> HIDE DEF u
    <3> QED
      BY <3>1, BufferedWaits DEF u
  <2> HIDE DEF u
  <2>4. u.tcb[i] \in Block(A) /\ u.tcb[i].sendWait = <<r>> /\ Tail(<<r>>) = <<>>
    BY <2>2, <2>3, BlockFields
  <2>5. b.wait = s.tcb[i].wait /\ b.sendWait = <<>>
    BY <2>3, <2>4 DEF Block
  <2> HIDE DEF b
  <2>6. /\ t.sock = u.sock /\ t.open = u.open /\ t.owned = u.owned
        /\ t.tcb[i] = b /\ \A j \in Ids \ {i} : t.tcb[j] = u.tcb[j]
    BY <2>2 DEF HostState
  <2> HIDE DEF t
  <2>7. \A j \in Ids \ {i} : Parked(t, j) = Parked(s, j)
    BY <2>3, <2>6 DEF Parked
  <2>8. Parked(t, i) = [connect |-> Waiting(s.sock[i].connectWait),
                        close |-> Waiting(s.sock[i].closeWait),
                        accept |-> s.sock[i].acceptWait,
                        recv |-> s.tcb[i].wait, send |-> <<>>]
    BY <2>3, <2>5, <2>6 DEF Parked
  <2>9. \A l \in Kinds : Parked(s, i)[l] = <<>> => Parked(t, i)[l] = <<>>
    BY <2>8 DEF Parked, Kinds
  <2>10. "send" \in Kinds /\ Parked(s, i)["send"] # <<>>
    BY DEF Kinds, Parked
  <2> QED
    BY <2>1, <2>3, <2>6, <2>7, <2>9, <2>10 DEF Only
<1> QED
  BY <1>1, <1>2

LEMMA ResolveSendsOnly ==
    ASSUME NEW A, Nat \subseteq A, NEW s \in HostState(A), NEW i \in Ids, Tidy(s)
    PROVE  Only(s, ResolveSends(s, i), i) /\ ResolveSends(s, i).sock = s.sock
<1>1. "send" \in Kinds /\ Parked(s, i)["send"] = s.tcb[i].sendWait
  BY DEF Kinds, Parked
<1>2. s.tcb[i].sendWait = <<>> \/ \E r : s.tcb[i].sendWait = <<r>>
  BY <1>1, TidyOne
<1>3. CASE s.tcb[i].sendWait = <<>>
  <2>1. ResolveSends(s, i) = s
    BY <1>3, ResolveSendsOne
  <2> QED
    BY <2>1 DEF Only
<1>4. ASSUME NEW r, s.tcb[i].sendWait = <<r>>
      PROVE  Only(s, ResolveSends(s, i), i) /\ ResolveSends(s, i).sock = s.sock
  BY <1>4, ResolveSendsOne, ResolveSendOnly
<1> QED
  BY <1>2, <1>3, <1>4

\* FIN is sent.
LEMMA CompleteCloseOnly ==
    ASSUME NEW A, Nat \subseteq A, NEW s \in HostState(A), NEW i \in Ids
    PROVE  LET t == CompleteClose(s, i) IN
           /\ Only(s, t, i) /\ State(t, i) = "Fin_Wait1"
           /\ t.sock[i].closeWait = s.sock[i].closeWait
<1> DEFINE g == Goto(s, i, "Fin_Wait1")
           t == SendShort(g, i, "Fin")
<1>1. /\ g \in HostState(A) /\ Only(s, g, i) /\ State(g, i) = "Fin_Wait1"
      /\ g.sock[i].closeWait = s.sock[i].closeWait
  BY GotoOnly DEF SocketStates
<1> HIDE DEF g
<1>2. Only(g, t, i) /\ t.sock = g.sock
  BY <1>1, SendShortOnly
<1> HIDE DEF t
<1>3. Only(s, t, i)
  BY <1>1, <1>2, OnlyTrans
<1>4. State(t, i) = "Fin_Wait1" /\ t.sock[i].closeWait = s.sock[i].closeWait
  BY <1>1, <1>2 DEF State
<1> QED
  BY <1>3, <1>4 DEF CompleteClose, t, g

LEMMA BackAckOnly ==
    ASSUME NEW A, Nat \subseteq A, NEW s \in HostState(A), NEW i \in Ids, NEW n \in A, Tidy(s)
    PROVE  LET t == BackAck(s, i, n) IN
           /\ Only(s, t, i) /\ State(t, i) \in {State(s, i), "Fin_Wait1"}
           /\ t.sock[i].closeWait = s.sock[i].closeWait
<1> DEFINE b == [s.tcb[i] EXCEPT !.acked = n]
           u == [s EXCEPT !.tcb[i] = b]
           t == ResolveSends(u, i)
           f == BackFree(t, i)
           c == CompleteClose(f, i)
<1>1. s.tcb[i] \in Block(A)
  BY BlockFields
<1>2. b \in Block(A) /\ b.wait = s.tcb[i].wait /\ b.sendWait = s.tcb[i].sendWait
  BY <1>1 DEF Block
<1> HIDE DEF b
<1>3. /\ u \in HostState(A) /\ u.tcb[i] = b /\ u.sock = s.sock /\ u.open = s.open
      /\ u.owned = s.owned /\ \A j \in Ids \ {i} : u.tcb[j] = s.tcb[j]
  BY <1>2, TcbIs
<1>4. BackAck(s, i, n) \in {s, c, t}
  BY DEF BackAck, b
<1> HIDE DEF u
<1>5. \A j \in Ids : Parked(u, j) = Parked(s, j)
  BY <1>2, <1>3 DEF Parked
<1>6. Only(s, u, i) /\ Tidy(u)
  BY <1>3, <1>5 DEF Only, Tidy, Idle, Busy
<1>7. t \in HostState(A) /\ Only(u, t, i) /\ t.sock = u.sock
  BY <1>3, <1>6, ResolveSendsIs, ResolveSendsOnly
<1> HIDE DEF t
<1>8. f \in HostState(A) /\ Only(t, f, i) /\ f.sock = t.sock
  BY <1>7, BackFreeIs, BackFreeOnly
<1> HIDE DEF f
<1>9. /\ Only(f, c, i) /\ State(c, i) = "Fin_Wait1"
      /\ c.sock[i].closeWait = f.sock[i].closeWait
  BY <1>8, CompleteCloseOnly
<1> HIDE DEF c
<1>10. Only(s, s, i) /\ Only(s, t, i)
  BY <1>6, <1>7, OnlyTrans DEF Only
<1>11. Only(s, c, i)
  BY <1>8, <1>9, <1>10, OnlyTrans
<1> QED
  BY <1>3, <1>4, <1>7, <1>8, <1>9, <1>10, <1>11 DEF State

\* Where there is no connection that was not accepted, nothing else is reset.
LEMMA ResetNone ==
    ASSUME NEW s
    PROVE  ResetAll(s, <<>>) = s
<1> DEFINE Body(g) == [k \in 0..Len(<<>>) |-> IF k = 0 THEN s
                                              ELSE ResetQueued(g[k - 1], <<>>[k])]
           all == CHOOSE g : g = Body(g)
           f == [k \in 0..Len(<<>>) |-> s]
<1>1. Len(<<>>) = 0 /\ 0..0 = {0}
  OBVIOUS
<1>2. f = Body(f)
  BY <1>1
<1>3. all = Body(all)
  BY <1>2
<1>4. ResetAll(s, <<>>) = all[Len(<<>>)]
  BY DEF ResetAll
<1> HIDE DEF all
<1> QED
  BY <1>1, <1>3, <1>4

LEMMA FreeWaitOnly ==
    ASSUME NEW A, NEW s \in HostState(A), NEW i \in Ids, s.sock[i].listenWait = <<>>
    PROVE  Only(s, FreeWait(s, i), i)
<1> DEFINE c == FreeCalls(s, i)
           k == [c.sock[i] EXCEPT !.listenWait = <<>>]
           t == [c EXCEPT !.sock[i] = k]
<1>1. FreeWait(s, i) = t
  BY ResetNone DEF FreeWait
<1>2. c \in HostState(A) /\ Only(s, c, i)
  BY FreeCallsIs, FreeCallsOnly
<1> HIDE DEF c
<1>3. c.sock[i] \in Socket(A) /\ c.sock[i].listenWait = <<>>
  BY <1>2, SockFields DEF Only
<1>4. k = c.sock[i]
  BY <1>3 DEF Socket
<1>5. t = c
  BY <1>2, <1>4 DEF HostState
<1> QED
  BY <1>1, <1>2, <1>5

LEMMA ResetSocketOnly ==
    ASSUME NEW A, Nat \subseteq A, NEW s \in HostState(A), NEW i \in Ids,
           State(s, i) \notin Dormant, s.sock[i].listenWait = <<>>
    PROVE  LET t == ResetSocket(s, i) IN Only(s, t, i) /\ State(t, i) = "Closed"
<1> DEFINE g == Goto(s, i, "Closed")
           w == FreeWait(g, i)
           t == BackFree(w, i)
<1>1. ResetSocket(s, i) = t
  BY DEF ResetSocket, Dormant
<1>2. /\ g \in HostState(A) /\ Only(s, g, i) /\ State(g, i) = "Closed"
      /\ g.sock[i].listenWait = <<>>
  <2>1. g \in HostState(A) /\ Only(s, g, i) /\ State(g, i) = "Closed"
    BY GotoOnly DEF SocketStates
  <2> HIDE DEF g
  <2> QED
    BY <2>1 DEF Only
<1> HIDE DEF g
<1>3. w \in HostState(A) /\ Only(g, w, i) /\ State(w, i) = "Closed"
  <2>1. w \in HostState(A) /\ Only(g, w, i)
    BY <1>2, FreeWaitIs, FreeWaitOnly
  <2>2. FreeWait(g, i) = [ResetAll(FreeCalls(g, i), <<>>) EXCEPT !.sock[i].listenWait = <<>>]
    BY <1>2 DEF FreeWait
  <2>3. FreeCalls(g, i) \in HostState(A) /\ State(FreeCalls(g, i), i) = "Closed"
    BY <1>2, FreeCallsIs DEF Quiet
  <2>4. FreeCalls(g, i).sock[i] \in Socket(A)
    BY <2>3, SockFields
  <2>5. State(w, i) = "Closed"
    BY <2>2, <2>3, <2>4, ResetNone DEF State, HostState, Socket
  <2> QED
    BY <2>1, <2>5
<1> HIDE DEF w
<1>4. Only(w, t, i) /\ t.sock = w.sock
  BY <1>3, BackFreeOnly
<1> HIDE DEF t
<1>5. Only(s, t, i)
  BY <1>2, <1>3, <1>4, OnlyTrans
<1>6. State(t, i) = "Closed"
  BY <1>3, <1>4 DEF State
<1> QED
  BY <1>1, <1>5, <1>6

-----------------------------------------------------------------------------
(* What a packet, or the backend's timer, does to the host of a client.  F *)
(* are the requests that are answered with Error.                          *)

\* No socket is for it, or it changes nothing there.
Deaf(s, t) == t.sock = s.sock /\ t.tcb = s.tcb /\ t.owned = s.owned /\ t.open = s.open

\* It is for connection i.
Heard(s, t, i) ==
    /\ i \in Ids /\ State(s, i) \notin Dormant /\ Only(s, t, i)
    /\ State(t, i) \notin {"Nil", "Listening", "Syn_Rcvd"}
    /\ State(t, i) = "Closed" \/ t.sock[i].closeWait = s.sock[i].closeWait

\* A SYN for a listener: socket i is taken for the connection.
Born(s, t, i) ==
    /\ i \in Ids /\ State(s, i) = "Nil" /\ State(t, i) = "Syn_Rcvd"
    /\ \E l \in Ids : State(s, l) = "Listening"
    /\ t.owned = s.owned /\ t.open = s.open
    /\ \A j \in Ids : Parked(t, j) = Parked(s, j)
    /\ \A j \in Ids \ {i} : t.sock[j] = s.sock[j]
    /\ t.sock[i].listenWait = s.sock[i].listenWait

\* The ACK that opens connection i of listener l: it waits to be accepted, or is
\* given to an Accept that waits.
Joined(s, t, l, i, F) ==
    /\ l \in Ids /\ i \in Ids /\ l # i
    /\ State(s, l) = "Listening" /\ State(t, l) = "Listening"
    /\ State(s, i) = "Syn_Rcvd" /\ State(t, i) = "Established"
    /\ \A j \in Ids \ {l, i} : t.sock[j] = s.sock[j]
    /\ t.sock[i].listenWait = s.sock[i].listenWait
    /\ \A j \in Ids, k \in Kinds : Parked(s, j)[k] = <<>> => Parked(t, j)[k] = <<>>
    /\ F = {}
    /\ \/ /\ s.sock[l].acceptWait = <<>> /\ t.open = s.open /\ t.owned = s.owned
          /\ t.sock[l].listenWait = Append(s.sock[l].listenWait, i)
       \/ /\ s.sock[l].acceptWait # <<>> /\ t.owned = s.owned \cup {i}
          /\ t.open = s.open \ {Head(s.sock[l].acceptWait)}
          /\ t.sock[l].listenWait = s.sock[l].listenWait

Change(s, t, F) ==
    \/ Deaf(s, t)
    \/ \E i \in Ids : Heard(s, t, i)
    \/ \E i \in Ids : Born(s, t, i)
    \/ \E l \in Ids, i \in Ids : Joined(s, t, l, i, F)

\* h leaves behind such a state.
Comes(A, h) ==
    \E w, t : /\ Leaves(h, w, t) /\ t \in HostState(A)
              /\ Change(host[h], t, t.failed \ host[h].failed)

\* Only sockets that listen have connections in their queue.
QueuesListen(s) == \A i \in Ids : State(s, i) = "Listening" \/ s.sock[i].listenWait = <<>>

LEMMA HeardComes ==
    ASSUME NEW A, NEW h, NEW w, NEW t \in HostState(A), NEW i \in Ids, Leaves(h, w, t),
           Heard(host[h], t, i)
    PROVE  Comes(A, h)
BY DEF Comes, Change

LEMMA RstComes ==
    ASSUME NEW A, Nat \subseteq A, NEW h \in Hosts, host[h] \in HostState(A),
           QueuesListen(host[h]), NEW i \in Ids, State(host[h], i) # "Nil", NEW w,
           OnRst(h, i, w)
    PROVE  Comes(A, h)
<1> DEFINE s == host[h]
           t == ResetSocket(s, i)
<1>1. Leaves(h, w, t)
  BY DEF OnRst
<1>2. t \in HostState(A)
  BY ResetSocketIs
<1>3. CASE State(s, i) \in {"Listening", "Closed"}
  <2>1. t = s
    BY <1>3 DEF ResetSocket
  <2>2. Deaf(s, t)
    BY <2>1 DEF Deaf
  <2> QED
    BY <1>1, <1>2, <2>2 DEF Comes, Change
<1>4. CASE State(s, i) \notin {"Listening", "Closed"}
  <2>1. State(s, i) \notin Dormant /\ s.sock[i].listenWait = <<>>
    BY <1>4 DEF Dormant, QueuesListen
  <2>2. Only(s, t, i) /\ State(t, i) = "Closed"
    BY <2>1, ResetSocketOnly
  <2> HIDE DEF t
  <2>3. Heard(s, t, i)
    BY <2>1, <2>2 DEF Heard
  <2> QED
    BY <1>1, <1>2, <2>3, HeardComes DEF t
<1> QED
  BY <1>3, <1>4

LEMMA SynAckComes ==
    ASSUME NEW A, Nat \subseteq A, NEW h \in Hosts, host[h] \in HostState(A), NEW i \in Ids,
           NEW w, OnSynAck(h, i, w)
    PROVE  Comes(A, h)
<1> DEFINE s == host[h]
           g == Goto(s, i, "Established")
           b == BackEstablish(g, i)
           r == ReturnConnect(b, i)
           t == SendShort(r, i, "Ack")
<1>1. s \in HostState(A) /\ State(s, i) = "Syn_Sent" /\ Leaves(h, w, t)
  BY DEF OnSynAck
<1> HIDE DEF s
<1>2. /\ g \in HostState(A) /\ Only(s, g, i) /\ State(g, i) = "Established"
      /\ g.sock[i].closeWait = s.sock[i].closeWait
  BY <1>1, GotoOnly DEF SocketStates
<1> HIDE DEF g
<1>3. b \in HostState(A) /\ Only(g, b, i) /\ b.sock = g.sock
  BY <1>2, BackEstablishIs, BackEstablishOnly
<1> HIDE DEF b
<1>4. /\ r \in HostState(A) /\ Only(b, r, i) /\ State(r, i) = State(b, i)
      /\ r.sock[i].closeWait = b.sock[i].closeWait
  BY <1>3, ReturnConnectIs, ReturnConnectOnly DEF Quiet
<1> HIDE DEF r
<1>5. t \in HostState(A) /\ Only(r, t, i) /\ t.sock = r.sock
  BY <1>4, SendShortIs, SendShortOnly DEF Flags
<1> HIDE DEF t
<1>6. Only(s, b, i)
  BY <1>2, <1>3, OnlyTrans
<1>7. Only(s, r, i)
  BY <1>4, <1>6, OnlyTrans
<1>8. Only(s, t, i)
  BY <1>5, <1>7, OnlyTrans
<1>9. State(t, i) = "Established" /\ t.sock[i].closeWait = s.sock[i].closeWait
  BY <1>2, <1>3, <1>4, <1>5 DEF State
<1>10. Heard(s, t, i)
  BY <1>1, <1>8, <1>9 DEF Heard, Dormant
<1> QED
  BY <1>1, <1>5, <1>10, HeardComes DEF s

LEMMA SynComes ==
    ASSUME NEW A, Nat \subseteq A, NEW h \in Hosts, host[h] \in HostState(A), NEW g \in Hosts,
           NEW p, p.sport \in A, NEW w, NEW i \in Ids, OnSyn(h, i, g, p, w)
    PROVE  Comes(A, h)
<1> DEFINE s == host[h]
           child == Min(Unused(s))
<1>1. CASE State(s, i) = "Established" /\ Leaves(h, w, BackData(s, i, p.n))
  <2> DEFINE t == BackData(s, i, p.n)
  <2>1. t \in HostState(A) /\ Only(s, t, i) /\ t.sock = s.sock
    BY BackDataIs, BackDataOnly
  <2>2. Leaves(h, w, t)
    BY <1>1
  <2> HIDE DEF t
  <2>3. Heard(s, t, i)
    BY <1>1, <2>1 DEF Heard, State, Dormant
  <2> QED
    BY <2>1, <2>2, <2>3, HeardComes
<1> DEFINE created == [s EXCEPT !.sock[child] =
                          [@ EXCEPT !.state = "Syn_Rcvd", !.ip = g,
                                    !.sport = s.sock[i].sport, !.dport = p.sport]]
           t == SendShort(created, child, "SynAck")
<1>2. CASE State(s, i) = "Listening" /\ Unused(s) # {} /\ Leaves(h, w, t)
  <2>1. child \in Ids /\ State(s, child) = "Nil"
    <3>1. Unused(s) \subseteq Ids
      BY DEF Unused
    <3>2. child \in Unused(s)
      BY <1>2, <3>1, MinIn
    <3> QED
      BY <3>2 DEF Unused
  <2> HIDE DEF child
  <2> DEFINE k == [s.sock[child] EXCEPT !.state = "Syn_Rcvd", !.ip = g,
                                        !.sport = s.sock[i].sport, !.dport = p.sport]
  <2>2. /\ s.sock[child] \in Socket(A) /\ s.sock[i].sport \in A
        /\ created = [s EXCEPT !.sock[child] = k]
    BY <2>1, SockFields
  <2>3. /\ k \in Socket(A) /\ k.connectWait = s.sock[child].connectWait
        /\ k.closeWait = s.sock[child].closeWait /\ k.acceptWait = s.sock[child].acceptWait
        /\ k.state = "Syn_Rcvd" /\ k.listenWait = s.sock[child].listenWait
    BY <2>2 DEF Socket, SocketStates
  <2> HIDE DEF k, created
  <2>4. /\ created \in HostState(A) /\ created.sock[child] = k /\ created.tcb = s.tcb
        /\ \A j \in Ids \ {child} : created.sock[j] = s.sock[j]
    BY <2>1, <2>2, <2>3, SockIs
  <2>5. created.open = s.open /\ created.owned = s.owned
    BY <2>2 DEF HostState
  <2>6. t \in HostState(A) /\ t.sock = created.sock
    BY <2>1, <2>4, SendShortIs, SendShortOnly DEF Flags
  <2>7. t.open = created.open /\ t.owned = created.owned /\ t.tcb = created.tcb
    BY <2>4 DEF SendShort, Push, HostState
  <2> HIDE DEF t
  <2>8. \A j \in Ids : Parked(t, j) = Parked(s, j)
    BY <2>3, <2>4, <2>6, <2>7 DEF Parked
  <2>9. State(t, child) = "Syn_Rcvd" /\ t.sock[child].listenWait = s.sock[child].listenWait
    BY <2>3, <2>4, <2>6 DEF State
  <2>10. Born(s, t, child)
    BY <1>2, <2>1, <2>4, <2>5, <2>6, <2>7, <2>8, <2>9 DEF Born
  <2> QED
    BY <1>2, <2>1, <2>6, <2>10 DEF Comes, Change
<1> QED
  BY <1>1, <1>2 DEF OnSyn

LEMMA FinComes ==
    ASSUME NEW A, Nat \subseteq A, NEW h \in Hosts, host[h] \in HostState(A), NEW i \in Ids,
           NEW w, OnFin(h, i, w)
    PROVE  Comes(A, h)
<1> DEFINE s == host[h]
<1>1. s \in HostState(A)
  OBVIOUS
<1>2. CASE /\ State(s, i) = "Established"
           /\ Leaves(h, w, BackFree(SendShort(Goto(s, i, "Close_Wait"), i, "Ack"), i))
  <2> HIDE DEF s
  <2> DEFINE g == Goto(s, i, "Close_Wait")
             u == SendShort(g, i, "Ack")
             t == BackFree(u, i)
  <2>1. /\ g \in HostState(A) /\ Only(s, g, i) /\ State(g, i) = "Close_Wait"
        /\ g.sock[i].closeWait = s.sock[i].closeWait
    BY <1>1, GotoOnly DEF SocketStates
  <2> HIDE DEF g
  <2>2. u \in HostState(A) /\ Only(g, u, i) /\ u.sock = g.sock
    BY <2>1, SendShortIs, SendShortOnly DEF Flags
  <2> HIDE DEF u
  <2>3. t \in HostState(A) /\ Only(u, t, i) /\ t.sock = u.sock
    BY <2>2, BackFreeIs, BackFreeOnly
  <2>4. Leaves(h, w, t)
    BY <1>2 DEF u, g
  <2> HIDE DEF t
  <2>5. Only(s, u, i)
    BY <2>1, <2>2, OnlyTrans
  <2>6. Only(s, t, i)
    BY <2>3, <2>5, OnlyTrans
  <2>7. Heard(s, t, i)
    BY <1>2, <2>1, <2>2, <2>3, <2>6 DEF Heard, Dormant, State
  <2> QED
    BY <2>3, <2>4, <2>7, HeardComes DEF s
<1>3. CASE /\ State(s, i) = "Fin_Wait1"
           /\ Leaves(h, w, SendShort(Goto(s, i, "Closing"), i, "Ack"))
  <2> HIDE DEF s
  <2> DEFINE g == Goto(s, i, "Closing")
             t == SendShort(g, i, "Ack")
  <2>1. /\ g \in HostState(A) /\ Only(s, g, i) /\ State(g, i) = "Closing"
        /\ g.sock[i].closeWait = s.sock[i].closeWait
    BY <1>1, GotoOnly DEF SocketStates
  <2> HIDE DEF g
  <2>2. t \in HostState(A) /\ Only(g, t, i) /\ t.sock = g.sock
    BY <2>1, SendShortIs, SendShortOnly DEF Flags
  <2>3. Leaves(h, w, t)
    BY <1>3 DEF g
  <2> HIDE DEF t
  <2>4. Only(s, t, i)
    BY <2>1, <2>2, OnlyTrans
  <2>5. Heard(s, t, i)
    BY <1>3, <2>1, <2>2, <2>4 DEF Heard, Dormant, State
  <2> QED
    BY <2>2, <2>3, <2>5, HeardComes DEF s
<1>4. CASE /\ State(s, i) = "Fin_Wait2"
           /\ Leaves(h, w, SendShort(ReturnClose(Goto(s, i, "Closed"), i), i, "Ack"))
  <2> HIDE DEF s
  <2> DEFINE g == Goto(s, i, "Closed")
             r == ReturnClose(g, i)
             t == SendShort(r, i, "Ack")
  <2>1. g \in HostState(A) /\ Only(s, g, i) /\ State(g, i) = "Closed"
    BY <1>1, GotoOnly DEF SocketStates
  <2> HIDE DEF g
  <2>2. r \in HostState(A) /\ Only(g, r, i) /\ State(r, i) = State(g, i)
    BY <2>1, ReturnCloseIs, ReturnCloseOnly DEF Quiet
  <2> HIDE DEF r
  <2>3. t \in HostState(A) /\ Only(r, t, i) /\ t.sock = r.sock
    BY <2>2, SendShortIs, SendShortOnly DEF Flags
  <2>4. Leaves(h, w, t)
    BY <1>4 DEF r, g
  <2> HIDE DEF t
  <2>5. Only(s, r, i)
    BY <2>1, <2>2, OnlyTrans
  <2>6. Only(s, t, i)
    BY <2>3, <2>5, OnlyTrans
  <2>7. Heard(s, t, i)
    BY <1>4, <2>1, <2>2, <2>3, <2>6 DEF Heard, Dormant, State
  <2> QED
    BY <2>3, <2>4, <2>7, HeardComes DEF s
<1> QED
  BY <1>2, <1>3, <1>4 DEF OnFin

\* queue_listen of a connection that has just been opened.
LEMMA QueueListenJoins ==
    ASSUME NEW A, Nat \subseteq A, NEW s \in HostState(A), NEW l \in Ids, NEW i \in Ids,
           State(s, l) = "Listening", State(s, i) = "Syn_Rcvd"
    PROVE  LET t == QueueListen(BackEstablish(Goto(s, i, "Established"), i), l, i) IN
           t \in HostState(A) /\ Joined(s, t, l, i, t.failed \ s.failed)
<1> DEFINE g == Goto(s, i, "Established")
           b == BackEstablish(g, i)
           calls == b.sock[l].acceptWait
           t == QueueListen(b, l, i)
<1>1. /\ g \in HostState(A) /\ Only(s, g, i) /\ State(g, i) = "Established"
      /\ g.failed = s.failed /\ g.open = s.open
  <2>1. g.failed = s.failed /\ g.open = s.open
    BY DEF Goto, HostState
  <2> HIDE DEF g
  <2> QED
    BY <2>1, GotoOnly DEF SocketStates, g
<1> HIDE DEF g
<1>2. b.failed = g.failed /\ b.open = g.open
  BY <1>1 DEF BackEstablish, HostState
<1>3. b \in HostState(A) /\ Only(g, b, i) /\ b.sock = g.sock
  BY <1>1, BackEstablishIs, BackEstablishOnly
<1> HIDE DEF b
<1>4. Only(s, b, i) /\ l # i
  BY <1>1, <1>3, OnlyTrans
<1>5. t \in HostState(A) /\ Quiet(b, t)
  BY <1>3, QueueListenIs
<1>6. State(t, l) = "Listening" /\ State(t, i) = "Established"
  BY <1>1, <1>3, <1>4, <1>5 DEF Quiet, Only, State
<1>7. /\ b.sock[l] \in Socket(A) /\ b.sock[l] = s.sock[l] /\ b.owned = s.owned
      /\ \A j \in Ids \ {i} : b.sock[j] = s.sock[j]
      /\ b.sock[i].listenWait = s.sock[i].listenWait
      /\ \A j \in Ids, k \in Kinds : Parked(s, j)[k] = <<>> => Parked(b, j)[k] = <<>>
  BY <1>3, <1>4 DEF Only, HostState
<1>8. CASE calls = <<>>
  <2> DEFINE k == [b.sock[l] EXCEPT !.listenWait = Append(@, i)]
  <2>1. /\ t.sock[l] = k /\ \A j \in Ids \ {l} : t.sock[j] = b.sock[j]
        /\ t.tcb = b.tcb /\ t.open = b.open /\ t.owned = b.owned /\ t.failed = b.failed
    BY <1>3, <1>8 DEF QueueListen, HostState
  <2>2. /\ k.listenWait = Append(s.sock[l].listenWait, i)
        /\ k.connectWait = b.sock[l].connectWait /\ k.closeWait = b.sock[l].closeWait
        /\ k.acceptWait = b.sock[l].acceptWait
    BY <1>7 DEF Socket
  <2> HIDE DEF k, t
  <2>3. \A j \in Ids : Parked(t, j) = Parked(b, j)
    BY <2>1, <2>2 DEF Parked
  <2>4. /\ \A j \in Ids \ {l, i} : t.sock[j] = s.sock[j]
        /\ t.sock[i].listenWait = s.sock[i].listenWait
        /\ t.failed \ s.failed = {} /\ t.open = s.open /\ t.owned = s.owned
    BY <1>1, <1>2, <1>4, <1>7, <2>1
  <2>5. \A j \in Ids, x \in Kinds : Parked(s, j)[x] = <<>> => Parked(t, j)[x] = <<>>
    BY <1>7, <2>3
  <2>6. s.sock[l].acceptWait = <<>> /\ t.sock[l].listenWait = Append(s.sock[l].listenWait, i)
    BY <1>7, <1>8, <2>1, <2>2
  <2>7. Joined(s, t, l, i, t.failed \ s.failed)
    BY <1>4, <1>6, <2>4, <2>5, <2>6 DEF Joined
  <2> QED
    BY <1>5, <2>7 DEF t, b, g
<1>9. CASE calls # <<>>
  <2> DEFINE k == [b.sock[l] EXCEPT !.acceptWait = Tail(@)]
  <2>1. /\ t.sock[l] = k /\ \A j \in Ids \ {l} : t.sock[j] = b.sock[j]
        /\ t.tcb = b.tcb /\ t.open = b.open \ {Head(calls)} /\ t.owned = b.owned \cup {i}
        /\ t.failed = b.failed
    BY <1>3, <1>9 DEF QueueListen, HostState
  <2>2. /\ k.listenWait = s.sock[l].listenWait
        /\ k.connectWait = b.sock[l].connectWait /\ k.closeWait = b.sock[l].closeWait
    BY <1>7 DEF Socket
  <2> HIDE DEF k, t
  <2>3. \A j \in Ids \ {l} : Parked(t, j) = Parked(b, j)
    BY <2>1, <2>2 DEF Parked
  <2>4. \A x \in Kinds : Parked(b, l)[x] = <<>> => Parked(t, l)[x] = <<>>
    <3>1. Parked(t, l) = [connect |-> Waiting(b.sock[l].connectWait),
                          close |-> Waiting(b.sock[l].closeWait),
                          accept |-> k.acceptWait,
                          recv |-> b.tcb[l].wait, send |-> b.tcb[l].sendWait]
      BY <2>1, <2>2 DEF Parked
    <3> QED
      BY <1>9, <3>1 DEF Parked, Kinds
  <2>5. \A j \in Ids, x \in Kinds : Parked(s, j)[x] = <<>> => Parked(t, j)[x] = <<>>
    BY <1>7, <2>3, <2>4
  <2>6. /\ \A j \in Ids \ {l, i} : t.sock[j] = s.sock[j]
        /\ t.sock[i].listenWait = s.sock[i].listenWait
        /\ t.failed \ s.failed = {} /\ t.owned = s.owned \cup {i}
    BY <1>1, <1>2, <1>4, <1>7, <2>1
  <2>7. /\ s.sock[l].acceptWait # <<>> /\ t.open = s.open \ {Head(s.sock[l].acceptWait)}
        /\ t.sock[l].listenWait = s.sock[l].listenWait
    BY <1>1, <1>2, <1>7, <1>9, <2>1, <2>2
  <2>8. Joined(s, t, l, i, t.failed \ s.failed)
    BY <1>4, <1>6, <2>5, <2>6, <2>7 DEF Joined
  <2> QED
    BY <1>5, <2>8 DEF t, b, g
<1> QED
  BY <1>8, <1>9

LEMMA AckComes ==
    ASSUME NEW A, Nat \subseteq A, NEW h \in Hosts, host[h] \in HostState(A),
           Orderly(host[h], {}), ~host[h].crashed, QueuesListen(host[h]), NEW i \in Ids,
           NEW p, p.n \in A, NEW w, OnAck(h, i, p, w)
    PROVE  Comes(A, h)
<1> DEFINE s == host[h]
           listeners == Listeners(s, s.sock[i].sport)
<1>1. s \in HostState(A) /\ Tidy(s) /\ QueuesListen(s)
  BY DEF Orderly
<1>2. CASE State(s, i) = "Established" /\ Leaves(h, w, BackAck(s, i, p.n))
  <2> HIDE DEF s
  <2> DEFINE t == BackAck(s, i, p.n)
  <2>1. /\ t \in HostState(A) /\ Only(s, t, i) /\ State(t, i) \in {"Established", "Fin_Wait1"}
        /\ t.sock[i].closeWait = s.sock[i].closeWait
    BY <1>1, <1>2, BackAckIs, BackAckOnly
  <2>2. Leaves(h, w, t)
    BY <1>2
  <2> HIDE DEF t
  <2>3. Heard(s, t, i)
    BY <1>2, <2>1 DEF Heard, Dormant
  <2> QED
    BY <2>1, <2>2, <2>3, HeardComes DEF s
<1>3. CASE /\ State(s, i) = "Syn_Rcvd"
           /\ Leaves(h, w, ResetSocket(SendShort(s, i, "Rst"), i))
  <2> HIDE DEF s
  <2> DEFINE u == SendShort(s, i, "Rst")
             t == ResetSocket(u, i)
  <2>1. u \in HostState(A) /\ u.sock = s.sock /\ Only(s, u, i)
    BY <1>1, SendShortIs, SendShortOnly DEF Flags
  <2>2. Leaves(h, w, t)
    BY <1>3
  <2> HIDE DEF u
  <2>3. State(u, i) \notin Dormant /\ State(u, i) # "Nil" /\ u.sock[i].listenWait = <<>>
    BY <1>1, <1>3, <2>1 DEF State, Dormant, QueuesListen
  <2>4. t \in HostState(A) /\ Only(u, t, i) /\ State(t, i) = "Closed"
    BY <2>1, <2>3, ResetSocketIs, ResetSocketOnly
  <2> HIDE DEF t
  <2>5. Only(s, t, i)
    BY <2>1, <2>4, OnlyTrans
  <2>6. Heard(s, t, i)
    BY <1>3, <2>4, <2>5 DEF Heard, Dormant
  <2> QED
    BY <2>2, <2>4, <2>6, HeardComes DEF s
<1>4. CASE /\ State(s, i) = "Syn_Rcvd" /\ listeners # {}
           /\ Leaves(h, w, QueueListen(BackEstablish(Goto(s, i, "Established"), i),
                                       Min(listeners), i))
  <2> DEFINE l == Min(listeners)
             t == QueueListen(BackEstablish(Goto(s, i, "Established"), i), l, i)
  <2>1. l \in Ids /\ State(s, l) = "Listening"
    <3>1. listeners \subseteq Ids
      BY DEF Listeners, Bound
    <3>2. l \in listeners
      BY <1>4, <3>1, MinIn
    <3> QED
      BY <3>1, <3>2 DEF Listeners
  <2>2. Leaves(h, w, t)
    BY <1>4
  <2> HIDE DEF l, s
  <2>3. t \in HostState(A) /\ Joined(s, t, l, i, t.failed \ s.failed)
    BY <1>1, <1>4, <2>1, QueueListenJoins
  <2> HIDE DEF t
  <2>4. Change(s, t, t.failed \ s.failed)
    BY <2>1, <2>3 DEF Change
  <2> QED
    BY <2>2, <2>3, <2>4 DEF Comes, s
<1>5. CASE State(s, i) = "Fin_Wait1" /\ Leaves(h, w, Goto(s, i, "Fin_Wait2"))
  <2> HIDE DEF s
  <2> DEFINE t == Goto(s, i, "Fin_Wait2")
  <2>1. /\ t \in HostState(A) /\ Only(s, t, i) /\ State(t, i) = "Fin_Wait2"
        /\ t.sock[i].closeWait = s.sock[i].closeWait
    BY <1>1, GotoOnly DEF SocketStates
  <2>2. Leaves(h, w, t)
    BY <1>5
  <2> HIDE DEF t
  <2>3. Heard(s, t, i)
    BY <1>5, <2>1 DEF Heard, Dormant
  <2> QED
    BY <2>1, <2>2, <2>3, HeardComes DEF s
<1>6. CASE /\ State(s, i) \in {"Closing", "Last_Ack"}
           /\ Leaves(h, w, ReturnClose(Goto(s, i, "Closed"), i))
  <2> HIDE DEF s
  <2> DEFINE g == Goto(s, i, "Closed")
             t == ReturnClose(g, i)
  <2>1. g \in HostState(A) /\ Only(s, g, i) /\ State(g, i) = "Closed"
    BY <1>1, GotoOnly DEF SocketStates
  <2>2. Leaves(h, w, t)
    BY <1>6
  <2> HIDE DEF g
  <2>3. t \in HostState(A) /\ Only(g, t, i) /\ State(t, i) = State(g, i)
    BY <2>1, ReturnCloseIs, ReturnCloseOnly DEF Quiet
  <2> HIDE DEF t
  <2>4. Only(s, t, i)
    BY <2>1, <2>3, OnlyTrans
  <2>5. Heard(s, t, i)
    BY <1>6, <2>1, <2>3, <2>4 DEF Heard, Dormant
  <2> QED
    BY <2>2, <2>3, <2>5, HeardComes DEF s
<1> QED
  BY <1>2, <1>3, <1>4, <1>5, <1>6 DEF OnAck

LEMMA ArrivalComes ==
    ASSUME NEW A, Nat \subseteq A, NEW g \in Hosts, NEW h \in Hosts,
           host[h] \in HostState(A), Orderly(host[h], {}), QueuesListen(host[h]),
           Head(wire[<<g, h>>]).sport \in A, Head(wire[<<g, h>>]).dport \in A,
           Head(wire[<<g, h>>]).n \in A,
           PacketArrives(g, h)
    PROVE  Comes(A, h)
<1> DEFINE c == <<g, h>>
           p == Head(wire[c])
           s == host[h]
           connected == Connected(s, g, p.dport, p.sport)
           found == IF connected # {} THEN connected ELSE Listeners(s, p.dport)
           i == Min(found)
           w == Without(c)
<1>1. found \subseteq Ids /\ \A j \in found : State(s, j) # "Nil"
  BY DEF Connected, Listeners, Bound
<1>2. found # {} => i \in found
  BY <1>1, MinIn
<1>3. \/ /\ found = {}
         /\ Leaves(h, w, IF p.flag = "Rst" THEN s ELSE Push(s, g, p.dport, p.sport, "Rst", 0))
      \/ found # {} /\ Leaves(h, w, s)
      \/ found # {} /\ OnRst(h, i, w)
      \/ found # {} /\ OnSynAck(h, i, w)
      \/ found # {} /\ OnSyn(h, i, g, p, w)
      \/ found # {} /\ OnFin(h, i, w)
      \/ found # {} /\ OnAck(h, i, p, w)
  BY DEF PacketArrives
<1>4. ~s.crashed
  BY DEF PacketArrives
<1> HIDE DEF w, i, p
<1>5. p.sport \in A /\ p.dport \in A /\ p.n \in A
  BY DEF p
<1>6. found # {} => i \in Ids /\ State(s, i) # "Nil"
  BY <1>1, <1>2
<1> HIDE DEF found
<1>7. CASE Leaves(h, w, IF p.flag = "Rst" THEN s ELSE Push(s, g, p.dport, p.sport, "Rst", 0))
  <2> DEFINE u == Push(s, g, p.dport, p.sport, "Rst", 0)
  <2>1. u \in HostState(A)
    BY <1>5, PushIs DEF Flags
  <2>2. Deaf(s, u)
    BY DEF Deaf, Push, HostState
  <2> HIDE DEF u
  <2>3. Leaves(h, w, s) \/ Leaves(h, w, u)
    BY <1>7 DEF u
  <2>4. Deaf(s, s)
    BY DEF Deaf
  <2> QED
    BY <2>1, <2>2, <2>3, <2>4 DEF Comes, Change
<1>8. CASE Leaves(h, w, s)
  BY <1>8 DEF Comes, Change, Deaf
<1>9. CASE found # {} /\ OnRst(h, i, w)
  BY <1>6, <1>9, RstComes
<1>10. CASE found # {} /\ OnSynAck(h, i, w)
  BY <1>6, <1>10, SynAckComes
<1>11. CASE found # {} /\ OnSyn(h, i, g, p, w)
  BY <1>5, <1>6, <1>11, SynComes
<1>12. CASE found # {} /\ OnFin(h, i, w)
  BY <1>6, <1>12, FinComes
<1>13. CASE found # {} /\ OnAck(h, i, p, w)
  BY <1>4, <1>5, <1>6, <1>13, AckComes
<1> QED
  BY <1>3, <1>7, <1>8, <1>9, <1>10, <1>11, <1>12, <1>13

LEMMA TimeOutComes ==
    ASSUME NEW A, NEW h \in Hosts, host[h] \in HostState(A), NEW i \in Ids,
           host[h].tcb[i].acked + 1 \in A, TimeOut(h, i)
    PROVE  Comes(A, h)
<1> DEFINE t == PushMessage(host[h], i, host[h].tcb[i].acked + 1)
<1>1. Leaves(h, wire, t)
  BY DEF TimeOut
<1>2. t \in HostState(A)
  BY PushMessageIs
<1>3. Deaf(host[h], t)
  BY DEF Deaf, PushMessage, Push, HostState
<1> QED
  BY <1>1, <1>2, <1>3 DEF Comes, Change

-----------------------------------------------------------------------------
(* What the client then finds.                                             *)

\* Sending what was pushed, and noting which requests failed, changes no socket
\* and no other host.
LEMMA LeavesAs ==
    ASSUME NEW A, host \in [Hosts -> HostState(A)], NEW h \in Hosts, NEW w,
           NEW t \in HostState(A), Leaves(h, w, t)
    PROVE  LET u == host'[h] IN
           /\ u.sock = t.sock /\ u.tcb = t.tcb /\ u.open = t.open /\ u.owned = t.owned
           /\ u.crashed = t.crashed /\ u.failed = t.failed \ host[h].failed
           /\ \A g \in Hosts \ {h} : host'[g] = host[g]
BY DEF Leaves, HostState

LEMMA ChangeAs ==
    ASSUME NEW s, NEW t, NEW u, NEW F, Change(s, t, F), u.sock = t.sock, u.tcb = t.tcb,
           u.open = t.open, u.owned = t.owned
    PROVE  Change(s, u, F)
<1>1. \A j \in Ids : Parked(u, j) = Parked(t, j) /\ State(u, j) = State(t, j)
  BY DEF Parked, State
<1>2. CASE Deaf(s, t)
  BY <1>2 DEF Deaf, Change
<1>3. ASSUME NEW i \in Ids, Heard(s, t, i)
      PROVE  Change(s, u, F)
  <2>1. Only(s, u, i)
    BY <1>1, <1>3 DEF Only, Heard
  <2>2. Heard(s, u, i)
    BY <1>1, <1>3, <2>1 DEF Heard
  <2> QED
    BY <2>2 DEF Change
<1>4. ASSUME NEW i \in Ids, Born(s, t, i)
      PROVE  Change(s, u, F)
  <2>1. Born(s, u, i)
    BY <1>1, <1>4 DEF Born
  <2> QED
    BY <2>1 DEF Change
<1>5. ASSUME NEW l \in Ids, NEW i \in Ids, Joined(s, t, l, i, F)
      PROVE  Change(s, u, F)
  <2>1. \A j \in Ids, k \in Kinds : Parked(s, j)[k] = <<>> => Parked(u, j)[k] = <<>>
    BY <1>1, <1>5 DEF Joined
  <2>2. State(u, l) = "Listening" /\ State(u, i) = "Established"
    BY <1>1, <1>5 DEF Joined
  <2>3. Joined(s, u, l, i, F)
    BY <1>5, <2>1, <2>2 DEF Joined
  <2> QED
    BY <2>3 DEF Change
<1> QED
  BY <1>2, <1>3, <1>4, <1>5 DEF Change

LEMMA OrderlyAs ==
    ASSUME NEW t, NEW u, Orderly(t, {}), u.sock = t.sock, u.tcb = t.tcb, u.open = t.open,
           u.crashed = t.crashed
    PROVE  Orderly(u, {})
<1>1. Same(t, u)
  BY DEF Same, Parked
<1> QED
  BY <1>1, ApartOrderly

LEMMA ComesTo ==
    ASSUME NEW A, host \in [Hosts -> HostState(A)], NEW h \in Hosts, Comes(A, h), Lands(A, h)
    PROVE  /\ Change(host[h], host'[h], host'[h].failed) /\ Orderly(host'[h], {})
           /\ \A g \in Hosts \ {h} : host'[g] = host[g]
<1>1. PICK w, t : /\ Leaves(h, w, t) /\ t \in HostState(A)
                  /\ Change(host[h], t, t.failed \ host[h].failed)
  BY DEF Comes
<1>2. PICK x, v : Leaves(h, x, v) /\ v \in HostState(A) /\ Orderly(v, {})
  BY DEF Lands
<1>3. LET u == host'[h] IN
      /\ u.sock = t.sock /\ u.tcb = t.tcb /\ u.open = t.open /\ u.owned = t.owned
      /\ u.failed = t.failed \ host[h].failed
      /\ \A g \in Hosts \ {h} : host'[g] = host[g]
  BY <1>1, LeavesAs
<1>4. LET u == host'[h] IN
      u.sock = v.sock /\ u.tcb = v.tcb /\ u.open = v.open /\ u.crashed = v.crashed
  BY <1>2, LeavesAs
<1>5. Change(host[h], host'[h], t.failed \ host[h].failed)
  BY <1>1, <1>3, ChangeAs
<1>6. Orderly(host'[h], {})
  BY <1>2, <1>4, OrderlyAs
<1> QED
  BY <1>3, <1>5, <1>6

-----------------------------------------------------------------------------
(* What a client knows of its host.                                        *)

\* The host of a client that has not made a request yet.
Untouched(s) == s.sock = EmptyHost.sock /\ s.owned = {} /\ s.open = {}

\* The server has its own socket l.
Ready(s, l) ==
    /\ s.open = {} /\ s.owned = {l} /\ l \in Ids
    /\ State(s, l) = "Closed" /\ s.sock[l].ip = Nowhere /\ s.sock[l].listenWait = <<>>
    /\ \A j \in Ids \ {l} : s.sock[j] = EmptySocket

\* Of those that listen it is the only one, and what is in its queue are
\* connections, each once, that the server was not given yet.
OneListens(s, l) ==
    /\ l \in Ids /\ State(s, l) = "Listening"
    /\ \A j \in Ids \ {l} : State(s, j) # "Listening" /\ s.sock[j].listenWait = <<>>
    /\ LET queue == s.sock[l].listenWait IN
       /\ \A m, n \in 1..Len(queue) : m # n => queue[m] # queue[n]
       /\ \A m \in 1..Len(queue) :
             /\ queue[m] \in Ids \ s.owned
             /\ State(s, queue[m]) \notin {"Nil", "Syn_Rcvd", "Listening"}

\* The request that is open, if any, waits on socket i for l.
Awaits(s, i, l) == s.open # {} => Parked(s, i)[l] # <<>>

\* It serves one connection, c.id1, or none.
Serves(s, c) ==
    /\ OneListens(s, c.id)
    /\ \/ c.state = "Listened" /\ s.owned = {c.id} /\ Awaits(s, c.id, "accept")
       \/ /\ c.state \in {"Reading", "Closing", "AcceptClose"}
          /\ s.owned = {c.id, c.id1} /\ c.id1 \in Ids \ {c.id}
          /\ State(s, c.id1) \notin {"Nil", "Syn_Rcvd"}
          /\ c.state = "Reading" => Awaits(s, c.id1, "recv")
          /\ c.state = "Closing" => Awaits(s, c.id1, "close")
          /\ c.state = "AcceptClose" => State(s, c.id1) = "Closed" /\ s.open = {}

Server(s, c) ==
    \/ c.state \in {"Nothing", "Err"} /\ Untouched(s)
    \/ c.state = "Start" /\ Ready(s, c.id)
    \/ Serves(s, c)

Sender(s, c) ==
    /\ \A j \in Ids : State(s, j) # "Listening" /\ s.sock[j].listenWait = <<>>
    /\ \/ c.state \in {"Nothing", "Err"} /\ Untouched(s)
       \/ c.state \in {"Start", "Writing", "Closing"} /\ c.id \in Ids /\ s.owned = {c.id}

IsClient(c) ==
    c = [state |-> c.state, timer |-> c.timer, id |-> c.id, id1 |-> c.id1, offset |-> c.offset]

LEMMA SenderPushIs ==
    ASSUME NEW c, IsClient(c), NEW error, NEW k
    PROVE  LET d == SenderPush(c, error, k) IN
           /\ IsClient(d)
           /\ d.state = IF error THEN SenderError[c.state] ELSE SenderDone[c.state]
           /\ error /\ c.state = "Nothing" => ~d.timer
           /\ d.id = IF ~error /\ c.state = "Nothing" THEN k ELSE c.id
<1> DEFINE d == SenderPush(c, error, k)
<1> HIDE DEF d
<1>1. CASE error
  <2>1. d = [state |-> SenderError[c.state], timer |-> c.state # "Nothing", id |-> c.id,
             id1 |-> c.id1, offset |-> c.offset]
    BY <1>1 DEF SenderPush, IsClient, d
  <2>2. /\ IsClient(d) /\ d.state = SenderError[c.state]
        /\ d.id = c.id /\ d.id1 = c.id1
    BY <2>1 DEF IsClient
  <2>3. ASSUME c.state = "Nothing"
        PROVE  ~d.timer
    <3>1. d = [state |-> SenderError[c.state], timer |-> FALSE, id |-> c.id, id1 |-> c.id1,
               offset |-> c.offset]
      BY <2>1, <2>3
    <3> QED
      BY <3>1
  <2> QED
    BY <1>1, <2>2, <2>3 DEF d
<1>2. CASE ~error
  <2>1. d = [state |-> SenderDone[c.state], timer |-> c.state # "Closing",
             id |-> IF c.state = "Nothing" THEN k ELSE c.id,
             id1 |-> c.id1, offset |-> IF c.state = "Start" THEN 0 ELSE c.offset]
    BY <1>2 DEF SenderPush, IsClient, d
  <2> QED
    BY <1>2, <2>1 DEF IsClient, d
<1> QED
  BY <1>1, <1>2

LEMMA ServerPushIs ==
    ASSUME NEW c, IsClient(c), NEW error, NEW k
    PROVE  LET d == ServerPush(c, error, k) IN
           /\ IsClient(d)
           /\ d.state = IF error THEN ServerError(c.state) ELSE ServerDone[c.state]
           /\ error /\ ServerError(c.state) = "Err" => ~d.timer
           /\ d.id = IF ~error /\ c.state = "Nothing" THEN k ELSE c.id
           /\ d.id1 = IF ~error /\ c.state = "Listened" THEN k ELSE c.id1
<1> DEFINE d == ServerPush(c, error, k)
<1> HIDE DEF d
<1>1. CASE error
  <2>1. d = [state |-> ServerError(c.state), timer |-> ServerError(c.state) # "Err",
             id |-> c.id, id1 |-> c.id1, offset |-> c.offset]
    BY <1>1 DEF ServerPush, IsClient, d
  <2>2. /\ IsClient(d) /\ d.state = ServerError(c.state)
        /\ d.id = c.id /\ d.id1 = c.id1
    BY <2>1 DEF IsClient
  <2>3. ASSUME ServerError(c.state) = "Err"
        PROVE  ~d.timer
    <3>1. d = [state |-> ServerError(c.state), timer |-> FALSE, id |-> c.id, id1 |-> c.id1,
               offset |-> c.offset]
      BY <2>1, <2>3
    <3> QED
      BY <3>1
  <2> QED
    BY <1>1, <2>2, <2>3 DEF d
<1>2. CASE ~error
  <2>1. d = [state |-> ServerDone[c.state], timer |-> TRUE,
             id |-> IF c.state = "Nothing" THEN k ELSE c.id,
             id1 |-> IF c.state = "Listened" THEN k ELSE c.id1, offset |-> c.offset]
    BY <1>2 DEF ServerPush, IsClient, d
  <2> QED
    BY <1>2, <2>1 DEF IsClient, d
<1> QED
  BY <1>1, <1>2

\* While a request stays open it stays where it is held.
LEMMA PlaceKept ==
    ASSUME NEW s, NEW t, Tidy(s), Tidy(t),
           \A j \in Ids, k \in Kinds : Parked(s, j)[k] = <<>> => Parked(t, j)[k] = <<>>,
           NEW i \in Ids, NEW l \in Kinds, Awaits(s, i, l), s.open # {}
    PROVE  Awaits(t, i, l)
<1> SUFFICES ASSUME t.open # {}
             PROVE  Parked(t, i)[l] # <<>>
  BY DEF Awaits
<1>1. PICK j \in Ids, k \in Kinds, r \in Requests : Busy(t, j, k, r)
  BY DEF Tidy, Idle
<1>2. Parked(t, j)[k] # <<>>
  BY <1>1 DEF Busy
<1>3. Parked(s, j)[k] # <<>> /\ Parked(s, i)[l] # <<>>
  BY <1>2 DEF Awaits
<1>4. PICK x \in Ids, y \in Kinds, q \in Requests : Busy(s, x, y, q)
  BY <1>3 DEF Tidy, Idle
<1>5. x = j /\ y = k /\ x = i /\ y = l
  BY <1>3, <1>4 DEF Busy
<1> QED
  BY <1>2, <1>5

\* Where the one request that is open waits, nothing else does.
LEMMA AloneIs ==
    ASSUME NEW s, Tidy(s), NEW i \in Ids, NEW l \in Kinds, Parked(s, i)[l] # <<>>
    PROVE  \E r \in Requests : Busy(s, i, l, r)
BY DEF Tidy, Idle, Busy

\* An answer to a request that was not made is not taken, and no request is
\* added: a client whose timer is set has none open.
LEMMA ChangeShrinks ==
    ASSUME NEW s, NEW t, NEW F, Change(s, t, F)
    PROVE  t.open \subseteq s.open
BY DEF Change, Deaf, Heard, Only, Born, Joined

LEMMA SenderHears ==
    ASSUME NEW s, NEW t, NEW F, NEW error, NEW k, NEW c, IsClient(c), Sender(s, c),
           Change(s, t, F),
           NEW d, s.open # {} /\ t.open = {} => d = SenderPush(c, error, k),
           ~(s.open # {} /\ t.open = {}) => d = c
    PROVE  IsClient(d) /\ Sender(t, d) /\ (d.state = "Err" => d = c)
<1>1. Deaf(s, t) \/ \E i \in Ids : Heard(s, t, i)
  BY DEF Change, Born, Joined, Sender
<1>2. /\ t.owned = s.owned
      /\ \A j \in Ids : State(t, j) # "Listening" /\ t.sock[j].listenWait = <<>>
  BY <1>1 DEF Deaf, Heard, Only, Sender, State
<1>3. CASE c.state \in {"Nothing", "Err"} /\ Untouched(s)
  <2>1. \A i \in Ids : State(s, i) = "Nil"
    BY <1>3 DEF Untouched, EmptyHost, EmptySocket, State
  <2>2. Deaf(s, t)
    BY <1>1, <2>1 DEF Heard, Dormant
  <2>3. d = c /\ Untouched(t)
    BY <1>3, <2>2 DEF Untouched, Deaf
  <2> QED
    BY <1>2, <1>3, <2>3 DEF Sender
<1>4. CASE c.state \in {"Start", "Writing", "Closing"} /\ c.id \in Ids /\ s.owned = {c.id}
  <2>1. CASE s.open # {} /\ t.open = {}
    <3>0. d = SenderPush(c, error, k) /\ c.state # "Nothing"
      BY <1>4, <2>1
    <3>1. /\ IsClient(d) /\ d.id = c.id
          /\ d.state = IF error THEN SenderError[c.state] ELSE SenderDone[c.state]
      BY <3>0, SenderPushIs
    <3>2. d.state \in {"Start", "Writing", "Closing"}
      BY <1>4, <3>1 DEF SenderError, SenderDone
    <3> QED
      BY <1>2, <1>4, <3>1, <3>2 DEF Sender
  <2>2. CASE ~(s.open # {} /\ t.open = {})
    BY <1>2, <1>4, <2>2 DEF Sender
  <2> QED
    BY <2>1, <2>2
<1> QED
  BY <1>3, <1>4 DEF Sender

\* The server's own socket goes on to listen while it is left alone, and what is
\* in its queue stays a connection the server was not given.
LEMMA OneListensStays ==
    ASSUME NEW s, NEW t, NEW l, OneListens(s, l), t.sock[l] = s.sock[l],
           \A j \in Ids : j \in t.owned => j \in s.owned,
           \A j \in Ids \ {l} : State(t, j) # "Listening" /\ t.sock[j].listenWait = <<>>,
           \A j \in Ids \ s.owned :
               State(s, j) \notin {"Nil", "Syn_Rcvd", "Listening"} =>
                   State(t, j) \notin {"Nil", "Syn_Rcvd", "Listening"}
    PROVE  OneListens(t, l)
<1> DEFINE queue == s.sock[l].listenWait
           q == t.sock[l].listenWait
<1>1. /\ l \in Ids /\ State(s, l) = "Listening"
      /\ \A m, n \in 1..Len(queue) : m # n => queue[m] # queue[n]
      /\ \A m \in 1..Len(queue) :
            /\ queue[m] \in Ids \ s.owned
            /\ State(s, queue[m]) \notin {"Nil", "Syn_Rcvd", "Listening"}
  BY DEF OneListens
<1>2. q = queue /\ State(t, l) = "Listening"
  BY <1>1 DEF State
<1> HIDE DEF queue, q
<1>3. ASSUME NEW m \in 1..Len(q)
      PROVE  /\ q[m] \in Ids \ t.owned
             /\ State(t, q[m]) \notin {"Nil", "Syn_Rcvd", "Listening"}
  <2>1. /\ q[m] \in Ids \ s.owned
        /\ State(s, q[m]) \notin {"Nil", "Syn_Rcvd", "Listening"}
    BY <1>1, <1>2
  <2> QED
    BY <2>1
<1>4. \A m, n \in 1..Len(q) : m # n => q[m] # q[n]
  BY <1>1, <1>2
<1> QED
  BY <1>1, <1>2, <1>3, <1>4 DEF OneListens, q

LEMMA OneListensKept ==
    ASSUME NEW s, NEW t, NEW l, OneListens(s, l), NEW i
    PROVE  /\ Heard(s, t, i) => i # l /\ OneListens(t, l)
           /\ Born(s, t, i) => i # l /\ OneListens(t, l)
<1>1. /\ l \in Ids /\ State(s, l) = "Listening"
      /\ \A j \in Ids \ {l} : State(s, j) # "Listening" /\ s.sock[j].listenWait = <<>>
  BY DEF OneListens
<1>2. ASSUME Heard(s, t, i)
      PROVE  i # l /\ OneListens(t, l)
  <2>1. /\ i \in Ids /\ i # l /\ t.owned = s.owned
        /\ State(t, i) \notin {"Nil", "Listening", "Syn_Rcvd"}
        /\ t.sock[i].listenWait = s.sock[i].listenWait
        /\ \A j \in Ids \ {i} : t.sock[j] = s.sock[j]
    BY <1>1, <1>2 DEF Heard, Only, Dormant
  <2>2. \A j \in Ids \ {i} : State(t, j) = State(s, j) /\ t.sock[j] = s.sock[j]
    BY <2>1 DEF State
  <2> QED
    BY <1>1, <2>1, <2>2, OneListensStays
<1>3. ASSUME Born(s, t, i)
      PROVE  i # l /\ OneListens(t, l)
  <2>1. /\ i \in Ids /\ i # l /\ t.owned = s.owned
        /\ State(s, i) = "Nil" /\ State(t, i) = "Syn_Rcvd"
        /\ t.sock[i].listenWait = s.sock[i].listenWait
        /\ \A j \in Ids \ {i} : t.sock[j] = s.sock[j]
    BY <1>1, <1>3 DEF Born
  <2>2. \A j \in Ids \ {i} : State(t, j) = State(s, j) /\ t.sock[j] = s.sock[j]
    BY <2>1 DEF State
  <2> QED
    BY <1>1, <2>1, <2>2, OneListensStays
<1> QED
  BY <1>2, <1>3

\* The clause of Serves that speaks of the connection.
Works(s, c) ==
    \/ c.state = "Listened" /\ s.owned = {c.id} /\ Awaits(s, c.id, "accept")
    \/ /\ c.state \in {"Reading", "Closing", "AcceptClose"}
       /\ s.owned = {c.id, c.id1} /\ c.id1 \in Ids \ {c.id}
       /\ State(s, c.id1) \notin {"Nil", "Syn_Rcvd"}
       /\ c.state = "Reading" => Awaits(s, c.id1, "recv")
       /\ c.state = "Closing" => Awaits(s, c.id1, "close")
       /\ c.state = "AcceptClose" => State(s, c.id1) = "Closed" /\ s.open = {}

\* A request that waits elsewhere is not answered by what happens to socket i.
LEMMA HeardElsewhere ==
    ASSUME NEW s, NEW t, NEW i, NEW j \in Ids, NEW l \in Kinds, Tidy(s), Heard(s, t, i),
           Awaits(s, j, l), i # j
    PROVE  t.open = s.open /\ Awaits(t, j, l)
<1>1. i \in Ids /\ Only(s, t, i)
  BY DEF Heard
<1>2. CASE s.open = {}
  BY <1>1, <1>2 DEF Only, Awaits
<1>3. CASE s.open # {}
  <2>1. PICK r \in Requests : Busy(s, j, l, r)
    BY <1>3, AloneIs DEF Awaits
  <2>2. \A k \in Kinds : Parked(s, i)[k] = <<>>
    BY <1>1, <2>1 DEF Busy
  <2>3. t.open = s.open /\ Parked(t, j) = Parked(s, j)
    BY <1>1, <2>2 DEF Only
  <2> QED
    BY <2>3 DEF Awaits
<1> QED
  BY <1>2, <1>3

\* What is answered is on the socket it waits on; what is not waits on.
LEMMA HeardWaits ==
    ASSUME NEW s, NEW t, NEW i, NEW j \in Ids, NEW l \in Kinds, Tidy(s), Tidy(t),
           Heard(s, t, i), Awaits(s, j, l)
    PROVE  Awaits(t, j, l)
<1>1. i \in Ids /\ Only(s, t, i)
  BY DEF Heard
<1>2. CASE s.open = {}
  BY <1>1, <1>2 DEF Only, Awaits
<1>3. CASE s.open # {}
  <2>1. \A m \in Ids, k \in Kinds : Parked(s, m)[k] = <<>> => Parked(t, m)[k] = <<>>
    BY <1>1 DEF Only
  <2> QED
    BY <1>3, <2>1, PlaceKept
<1> QED
  BY <1>2, <1>3

\* The server's connection hears of something, or another one does.
LEMMA WorksHears ==
    ASSUME NEW s, NEW t, NEW i, NEW error, NEW k, NEW c, IsClient(c), Tidy(s),
           OneListens(s, c.id), Works(s, c), Heard(s, t, i),
           NEW d, d = IF s.open # {} /\ t.open = {} THEN ServerPush(c, error, k) ELSE c
    PROVE  /\ IsClient(d) /\ d.id = c.id
           /\ Tidy(t) => Works(t, d)
           /\ d.state = "Err" => d = c
<1>1. s.open # {} /\ t.open = {} => d = ServerPush(c, error, k)
  OBVIOUS
<1>2. ~(s.open # {} /\ t.open = {}) => d = c
  OBVIOUS
<1>3. /\ i \in Ids /\ i # c.id /\ c.id \in Ids /\ t.owned = s.owned
      /\ t.open \subseteq s.open
      /\ \A j \in Ids \ {i} : t.sock[j] = s.sock[j] /\ Parked(t, j) = Parked(s, j)
      /\ State(s, i) \notin Dormant /\ State(t, i) \notin {"Nil", "Listening", "Syn_Rcvd"}
      /\ State(t, i) = "Closed" \/ t.sock[i].closeWait = s.sock[i].closeWait
  <2>1. i # c.id
    BY OneListensKept
  <2>2. c.id \in Ids
    BY DEF OneListens
  <2> QED
    BY <2>1, <2>2 DEF Heard, Only
<1>4. {"accept", "recv", "close"} \subseteq Kinds
  BY DEF Kinds
<1>5. CASE c.state = "Listened" /\ s.owned = {c.id} /\ Awaits(s, c.id, "accept")
  <2>1. t.open = s.open /\ Awaits(t, c.id, "accept")
    BY <1>3, <1>4, <1>5, HeardElsewhere
  <2> QED
    BY <1>2, <1>3, <1>5, <2>1 DEF Works
<1>6. CASE /\ c.state \in {"Reading", "Closing", "AcceptClose"}
           /\ s.owned = {c.id, c.id1} /\ c.id1 \in Ids \ {c.id}
           /\ State(s, c.id1) \notin {"Nil", "Syn_Rcvd"}
           /\ c.state = "Reading" => Awaits(s, c.id1, "recv")
           /\ c.state = "Closing" => Awaits(s, c.id1, "close")
           /\ c.state = "AcceptClose" => State(s, c.id1) = "Closed" /\ s.open = {}
  <2>1. State(t, c.id1) \notin {"Nil", "Syn_Rcvd"}
    BY <1>3, <1>6 DEF State
  <2>2. CASE c.state = "AcceptClose"
    <3>1. t.open = {} /\ d = c /\ State(t, c.id1) = "Closed"
      BY <1>2, <1>3, <1>6, <2>2 DEF State, Dormant
    <3> QED
      BY <1>3, <1>6, <2>1, <2>2, <3>1 DEF Works
  <2>3. CASE c.state # "AcceptClose" /\ ~(s.open # {} /\ t.open = {})
    <3>1. ASSUME Tidy(t)
          PROVE  /\ c.state = "Reading" => Awaits(t, c.id1, "recv")
                 /\ c.state = "Closing" => Awaits(t, c.id1, "close")
      BY <1>4, <1>6, <3>1, HeardWaits
    <3> QED
      BY <1>2, <1>3, <1>6, <2>1, <2>3, <3>1 DEF Works
  <2>4. CASE c.state # "AcceptClose" /\ s.open # {} /\ t.open = {}
    <3>1. /\ IsClient(d) /\ d.id = c.id /\ d.id1 = c.id1
          /\ d.state = IF error THEN ServerError(c.state) ELSE ServerDone[c.state]
      BY <1>1, <1>6, <2>4, ServerPushIs
    <3>2. \A j \in Ids, l \in Kinds : Awaits(t, j, l)
      BY <2>4 DEF Awaits
    <3>3. CASE c.state = "Reading"
      <4>1. d.state \in {"Reading", "Closing"}
        BY <3>1, <3>3 DEF ServerError, ServerDone
      <4> QED
        BY <1>3, <1>4, <1>6, <2>1, <3>1, <3>2, <4>1 DEF Works
    <3>4. CASE c.state = "Closing"
      <4>1. d.state = "AcceptClose"
        BY <3>1, <3>4 DEF ServerError, ServerDone
      <4>2. PICK r \in Requests : Busy(s, c.id1, "close", r)
        BY <1>4, <1>6, <2>4, <3>4, AloneIs DEF Awaits
      <4>3. i = c.id1
        BY <1>3, <1>4, <1>6, <2>4, <3>4, HeardElsewhere
      <4>4. ASSUME Tidy(t)
            PROVE  State(t, c.id1) = "Closed"
        <5>1. Idle(t)
          BY <2>4, <4>4 DEF Tidy, Busy
        <5>2. Parked(t, i)["close"] = <<>> /\ Parked(s, i)["close"] # <<>>
          BY <1>3, <1>4, <4>2, <4>3, <5>1 DEF Idle, Busy
        <5>3. t.sock[i].closeWait # s.sock[i].closeWait
          BY <5>2 DEF Parked
        <5> QED
          BY <1>3, <4>3, <5>3
      <4> QED
        BY <1>3, <1>6, <2>1, <2>4, <3>1, <4>1, <4>4 DEF Works
    <3> QED
      BY <1>6, <2>4, <3>3, <3>4
  <2> QED
    BY <2>2, <2>3, <2>4
<1> QED
  BY <1>5, <1>6 DEF Works

\* A connection comes to the server's socket.
LEMMA WorksBears ==
    ASSUME NEW s, NEW t, NEW i, NEW c, OneListens(s, c.id), Works(s, c), Born(s, t, i)
    PROVE  Works(t, c) /\ t.open = s.open
<1>1. /\ i \in Ids /\ State(s, i) = "Nil" /\ t.owned = s.owned /\ t.open = s.open
      /\ \A j \in Ids : Parked(t, j) = Parked(s, j)
      /\ \A j \in Ids \ {i} : t.sock[j] = s.sock[j]
      /\ c.id \in Ids
  BY DEF Born, OneListens
<1>2. \A j \in Ids : \A l : Awaits(s, j, l) => Awaits(t, j, l)
  BY <1>1 DEF Awaits
<1>3. CASE c.state = "Listened" /\ s.owned = {c.id} /\ Awaits(s, c.id, "accept")
  BY <1>1, <1>2, <1>3 DEF Works
<1>4. CASE /\ c.state \in {"Reading", "Closing", "AcceptClose"}
           /\ s.owned = {c.id, c.id1} /\ c.id1 \in Ids \ {c.id}
           /\ State(s, c.id1) \notin {"Nil", "Syn_Rcvd"}
           /\ c.state = "Reading" => Awaits(s, c.id1, "recv")
           /\ c.state = "Closing" => Awaits(s, c.id1, "close")
           /\ c.state = "AcceptClose" => State(s, c.id1) = "Closed" /\ s.open = {}
  <2>1. c.id1 # i
    BY <1>1, <1>4
  <2>2. State(t, c.id1) = State(s, c.id1)
    BY <1>1, <1>4, <2>1 DEF State
  <2> QED
    BY <1>1, <1>2, <1>4, <2>2 DEF Works
<1> QED
  BY <1>3, <1>4 DEF Works

LEMMA JoinedOneListens ==
    ASSUME NEW A, NEW s \in HostState(A), NEW t, NEW l, NEW i, NEW F, NEW c,
           OneListens(s, c.id), Works(s, c), Joined(s, t, l, i, F)
    PROVE  l = c.id /\ OneListens(t, l)
<1> DEFINE queue == s.sock[l].listenWait
           q == t.sock[l].listenWait
<1>1. /\ l \in Ids /\ i \in Ids /\ l # i /\ State(t, l) = "Listening"
      /\ State(s, i) = "Syn_Rcvd" /\ State(t, i) = "Established"
      /\ \A j \in Ids \ {l, i} : t.sock[j] = s.sock[j]
      /\ t.sock[i].listenWait = s.sock[i].listenWait
  BY DEF Joined
<1>2. l = c.id
  BY <1>1 DEF Joined, OneListens
<1>3. /\ \A j \in Ids \ {l} : State(s, j) # "Listening" /\ s.sock[j].listenWait = <<>>
      /\ \A m, n \in 1..Len(queue) : m # n => queue[m] # queue[n]
      /\ \A m \in 1..Len(queue) :
            /\ queue[m] \in Ids \ s.owned
            /\ State(s, queue[m]) \notin {"Nil", "Syn_Rcvd", "Listening"}
      /\ State(s, l) = "Listening"
  BY <1>2 DEF OneListens
<1>4. \A j \in Ids \ {l} : State(t, j) # "Listening" /\ t.sock[j].listenWait = <<>>
  BY <1>1, <1>3 DEF State
<1>5. queue \in Seq(Ids)
  BY <1>1, SockFields
<1>6. i \notin s.owned
  BY <1>1, <1>2, <1>3 DEF Works
<1>7. \A m \in 1..Len(queue) : queue[m] # i /\ queue[m] # l
  BY <1>1, <1>3
<1>8. \A m \in 1..Len(queue) : State(t, queue[m]) \notin {"Nil", "Syn_Rcvd", "Listening"}
  BY <1>1, <1>3, <1>7 DEF State
<1>9. CASE t.owned = s.owned /\ q = Append(queue, i)
  <2>1. /\ Len(q) = Len(queue) + 1 /\ q[Len(queue) + 1] = i /\ Len(queue) \in Nat
        /\ \A m \in 1..Len(queue) : q[m] = queue[m]
    <3>1. q = Append(queue, i) /\ i \in Ids
      BY <1>1, <1>9
    <3> HIDE DEF q, queue
    <3> QED
      BY <1>5, <3>1, LenProperties, AppendProperties
  <2> HIDE DEF q
  <2>2. \A m \in 1..Len(q) : m \in 1..Len(queue) \/ m = Len(queue) + 1
    BY <2>1
  <2> HIDE DEF queue
  <2>3. \A m, n \in 1..Len(q) : m # n => q[m] # q[n]
    BY <1>3, <1>7, <2>1, <2>2
  <2>4. ASSUME NEW m \in 1..Len(q)
        PROVE  /\ q[m] \in Ids \ t.owned
               /\ State(t, q[m]) \notin {"Nil", "Syn_Rcvd", "Listening"}
    <3>1. CASE m \in 1..Len(queue)
      BY <1>3, <1>8, <1>9, <2>1, <3>1
    <3>2. CASE m = Len(queue) + 1
      BY <1>1, <1>6, <1>9, <2>1, <3>2
    <3> QED
      BY <2>2, <3>1, <3>2
  <2> QED
    BY <1>1, <1>2, <1>4, <2>3, <2>4 DEF OneListens, q
<1>10. CASE t.owned = s.owned \cup {i} /\ q = queue
  <2>1. /\ \A m, n \in 1..Len(queue) : m # n => queue[m] # queue[n]
        /\ \A m \in 1..Len(queue) : queue[m] \in Ids \ t.owned
    BY <1>3, <1>7, <1>10
  <2>2. q = queue
    BY <1>10
  <2> HIDE DEF queue, q
  <2>3. /\ \A m, n \in 1..Len(q) : m # n => q[m] # q[n]
        /\ \A m \in 1..Len(q) :
              /\ q[m] \in Ids \ t.owned
              /\ State(t, q[m]) \notin {"Nil", "Syn_Rcvd", "Listening"}
    BY <1>8, <2>1, <2>2
  <2> QED
    BY <1>1, <1>2, <1>4, <2>3 DEF OneListens, q
<1> QED
  BY <1>9, <1>10 DEF Joined

\* It is opened: it is given to the server where one is asked for.
LEMMA WorksJoins ==
    ASSUME NEW A, NEW s \in HostState(A), NEW t, NEW l, NEW i, NEW F, NEW k, NEW c,
           IsClient(c), Tidy(s), OneListens(s, c.id), Works(s, c), Joined(s, t, l, i, F),
           k = Min((t.owned \ s.owned) \cup {MaxSockets}),
           NEW d, d = IF s.open # {} /\ t.open = {} THEN ServerPush(c, F # {}, k) ELSE c
    PROVE  /\ IsClient(d) /\ d.id = c.id
           /\ Tidy(t) => Works(t, d)
           /\ d.state = "Err" => d = c
<1> DEFINE error == F # {}
<1>1. s.open # {} /\ t.open = {} => d = ServerPush(c, error, k)
  OBVIOUS
<1>2. ~(s.open # {} /\ t.open = {}) => d = c
  OBVIOUS
<1>3. ~error
  BY DEF Joined
<1> HIDE DEF error
<1>4. /\ l = c.id /\ l \in Ids /\ i \in Ids /\ l # i
      /\ State(s, i) = "Syn_Rcvd" /\ State(t, i) = "Established"
      /\ \A j \in Ids \ {l, i} : t.sock[j] = s.sock[j]
      /\ \A j \in Ids, x \in Kinds : Parked(s, j)[x] = <<>> => Parked(t, j)[x] = <<>>
  <2>1. l = c.id
    BY JoinedOneListens
  <2> QED
    BY <2>1 DEF Joined
<1>5. {"accept", "recv", "close"} \subseteq Kinds
  BY DEF Kinds
<1>6. CASE s.sock[l].acceptWait = <<>> /\ t.open = s.open /\ t.owned = s.owned
  <2>1. d = c
    BY <1>2, <1>6
  <2>2. ASSUME NEW j \in Ids, NEW x \in Kinds, Awaits(s, j, x), Tidy(t)
        PROVE  Awaits(t, j, x)
    <3>1. CASE s.open = {}
      BY <1>6, <3>1 DEF Awaits
    <3>2. CASE s.open # {}
      BY <1>4, <2>2, <3>2, PlaceKept
    <3> QED
      BY <3>1, <3>2
  <2>3. c.state # "Listened" => c.id1 \in Ids /\ State(t, c.id1) = State(s, c.id1)
    BY <1>4 DEF Works, State
  <2>4. Tidy(t) => Works(t, c)
    BY <1>4, <1>5, <1>6, <2>2, <2>3 DEF Works
  <2> QED
    BY <2>1, <2>4
<1>7. CASE /\ s.sock[l].acceptWait # <<>> /\ t.owned = s.owned \cup {i}
           /\ t.open = s.open \ {Head(s.sock[l].acceptWait)}
  <2>1. Parked(s, l)["accept"] = s.sock[l].acceptWait
    BY DEF Parked
  <2>2. PICK r \in Requests : Busy(s, l, "accept", r)
    BY <1>4, <1>5, <1>7, <2>1, AloneIs
  <2>3. s.open = {r} /\ t.open = {}
    BY <1>7, <2>1, <2>2 DEF Busy
  <2>4. c.state = "Listened" /\ s.owned = {l}
    BY <1>4, <1>5, <2>2, <2>3 DEF Works, Awaits, Busy
  <2>5. k = i
    <3>1. (t.owned \ s.owned) \cup {MaxSockets} = {i, MaxSockets}
      BY <1>4, <1>7, <2>4
    <3>2. i < MaxSockets /\ i \in Nat /\ MaxSockets \in Nat
      BY <1>4, BoundsAre DEF Ids
    <3>3. Min({i, MaxSockets}) \in {i, MaxSockets} /\ Min({i, MaxSockets}) <= i
      <4> DEFINE S == {i, MaxSockets}
      <4>1. S \subseteq Nat /\ i \in S
        BY <3>2
      <4> HIDE DEF S
      <4>2. Min(S) \in S /\ Min(S) <= i
        BY <4>1, MinIs
      <4> QED
        BY <4>2 DEF S
    <3> QED
      BY <3>1, <3>2, <3>3
  <2>6. /\ IsClient(d) /\ d.id = c.id /\ d.id1 = i
        /\ d.state = ServerDone[c.state]
    BY <1>1, <1>3, <2>3, <2>4, <2>5, ServerPushIs
  <2>7. d.state = "Reading"
    BY <2>4, <2>6 DEF ServerDone
  <2>8. t.owned = {d.id, d.id1} /\ d.id1 \in Ids \ {d.id}
    <3>1. t.owned = {l, i} /\ l = c.id /\ i \in Ids /\ i # l
      BY <1>4, <1>7, <2>4
    <3> QED
      BY <2>6, <3>1
  <2>9. Works(t, d)
    BY <1>4, <2>3, <2>6, <2>7, <2>8 DEF Works, Awaits
  <2> QED
    BY <1>4, <2>6, <2>7, <2>9
<1> QED
  BY <1>6, <1>7 DEF Joined

LEMMA ServerHears ==
    ASSUME NEW A, NEW s \in HostState(A), NEW t, NEW F, NEW k, NEW c,
           IsClient(c), Tidy(s), Server(s, c), Change(s, t, F),
           k = Min((t.owned \ s.owned) \cup {MaxSockets}),
           NEW d, d = IF s.open # {} /\ t.open = {} THEN ServerPush(c, F # {}, k) ELSE c
    PROVE  IsClient(d) /\ (Tidy(t) => Server(t, d)) /\ (d.state = "Err" => d = c)
<1>1. \A u, e : Serves(u, e) <=> OneListens(u, e.id) /\ Works(u, e)
  BY DEF Serves, Works
<1>2. CASE Deaf(s, t)
  <2>1. d = c /\ \A j \in Ids : State(t, j) = State(s, j) /\ Parked(t, j) = Parked(s, j)
    BY <1>2 DEF Deaf, State, Parked
  <2>2. Untouched(s) => Untouched(t)
    BY <1>2 DEF Untouched, Deaf
  <2>3. Ready(s, c.id) => Ready(t, c.id)
    BY <1>2, <2>1 DEF Ready, Deaf
  <2>4. OneListens(s, c.id) => OneListens(t, c.id)
    BY <1>2, <2>1 DEF OneListens, Deaf
  <2>5. OneListens(s, c.id) /\ Works(s, c) => Works(t, c)
    BY <1>2, <2>1 DEF Works, Deaf, Awaits, OneListens
  <2> QED
    BY <1>1, <2>1, <2>2, <2>3, <2>4, <2>5 DEF Server
<1>3. CASE ~Deaf(s, t)
  <2>1. ASSUME Untouched(s) \/ Ready(s, c.id)
        PROVE  \A j \in Ids : State(s, j) \in {"Nil", "Closed"}
    BY <2>1 DEF Untouched, Ready, EmptyHost, EmptySocket, State
  <2>2. Serves(s, c)
    BY <1>3, <2>1 DEF Server, Change, Heard, Born, Joined, Dormant
  <2>3. OneListens(s, c.id) /\ Works(s, c)
    BY <1>1, <2>2
  <2>4. ASSUME NEW i \in Ids, Heard(s, t, i)
        PROVE  /\ IsClient(d) /\ d.id = c.id /\ (Tidy(t) => Works(t, d))
               /\ (d.state = "Err" => d = c) /\ OneListens(t, c.id)
    <3> DEFINE error == F # {}
    <3>0. d = IF s.open # {} /\ t.open = {} THEN ServerPush(c, error, k) ELSE c
      OBVIOUS
    <3> HIDE DEF error
    <3>1. IsClient(d) /\ d.id = c.id /\ (Tidy(t) => Works(t, d)) /\ (d.state = "Err" => d = c)
      BY <2>3, <2>4, <3>0, WorksHears
    <3>2. OneListens(t, c.id)
      BY <2>3, <2>4, OneListensKept
    <3> QED
      BY <3>1, <3>2
  <2>5. ASSUME NEW i \in Ids, Born(s, t, i)
        PROVE  d = c /\ Works(t, c) /\ OneListens(t, c.id)
    <3>1. Works(t, c) /\ t.open = s.open
      BY <2>3, <2>5, WorksBears
    <3> QED
      BY <2>3, <2>5, <3>1, OneListensKept
  <2>6. ASSUME NEW l \in Ids, NEW i \in Ids, Joined(s, t, l, i, F)
        PROVE  /\ IsClient(d) /\ d.id = c.id /\ (Tidy(t) => Works(t, d))
               /\ (d.state = "Err" => d = c) /\ OneListens(t, c.id)
    BY <2>3, <2>6, WorksJoins, JoinedOneListens
  <2>7. /\ IsClient(d) /\ d.id = c.id /\ (Tidy(t) => Works(t, d))
        /\ (d.state = "Err" => d = c) /\ OneListens(t, c.id)
    BY <1>3, <2>4, <2>5, <2>6 DEF Change
  <2>8. Tidy(t) => Serves(t, d)
    BY <1>1, <2>7
  <2> QED
    BY <2>7, <2>8 DEF Server
<1> QED
  BY <1>2, <1>3

-----------------------------------------------------------------------------
(* The invariant of the clients.                                           *)

\* Client c of host h, which is in state s, knows it; it has only given up where
\* there is no port.
Fits(h, s, c) ==
    /\ IsClient(c) /\ (c.timer => s.open = {})
    /\ c.state = "Err" => Ports = {} /\ ~c.timer
    /\ \/ s.crashed
       \/ Orderly(s, {}) /\ IF h \in Senders THEN Sender(s, c) ELSE Server(s, c)

ClientsFit ==
    /\ console \subseteq Hosts
    /\ client = [h \in Hosts |-> client[h]]
    /\ \A h \in console : ~client[h].timer /\ client[h].state # "Err"
    /\ \A h \in Hosts \ console : Fits(h, host[h], client[h])

ClientsInv == Open /\ ClientsFit

LEMMA FitsQueues ==
    ASSUME NEW h, NEW s, NEW c, Fits(h, s, c), ~s.crashed
    PROVE  Tidy(s) /\ Orderly(s, {}) /\ QueuesListen(s)
<1>1. Tidy(s) /\ Orderly(s, {}) /\ (Sender(s, c) \/ Server(s, c))
  BY DEF Fits, Orderly
<1>2. CASE Sender(s, c)
  BY <1>1, <1>2 DEF Sender, QueuesListen
<1>3. CASE Untouched(s)
  BY <1>1, <1>3 DEF Untouched, EmptyHost, EmptySocket, QueuesListen
<1>4. CASE Ready(s, c.id)
  BY <1>1, <1>4 DEF Ready, EmptySocket, QueuesListen
<1>5. CASE OneListens(s, c.id)
  BY <1>1, <1>5 DEF OneListens, QueuesListen
<1> QED
  BY <1>1, <1>2, <1>3, <1>4, <1>5 DEF Server, Serves

LEMMA FitsHears ==
    ASSUME NEW A, NEW h, NEW s \in HostState(A), NEW t, NEW F, NEW k, NEW c,
           Fits(h, s, c), ~s.crashed, Change(s, t, F), Orderly(t, {}),
           k = Min((t.owned \ s.owned) \cup {MaxSockets}),
           NEW d, ~(s.open # {} /\ t.open = {}) => d = c,
           s.open # {} /\ t.open = {} =>
               d = IF h \in Senders THEN SenderPush(c, F # {}, k) ELSE ServerPush(c, F # {}, k)
    PROVE  Fits(h, t, d)
<1>1. Tidy(s) /\ (t.crashed \/ Tidy(t)) /\ IsClient(c)
  BY FitsQueues DEF Orderly, Fits
<1>2. /\ IsClient(d) /\ (d.state = "Err" => d = c)
      /\ \/ t.crashed
         \/ IF h \in Senders THEN Sender(t, d) ELSE Server(t, d)
  <2>1. CASE h \in Senders
    <3>1. Sender(s, c)
      BY <2>1 DEF Fits
    <3> DEFINE error == F # {}
    <3>2. /\ s.open # {} /\ t.open = {} => d = SenderPush(c, error, k)
          /\ ~(s.open # {} /\ t.open = {}) => d = c
      BY <2>1
    <3> HIDE DEF error
    <3>3. IsClient(d) /\ Sender(t, d) /\ (d.state = "Err" => d = c)
      BY <1>1, <3>1, <3>2, SenderHears
    <3> QED
      BY <2>1, <3>3
  <2>2. CASE h \notin Senders
    <3>1. Server(s, c)
      BY <2>2 DEF Fits
    <3>2. d = IF s.open # {} /\ t.open = {} THEN ServerPush(c, F # {}, k) ELSE c
      BY <2>2
    <3>3. IsClient(d) /\ (Tidy(t) => Server(t, d)) /\ (d.state = "Err" => d = c)
      BY <1>1, <3>1, <3>2, ServerHears
    <3> QED
      BY <1>1, <2>2, <3>3
  <2> QED
    BY <2>1, <2>2
<1>3. t.open \subseteq s.open
  BY ChangeShrinks
<1>4. d = c \/ t.open = {}
  OBVIOUS
<1>5. d.timer => t.open = {}
  BY <1>3, <1>4 DEF Fits
<1>6. d.state = "Err" => Ports = {} /\ ~d.timer
  BY <1>2 DEF Fits
<1> QED
  BY <1>2, <1>5, <1>6 DEF Fits

\* The step of one host leaves the others as they are.
LEMMA OthersStay ==
    ASSUME NEW A, host \in [Hosts -> HostState(A)], NEW h \in Hosts, Moves(A, h)
    PROVE  \A g \in Hosts \ {h} : host'[g] = host[g]
<1>1. PICK w, t : Leaves(h, w, t) /\ t \in HostState(A)
  BY DEF Moves
<1> QED
  BY <1>1, LeavesAs

\* What happens elsewhere, to the host of a client.
LEMMA ElsewhereComes ==
    ASSUME ClientsInv, Elsewhere, NEW h \in Hosts \ console
    PROVE  \/ host'[h] = host[h]
           \/ /\ ~host[h].crashed /\ \E A : host[h] \in HostState(A)
              /\ Change(host[h], host'[h], host'[h].failed) /\ Orderly(host'[h], {})
<1> DEFINE Goal ==
              \/ host'[h] = host[h]
              \/ /\ ~host[h].crashed /\ \E A : host[h] \in HostState(A)
                 /\ Change(host[h], host'[h], host'[h].failed) /\ Orderly(host'[h], {})
<1>1. PICK A : Nat \cup Ports \subseteq A /\ host \in [Hosts -> HostState(A)]
  BY DEF ClientsInv, Open, Shaped
<1>2. ASSUME NEW B, A \subseteq B
      PROVE  host \in [Hosts -> HostState(B)] /\ Nat \cup Ports \subseteq B
  BY <1>1, <1>2, ShapeGrows
<1>3. \A g \in Hosts : ListensNowhere(host[g])
  BY DEF ClientsInv, Open
<1>4. ~host[h].crashed => Orderly(host[h], {}) /\ QueuesListen(host[h])
  BY FitsQueues DEF ClientsInv, ClientsFit
<1>5. ASSUME NEW B, A \subseteq B, ~host[h].crashed, Comes(B, h), Lands(B, h)
      PROVE  Goal
  <2>1. host \in [Hosts -> HostState(B)]
    BY <1>2, <1>5
  <2>2. Change(host[h], host'[h], host'[h].failed) /\ Orderly(host'[h], {})
    BY <1>5, <2>1, ComesTo
  <2> QED
    BY <1>5, <2>1, <2>2
<1>6. ASSUME NEW g \in console, Console(g)
      PROVE  Goal
  <2>1. g \in Hosts /\ g # h
    BY DEF ClientsInv, ClientsFit
  <2>2. AppStep(g)
    BY <1>6 DEF Console
  <2>3. Moves(A, g)
    BY <1>1, <2>1, <2>2, AppMoves
  <2> QED
    BY <1>1, <2>1, <2>3, OthersStay
<1>7. ASSUME NEW l \in Links, PacketArrives(l[1], l[2])
      PROVE  Goal
  <2> DEFINE g == l[1]
             x == l[2]
             p == Head(wire[<<g, x>>])
             B == A \cup {p.sport, p.dport, p.n}
  <2>1. g \in Hosts /\ x \in Hosts
    BY DEF Links
  <2>2. /\ A \subseteq B /\ Nat \subseteq B
        /\ p.sport \in B /\ p.dport \in B /\ p.n \in B
    BY <1>1
  <2> HIDE DEF B
  <2>3. host \in [Hosts -> HostState(B)]
    BY <1>2, <2>2
  <2> HIDE DEF g, x
  <2>4. PacketArrives(g, x) /\ ~host[x].crashed
    BY <1>7 DEF g, x, PacketArrives
  <2>5. host[x] \in HostState(B)
    BY <2>1, <2>3
  <2>6. CASE x = h
    <3>1. Lands(B, h)
      BY <1>4, <2>1, <2>2, <2>4, <2>5, <2>6, ArrivalLands
    <3>2. Comes(B, h)
      BY <1>4, <2>1, <2>2, <2>4, <2>5, <2>6, ArrivalComes
    <3> QED
      BY <1>5, <2>2, <2>4, <2>6, <3>1, <3>2
  <2>7. CASE x # h
    <3>1. Moves(B, x)
      BY <1>3, <2>1, <2>2, <2>4, <2>5, ArrivalMoves
    <3> QED
      BY <2>1, <2>3, <2>7, <3>1, OthersStay
  <2> QED
    BY <2>6, <2>7
<1>8. ASSUME NEW x \in Hosts, NEW i \in Ids, TimeOut(x, i)
      PROVE  Goal
  <2> DEFINE B == A \cup {host[x].tcb[i].acked + 1}
  <2>1. A \subseteq B /\ host[x].tcb[i].acked + 1 \in B
    OBVIOUS
  <2> HIDE DEF B
  <2>2. host \in [Hosts -> HostState(B)] /\ Nat \cup Ports \subseteq B
    BY <1>2, <2>1
  <2>3. ~host[x].crashed
    BY <1>8 DEF TimeOut
  <2>4. CASE x = h
    <3>1. Lands(B, h)
      BY <1>4, <1>8, <2>1, <2>2, <2>3, <2>4, TimeOutLands
    <3>2. Comes(B, h)
      BY <1>8, <2>1, <2>2, <2>4, TimeOutComes
    <3> QED
      BY <1>5, <2>1, <2>3, <2>4, <3>1, <3>2
  <2>5. CASE x # h
    <3>1. Moves(B, x)
      BY <1>8, <2>1, <2>2, TimeOutMoves
    <3> QED
      BY <2>2, <2>5, <3>1, OthersStay
  <2> QED
    BY <2>4, <2>5
<1>9. ASSUME NEW l \in Links, PacketLost(l)
      PROVE  Goal
  BY <1>9 DEF PacketLost
<1> QED
  BY <1>6, <1>7, <1>8, <1>9 DEF Elsewhere

\* The invariant after a step, told of each host.
LEMMA FitPrimed ==
    ASSUME console' \subseteq Hosts, client' = [h \in Hosts |-> client'[h]],
           \A h \in console' : ~client'[h].timer /\ client'[h].state # "Err",
           \A h \in Hosts \ console' : Fits(h, host'[h], client'[h])
    PROVE  ClientsFit'
BY DEF ClientsFit, Fits, IsClient, Orderly, Tidy, Idle, Busy, Silent, Parked, State, Sender,
       Server, Untouched, Ready, Serves, OneListens, Awaits

LEMMA ElsewhereIsNext ==
    ASSUME ClientsInv, Elsewhere
    PROVE  Next
<1>1. console \subseteq Hosts
  BY DEF ClientsInv, ClientsFit
<1> QED
  BY <1>1 DEF Elsewhere, Next, Console

LEMMA ElsewhereFits ==
    ASSUME ClientsInv, Elsewhere, Answers, UNCHANGED console
    PROVE  ClientsInv'
<1>1. Open'
  BY ElsewhereIsNext, OpenNext DEF ClientsInv
<1>2. /\ console \subseteq Hosts
      /\ \A h \in console : ~client[h].timer /\ client[h].state # "Err"
      /\ \A h \in Hosts \ console : Fits(h, host[h], client[h])
  BY DEF ClientsInv, ClientsFit
<1>3. \A h \in Hosts :
         client'[h] = IF Answered(h) THEN ClientPush(h, client[h], host'[h].failed # {})
                      ELSE client[h]
  BY DEF Answers
<1>4. client' = [h \in Hosts |-> client'[h]]
  BY DEF Answers
<1>5. ASSUME NEW h \in console
      PROVE  ~client'[h].timer /\ client'[h].state # "Err"
  BY <1>2, <1>3, <1>5 DEF Answered
<1>6. ASSUME NEW h \in Hosts \ console
      PROVE  Fits(h, host'[h], client'[h])
  <2>1. CASE host'[h] = host[h]
    <3>1. client'[h] = client[h]
      BY <1>3, <2>1 DEF Answered
    <3> QED
      BY <1>2, <2>1, <3>1
  <2>2. CASE /\ ~host[h].crashed /\ \E A : host[h] \in HostState(A)
             /\ Change(host[h], host'[h], host'[h].failed) /\ Orderly(host'[h], {})
    <3> DEFINE s == host[h]
               t == host'[h]
               F == t.failed
               k == Given(h)
               d == client'[h]
    <3>1. PICK A : s \in HostState(A)
      BY <2>2
    <3>2. k = Min((t.owned \ s.owned) \cup {MaxSockets})
      BY DEF Given
    <3>3. ~(s.open # {} /\ t.open = {}) => d = client[h]
      BY <1>3 DEF Answered
    <3>4. s.open # {} /\ t.open = {} =>
             d = IF h \in Senders THEN SenderPush(client[h], F # {}, k)
                 ELSE ServerPush(client[h], F # {}, k)
      BY <1>3 DEF Answered, ClientPush
    <3>5. Fits(h, s, client[h]) /\ ~s.crashed /\ Change(s, t, F) /\ Orderly(t, {})
      BY <1>2, <2>2
    <3> HIDE DEF s, t, k, d, F
    <3>6. Fits(h, t, d)
      BY <3>1, <3>2, <3>3, <3>4, <3>5, FitsHears
    <3> QED
      BY <3>6 DEF t, d
  <2> QED
    BY <2>1, <2>2, ElsewhereComes
<1>7. ClientsFit'
  BY <1>2, <1>4, <1>5, <1>6, FitPrimed
<1> QED
  BY <1>1, <1>7 DEF ClientsInv

-----------------------------------------------------------------------------
(* What a request of a client that has none open does to its host.         *)

\* Connection i goes on, and nothing else.
Does(s, t, i) ==
    /\ i \in Ids /\ t.owned = s.owned
    /\ \A j \in Ids \ {i} : t.sock[j] = s.sock[j]
    /\ t.sock[i].listenWait = s.sock[i].listenWait
    /\ State(t, i) \notin {"Nil", "Listening", "Syn_Rcvd"}

\* Where nothing was open, the request is on its own.
LEMMA AsksOnly ==
    ASSUME NEW A, NEW h \in Hosts, host[h] \in HostState(A), Orderly(host[h], {}),
           host[h].open = {}, NEW m, Calls(h, m)
    PROVE  LET a == Asks(h) IN
           /\ Request(h) \in Requests /\ a \in HostState(A) /\ a.open = {Request(h)}
           /\ a.sock = host[h].sock /\ a.tcb = host[h].tcb /\ a.owned = host[h].owned
           /\ Idle(host[h])
<1>1. /\ Request(h) \in Requests /\ Asks(h) \in HostState(A) /\ Asks(h).open = {Request(h)}
      /\ Asks(h).sock = host[h].sock /\ Asks(h).tcb = host[h].tcb /\ Idle(host[h])
  BY CallsIdle
<1>2. Asks(h).owned = host[h].owned
  BY DEF Asks, HostState
<1> QED
  BY <1>1, <1>2

LEMMA NewDoes ==
    ASSUME NEW A, Nat \cup Ports \subseteq A, host \in [Hosts -> HostState(A)], NEW h \in Hosts,
           New(h)
    PROVE  LET s == host[h]
               t == host'[h] IN
           /\ t.open = s.open /\ \E port \in Ports : Bound(s, port) = {}
           /\ \E i \in Ids : /\ t.owned = s.owned \cup {i} /\ State(t, i) = "Closed"
                             /\ t.sock[i].ip = s.sock[i].ip
                             /\ t.sock[i].listenWait = s.sock[i].listenWait
                             /\ \A j \in Ids \ {i} : t.sock[j] = s.sock[j]
<1> DEFINE s == host[h]
           i == Min(Unused(s))
<1>1. i \in Ids
  <2>1. Unused(s) # {} /\ Unused(s) \subseteq Ids
    BY DEF New, Unused
  <2> QED
    BY <2>1, MinIn
<1>2. PICK port \in Ports :
         /\ Bound(s, port) = {}
         /\ Leaves(h, wire, [Goto(s, i, "Closed") EXCEPT !.sock[i].sport = port,
                                                         !.owned = @ \cup {i}])
  BY DEF New
<1> DEFINE k == [s.sock[i] EXCEPT !.state = "Closed", !.sport = port]
           u == [s EXCEPT !.owned = @ \cup {i}]
           t == [u EXCEPT !.sock[i] = k]
<1> HIDE DEF i
<1>4. s \in HostState(A) /\ s.sock[i] \in Socket(A) /\ port \in A
  BY <1>1, SockFields
<1>5. t = [Goto(s, i, "Closed") EXCEPT !.sock[i].sport = port, !.owned = @ \cup {i}]
  BY <1>1, <1>4 DEF Goto, HostState
<1>6. /\ k \in Socket(A) /\ k.state = "Closed" /\ k.ip = s.sock[i].ip
      /\ k.listenWait = s.sock[i].listenWait
  BY <1>4 DEF Socket, SocketStates
<1> HIDE DEF k
<1>7. u \in HostState(A) /\ u.sock = s.sock /\ u.open = s.open /\ u.owned = s.owned \cup {i}
  BY <1>1, <1>4 DEF HostState
<1> HIDE DEF u
<1>8. /\ t \in HostState(A) /\ t.sock[i] = k /\ t.open = u.open /\ t.owned = u.owned
      /\ \A j \in Ids \ {i} : t.sock[j] = u.sock[j]
  BY <1>1, <1>6, <1>7, SockIs
<1>9. Leaves(h, wire, t)
  BY <1>2, <1>5 DEF i
<1> HIDE DEF t
<1>10. host'[h].sock = t.sock /\ host'[h].open = t.open /\ host'[h].owned = t.owned
  BY <1>8, <1>9, LeavesAs
<1>11. host'[h].sock[i] = k /\ State(host'[h], i) = "Closed"
  BY <1>6, <1>8, <1>10 DEF State
<1> QED
  BY <1>1, <1>2, <1>6, <1>7, <1>8, <1>10, <1>11

LEMMA ListenDoes ==
    ASSUME NEW A, host \in [Hosts -> HostState(A)], NEW h \in Hosts, NEW i \in Ids, Listen(h, i)
    PROVE  LET s == host[h]
               t == host'[h] IN
           /\ t.open = s.open /\ t.owned = s.owned /\ State(t, i) = "Listening"
           /\ t.sock[i].listenWait = s.sock[i].listenWait
           /\ \A j \in Ids \ {i} : t.sock[j] = s.sock[j]
<1> DEFINE s == host[h]
           k == [s.sock[i] EXCEPT !.state = "Listening"]
           t == [s EXCEPT !.sock[i] = k]
<1>1. s.sock[i] \in Socket(A)
  BY SockFields
<1>2. k \in Socket(A) /\ k.state = "Listening" /\ k.listenWait = s.sock[i].listenWait
  BY <1>1 DEF Socket, SocketStates
<1>3. t = Goto(s, i, "Listening")
  BY DEF Goto
<1> HIDE DEF k
<1>4. /\ t \in HostState(A) /\ t.sock[i] = k /\ t.open = s.open /\ t.owned = s.owned
      /\ \A j \in Ids \ {i} : t.sock[j] = s.sock[j]
  <2>1. s \in HostState(A) /\ k \in Socket(A)
    BY <1>2
  <2> HIDE DEF s
  <2> QED
    BY <2>1, SockIs
<1>5. Leaves(h, wire, t)
  BY <1>3 DEF Listen
<1> HIDE DEF t
<1>6. host'[h].sock = t.sock /\ host'[h].open = t.open /\ host'[h].owned = t.owned
  BY <1>4, <1>5, LeavesAs
<1> QED
  BY <1>2, <1>4, <1>6 DEF State

LEMMA FreeDoes ==
    ASSUME NEW A, host \in [Hosts -> HostState(A)], NEW h \in Hosts, NEW i \in Ids, Free(h, i)
    PROVE  LET s == host[h]
               t == host'[h] IN
           /\ t.open = s.open /\ t.owned = s.owned \ {i} /\ State(t, i) = "Nil"
           /\ t.sock[i].listenWait = s.sock[i].listenWait
           /\ \A j \in Ids \ {i} : t.sock[j] = s.sock[j]
<1> DEFINE s == host[h]
           k == [s.sock[i] EXCEPT !.state = "Nil"]
           u == [s EXCEPT !.sock[i] = k]
           t == [u EXCEPT !.owned = @ \ {i}]
<1>1. s.sock[i] \in Socket(A)
  BY SockFields
<1>2. k \in Socket(A) /\ k.state = "Nil" /\ k.listenWait = s.sock[i].listenWait
  BY <1>1 DEF Socket, SocketStates
<1>3. u = Goto(s, i, "Nil")
  BY DEF Goto
<1> HIDE DEF k
<1>4. /\ u \in HostState(A) /\ u.sock[i] = k /\ u.open = s.open /\ u.owned = s.owned
      /\ \A j \in Ids \ {i} : u.sock[j] = s.sock[j]
  <2>1. s \in HostState(A) /\ k \in Socket(A)
    BY <1>2
  <2> HIDE DEF s
  <2> QED
    BY <2>1, SockIs
<1>5. Leaves(h, wire, t)
  BY <1>3 DEF Free
<1> HIDE DEF u
<1>6. t \in HostState(A) /\ t.sock = u.sock /\ t.open = u.open /\ t.owned = u.owned \ {i}
  BY <1>4 DEF HostState
<1> HIDE DEF t
<1>7. host'[h].sock = t.sock /\ host'[h].open = t.open /\ host'[h].owned = t.owned
  BY <1>5, <1>6, LeavesAs
<1> QED
  BY <1>2, <1>4, <1>6, <1>7 DEF State

LEMMA AcceptDoes ==
    ASSUME NEW A, host \in [Hosts -> HostState(A)], NEW h \in Hosts, Orderly(host[h], {}),
           host[h].open = {}, NEW i \in Ids, Accept(h, i)
    PROVE  LET s == host[h]
               t == host'[h]
               queue == s.sock[i].listenWait IN
           /\ \A j \in Ids \ {i} : t.sock[j] = s.sock[j]
           /\ State(t, i) = State(s, i)
           /\ \/ /\ t.open # {} /\ Parked(t, i)["accept"] # <<>> /\ t.owned = s.owned
                 /\ t.sock[i].listenWait = queue
              \/ /\ queue # <<>> /\ t.open = s.open /\ t.owned = s.owned \cup {Head(queue)}
                 /\ t.sock[i].listenWait = Tail(queue)
<1> DEFINE s == host[h]
           queue == s.sock[i].listenWait
           a == Asks(h)
           r == Request(h)
<1>1. /\ r \in Requests /\ a \in HostState(A) /\ a.open = {r} /\ a.sock = s.sock
      /\ a.owned = s.owned
  <2>1. Calls(h, "Accept")
    BY DEF Accept
  <2> QED
    BY <2>1, AsksOnly
<1> HIDE DEF a, r
<1>2. s.sock[i] \in Socket(A) /\ queue \in Seq(Ids) /\ s.sock[i].acceptWait \in Seq(Requests)
  BY SockFields
<1>3. CASE Leaves(h, wire, [a EXCEPT !.sock[i].acceptWait = Append(@, r)])
  <2> DEFINE k == [a.sock[i] EXCEPT !.acceptWait = Append(@, r)]
             t == [a EXCEPT !.sock[i] = k]
  <2>1. Leaves(h, wire, t)
    BY <1>3
  <2>2. Append(s.sock[i].acceptWait, r) \in Seq(Requests) /\ Append(s.sock[i].acceptWait, r) # <<>>
    BY <1>1, <1>2
  <2>3. /\ k \in Socket(A) /\ k.acceptWait # <<>> /\ k.listenWait = queue
        /\ k.state = s.sock[i].state
    BY <1>1, <1>2, <2>2 DEF Socket
  <2> HIDE DEF k
  <2>4. /\ t \in HostState(A) /\ t.sock[i] = k /\ t.open = a.open /\ t.owned = a.owned
        /\ \A j \in Ids \ {i} : t.sock[j] = a.sock[j]
    BY <1>1, <2>3, SockIs
  <2> HIDE DEF t
  <2>5. host'[h].sock = t.sock /\ host'[h].open = t.open /\ host'[h].owned = t.owned
    BY <2>1, <2>4, LeavesAs
  <2>6. Parked(host'[h], i)["accept"] = k.acceptWait /\ State(host'[h], i) = State(s, i)
    BY <2>3, <2>4, <2>5 DEF Parked, State
  <2> QED
    BY <1>1, <2>3, <2>4, <2>5, <2>6
<1>4. CASE /\ queue # <<>>
           /\ Leaves(h, wire, [s EXCEPT !.sock[i].listenWait = Tail(@),
                                        !.owned = @ \cup {Head(queue)}])
  <2> DEFINE k == [s.sock[i] EXCEPT !.listenWait = Tail(@)]
             u == [s EXCEPT !.owned = @ \cup {Head(queue)}]
             t == [u EXCEPT !.sock[i] = k]
  <2>1. t = [s EXCEPT !.sock[i].listenWait = Tail(@), !.owned = @ \cup {Head(queue)}]
    BY DEF HostState
  <2>2. Leaves(h, wire, t)
    BY <1>4, <2>1
  <2>3. Tail(queue) \in Seq(Ids) /\ Head(queue) \in Ids
    BY <1>2, <1>4
  <2>4. k \in Socket(A) /\ k.listenWait = Tail(queue) /\ k.state = s.sock[i].state
    BY <1>2, <2>3 DEF Socket
  <2>5. /\ u \in HostState(A) /\ u.sock = s.sock /\ u.open = s.open
        /\ u.owned = s.owned \cup {Head(queue)}
    BY <2>3 DEF HostState
  <2> HIDE DEF k, u
  <2>6. /\ t \in HostState(A) /\ t.sock[i] = k /\ t.open = u.open /\ t.owned = u.owned
        /\ \A j \in Ids \ {i} : t.sock[j] = u.sock[j]
    BY <2>4, <2>5, SockIs
  <2> HIDE DEF t
  <2>7. host'[h].sock = t.sock /\ host'[h].open = t.open /\ host'[h].owned = t.owned
    BY <2>2, <2>6, LeavesAs
  <2>8. State(host'[h], i) = State(s, i) /\ host'[h].sock[i].listenWait = Tail(queue)
    BY <2>4, <2>6, <2>7 DEF State
  <2> QED
    BY <1>4, <2>5, <2>6, <2>7, <2>8
<1> QED
  BY <1>3, <1>4 DEF Accept, a, r

LEMMA ConnectDoes ==
    ASSUME NEW A, Nat \cup Ports \subseteq A, host \in [Hosts -> HostState(A)], NEW h \in Hosts,
           Orderly(host[h], {}), host[h].open = {}, NEW i \in Ids, Connect(h, i)
    PROVE  Does(host[h], host'[h], i)
<1> DEFINE s == host[h]
           a == Asks(h)
           r == Request(h)
<1>1. /\ r \in Requests /\ a \in HostState(A) /\ a.sock = s.sock /\ a.owned = s.owned
  <2>1. Calls(h, "Connect")
    BY DEF Connect
  <2> QED
    BY <2>1, AsksOnly
<1>2. PICK ip \in Hosts \ {h}, port \in Ports :
         Leaves(h, wire,
             SendShort(Calling(a, i, ip, port, r), i, "Syn"))
  BY DEF Connect, Calling
<1> HIDE DEF a, r
<1> DEFINE k == CallingOn(a.sock[i], ip, port, r)
           u == [a EXCEPT !.sock[i] = k]
           t == SendShort(u, i, "Syn")
<1>3. a.sock[i] \in Socket(A) /\ port \in A
  BY <1>1, SockFields
<1>4. u = Calling(a, i, ip, port, r)
  <2>1. a \in HostState(A)
    BY <1>1
  <2> QED
    BY <2>1, CallingSocket
<1>5. k \in Socket(A) /\ k.state = "Syn_Sent" /\ k.listenWait = s.sock[i].listenWait
  BY <1>1, <1>3 DEF Socket, SocketStates, CallingOn
<1> HIDE DEF k
<1>6. /\ u \in HostState(A) /\ u.sock[i] = k /\ u.owned = a.owned
      /\ \A j \in Ids \ {i} : u.sock[j] = a.sock[j]
  <2>1. a \in HostState(A) /\ k \in Socket(A)
    BY <1>1, <1>5
  <2> HIDE DEF s
  <2> QED
    BY <2>1, SockIs
<1>7. Leaves(h, wire, t)
  BY <1>2, <1>4
<1> HIDE DEF u
<1>8. t \in HostState(A) /\ t.sock = u.sock /\ t.owned = u.owned
  BY <1>6, SendShortIs, SendShortOnly DEF Flags, Only
<1> HIDE DEF t
<1>9. host'[h].sock = t.sock /\ host'[h].owned = t.owned
  BY <1>7, <1>8, LeavesAs
<1> QED
  BY <1>1, <1>5, <1>6, <1>8, <1>9 DEF Does, State

LEMMA SendDoes ==
    ASSUME NEW A, Nat \subseteq A, host \in [Hosts -> HostState(A)], NEW h \in Hosts,
           Orderly(host[h], {}), host[h].open = {}, NEW i \in Ids, Send(h, i)
    PROVE  Does(host[h], host'[h], i)
<1> DEFINE s == host[h]
           a == Asks(h)
           r == Request(h)
<1>1. /\ r \in Requests /\ a \in HostState(A) /\ a.sock = s.sock /\ a.owned = s.owned
      /\ a.tcb = s.tcb
  <2>1. Calls(h, "Send")
    BY DEF Send
  <2> QED
    BY <2>1, AsksOnly
<1>2. State(s, i) = "Established"
  BY DEF Send
<1>3. ASSUME NEW t \in HostState(A), Leaves(h, wire, t), t.sock = s.sock, t.owned = s.owned
      PROVE  Does(host[h], host'[h], i)
  <2>1. host'[h].sock = t.sock /\ host'[h].owned = t.owned
    BY <1>3, LeavesAs
  <2> QED
    BY <1>2, <1>3, <2>1 DEF Does, State
<1>4. CASE Leaves(h, wire, Buffered(s, i, r))
  <2> DEFINE t == Buffered(s, i, r)
  <2>1. t \in HostState(A)
    BY BufferedIs
  <2>2. t.sock = s.sock
    BY BufferedSame
  <2>3. t.owned = s.owned
    BY DEF Buffered, PushMessage, Push, HostState
  <2> QED
    BY <1>3, <1>4, <2>1, <2>2, <2>3
<1>5. CASE Leaves(h, wire, [a EXCEPT !.tcb[i].sendWait = Append(@, r)])
  <2> HIDE DEF a, r
  <2> DEFINE b == [a.tcb[i] EXCEPT !.sendWait = Append(@, r)]
             t == [a EXCEPT !.tcb[i] = b]
  <2>1. a.tcb[i] \in Block(A) /\ a.tcb[i].sendWait \in Seq(Requests)
    BY <1>1, BlockFields
  <2>2. Append(a.tcb[i].sendWait, r) \in Seq(Requests)
    BY <1>1, <2>1
  <2>3. b \in Block(A)
    BY <2>1, <2>2 DEF Block
  <2> HIDE DEF b
  <2>4. t \in HostState(A) /\ t.sock = a.sock /\ t.owned = a.owned
    BY <1>1, <2>3, TcbIs
  <2>5. Leaves(h, wire, t)
    BY <1>5 DEF b
  <2> HIDE DEF t
  <2> QED
    BY <1>1, <1>3, <2>4, <2>5
<1> QED
  BY <1>4, <1>5 DEF Send

LEMMA RecvDoes ==
    ASSUME NEW A, Nat \subseteq A, host \in [Hosts -> HostState(A)], NEW h \in Hosts,
           Orderly(host[h], {}), host[h].open = {}, NEW i \in Ids, Recv(h, i)
    PROVE  Does(host[h], host'[h], i) /\ Awaits(host'[h], i, "recv")
<1> DEFINE s == host[h]
           a == Asks(h)
           r == Request(h)
<1>1. /\ r \in Requests /\ a \in HostState(A) /\ a.sock = s.sock /\ a.owned = s.owned
      /\ a.tcb = s.tcb
  <2>1. Calls(h, "Recv")
    BY DEF Recv
  <2> QED
    BY <2>1, AsksOnly
<1>2. State(s, i) = "Established"
  BY DEF Recv
<1>3. ASSUME NEW t \in HostState(A), Leaves(h, wire, t), t.sock = s.sock, t.owned = s.owned,
             t.open = {} \/ t.tcb[i].wait # <<>>
      PROVE  Does(host[h], host'[h], i) /\ Awaits(host'[h], i, "recv")
  <2>1. /\ host'[h].sock = t.sock /\ host'[h].owned = t.owned /\ host'[h].tcb = t.tcb
        /\ host'[h].open = t.open
    BY <1>3, LeavesAs
  <2>2. Parked(host'[h], i)["recv"] = t.tcb[i].wait
    BY <2>1 DEF Parked
  <2> QED
    BY <1>2, <1>3, <2>1, <2>2 DEF Does, State, Awaits
<1>4. CASE /\ s.tcb[i].read < s.tcb[i].rcvd
           /\ Leaves(h, wire, [s EXCEPT !.tcb[i].read = @ + 1])
  <2> DEFINE b == [s.tcb[i] EXCEPT !.read = @ + 1]
             t == [s EXCEPT !.tcb[i] = b]
  <2>1. s.tcb[i] \in Block(A) /\ s.tcb[i].read \in Nat /\ s.tcb[i].rcvd \in Nat
    BY BlockFields
  <2>2. s.tcb[i].read + 1 \in Nat /\ s.tcb[i].read + 1 <= s.tcb[i].rcvd
    BY <1>4, <2>1
  <2>3. b \in Block(A)
    BY <2>1, <2>2 DEF Block
  <2>4. Leaves(h, wire, t)
    BY <1>4
  <2> HIDE DEF b
  <2>5. t \in HostState(A) /\ t.sock = s.sock /\ t.owned = s.owned /\ t.open = s.open
    BY <2>3, TcbIs
  <2> HIDE DEF t
  <2> QED
    BY <1>3, <2>4, <2>5
<1>5. CASE Leaves(h, wire, [a EXCEPT !.tcb[i].wait = Append(@, r)])
  <2> HIDE DEF a, r
  <2> DEFINE b == [a.tcb[i] EXCEPT !.wait = Append(@, r)]
             t == [a EXCEPT !.tcb[i] = b]
  <2>1. a.tcb[i] \in Block(A) /\ a.tcb[i].wait \in Seq(Requests)
    BY <1>1, BlockFields
  <2>2. Append(a.tcb[i].wait, r) \in Seq(Requests) /\ Append(a.tcb[i].wait, r) # <<>>
    BY <1>1, <2>1
  <2>3. b \in Block(A) /\ b.wait # <<>>
    BY <2>1, <2>2 DEF Block
  <2>4. Leaves(h, wire, t)
    BY <1>5
  <2> HIDE DEF b
  <2>5. t \in HostState(A) /\ t.sock = a.sock /\ t.owned = a.owned /\ t.tcb[i] = b
    BY <1>1, <2>3, TcbIs
  <2> HIDE DEF t
  <2> QED
    BY <1>1, <1>3, <2>3, <2>4, <2>5
<1> QED
  BY <1>4, <1>5 DEF Recv

\* A Close waits on the socket, or the socket is closed.
LEMMA CloseDoes ==
    ASSUME NEW A, Nat \subseteq A, host \in [Hosts -> HostState(A)], NEW h \in Hosts,
           Orderly(host[h], {}), host[h].open = {}, NEW i \in Ids, Close(h, i),
           State(host[h], i) # "Listening", host[h].sock[i].listenWait = <<>>
    PROVE  LET t == host'[h] IN
           /\ Does(host[h], t, i)
           /\ \/ State(t, i) = "Closed" /\ t.open = {}
              \/ Parked(t, i)["close"] # <<>>
<1> DEFINE s == host[h]
           a == Asks(h)
           r == Request(h)
           waiting == [a EXCEPT !.sock[i].closeWait = r]
           Goal == LET t == host'[h] IN
                   /\ Does(host[h], t, i)
                   /\ \/ State(t, i) = "Closed" /\ t.open = {}
                      \/ Parked(t, i)["close"] # <<>>
<1>1. /\ r \in Requests /\ a \in HostState(A) /\ a.sock = s.sock /\ a.owned = s.owned
      /\ a.tcb = s.tcb
  <2>1. Calls(h, "Close")
    BY DEF Close
  <2> QED
    BY <2>1, AsksOnly
<1>2. /\ waiting \in HostState(A) /\ State(waiting, i) = State(s, i) /\ waiting.owned = s.owned
      /\ waiting.sock[i].closeWait = r /\ waiting.sock[i].listenWait = s.sock[i].listenWait
      /\ waiting.tcb = s.tcb /\ \A j \in Ids \ {i} : waiting.sock[j] = s.sock[j]
  <2> HIDE DEF a, r
  <2> DEFINE k == [a.sock[i] EXCEPT !.closeWait = r]
             t == [a EXCEPT !.sock[i] = k]
  <2>1. waiting = t
    OBVIOUS
  <2>2. a.sock[i] \in Socket(A)
    BY <1>1, SockFields
  <2>3. /\ k \in Socket(A) /\ k.state = s.sock[i].state /\ k.closeWait = r
        /\ k.listenWait = s.sock[i].listenWait
    BY <1>1, <2>2 DEF Socket
  <2> HIDE DEF k
  <2>4. /\ t \in HostState(A) /\ t.sock[i] = k /\ t.tcb = a.tcb /\ t.owned = a.owned
        /\ \A j \in Ids \ {i} : t.sock[j] = a.sock[j]
    BY <1>1, <2>3, SockIs
  <2> HIDE DEF t, waiting
  <2> QED
    BY <1>1, <2>1, <2>3, <2>4 DEF State
<1>3. r # Null
  BY <1>1, BoundsAre DEF Requests, Null
<1> HIDE DEF a, r, waiting
<1>4. ASSUME NEW u \in HostState(A), Leaves(h, wire, u), Only(s, u, i),
             State(u, i) = "Closed"
      PROVE  Goal
  <2>1. /\ host'[h].sock = u.sock /\ host'[h].owned = u.owned /\ host'[h].open = u.open
    BY <1>4, LeavesAs
  <2> QED
    BY <1>4, <2>1 DEF Does, Only, State
<1>5. ASSUME NEW u \in HostState(A), Leaves(h, wire, u), Only(waiting, u, i),
             State(u, i) \notin {"Nil", "Listening", "Syn_Rcvd"},
             u.sock[i].closeWait = waiting.sock[i].closeWait
      PROVE  Goal
  <2>1. host'[h].sock = u.sock /\ host'[h].owned = u.owned
    BY <1>5, LeavesAs
  <2>2. Does(s, host'[h], i)
    BY <1>2, <1>5, <2>1 DEF Does, Only, State
  <2>3. Parked(host'[h], i)["close"] = <<r>>
    BY <1>2, <1>3, <1>5, <2>1 DEF Parked, Waiting
  <2> QED
    BY <2>2, <2>3
<1>6. CASE Leaves(h, wire, Goto(FreeWait(s, i), i, "Closed"))
  <2> DEFINE f == FreeWait(s, i)
             t == Goto(f, i, "Closed")
  <2>1. f \in HostState(A) /\ Only(s, f, i)
    BY FreeWaitIs, FreeWaitOnly
  <2> HIDE DEF f
  <2>2. t \in HostState(A) /\ Only(f, t, i) /\ State(t, i) = "Closed"
    BY <2>1, GotoOnly DEF SocketStates
  <2>3. Only(s, t, i)
    BY <2>1, <2>2, OnlyTrans
  <2>4. Leaves(h, wire, t)
    BY <1>6 DEF f
  <2> HIDE DEF t
  <2> QED
    BY <1>4, <2>2, <2>3, <2>4
<1>7. CASE State(s, i) = "Established" /\ Leaves(h, wire, BackClose(waiting, i))
  <2> DEFINE t == BackClose(waiting, i)
  <2>1. t \in HostState(A)
    BY <1>2, <1>7, BackCloseIs
  <2>2. /\ Only(waiting, t, i) /\ State(t, i) \in {"Established", "Fin_Wait1"}
        /\ t.sock[i].closeWait = waiting.sock[i].closeWait
    <3>1. CASE waiting.tcb[i].acked = waiting.tcb[i].sent
      <4>1. t = CompleteClose(waiting, i)
        BY <3>1 DEF BackClose
      <4> QED
        BY <1>2, <4>1, CompleteCloseOnly
    <3>2. CASE waiting.tcb[i].acked # waiting.tcb[i].sent
      <4>1. t = [waiting EXCEPT !.tcb[i].fin = TRUE]
        BY <3>2 DEF BackClose
      <4>2. waiting.tcb[i] \in Block(A)
        BY <1>2, BlockFields
      <4> DEFINE b == [waiting.tcb[i] EXCEPT !.fin = TRUE]
      <4>3. b.wait = waiting.tcb[i].wait /\ b.sendWait = waiting.tcb[i].sendWait
        BY <4>2 DEF Block
      <4>4. /\ t.sock = waiting.sock /\ t.owned = waiting.owned /\ t.open = waiting.open
            /\ t.tcb[i] = b /\ \A j \in Ids \ {i} : t.tcb[j] = waiting.tcb[j]
        BY <1>2, <4>1 DEF HostState
      <4> HIDE DEF b, t
      <4>5. \A j \in Ids : Parked(t, j) = Parked(waiting, j)
        BY <4>3, <4>4 DEF Parked
      <4> QED
        BY <1>2, <1>7, <4>4, <4>5 DEF Only, State
    <3> QED
      BY <3>1, <3>2
  <2> HIDE DEF t
  <2> QED
    BY <1>5, <1>7, <2>1, <2>2 DEF t
<1>8. CASE /\ State(s, i) = "Close_Wait"
           /\ Leaves(h, wire, SendShort(BackFree(Goto(waiting, i, "Last_Ack"), i), i, "Fin"))
  <2> DEFINE g == Goto(waiting, i, "Last_Ack")
             f == BackFree(g, i)
             t == SendShort(f, i, "Fin")
  <2>1. /\ g \in HostState(A) /\ Only(waiting, g, i) /\ State(g, i) = "Last_Ack"
        /\ g.sock[i].closeWait = waiting.sock[i].closeWait
    <3>1. "Last_Ack" \in SocketStates /\ waiting \in HostState(A)
      BY <1>2 DEF SocketStates
    <3> QED
      BY <3>1, GotoOnly
  <2> HIDE DEF g
  <2>2. f \in HostState(A) /\ Only(g, f, i) /\ f.sock = g.sock
    BY <2>1, BackFreeIs, BackFreeOnly
  <2> HIDE DEF f
  <2>3. t \in HostState(A) /\ Only(f, t, i) /\ t.sock = f.sock
    BY <2>2, SendShortIs, SendShortOnly DEF Flags
  <2>4. Leaves(h, wire, t)
    BY <1>8 DEF g, f
  <2> HIDE DEF t
  <2>5. Only(waiting, t, i)
    BY <2>1, <2>2, <2>3, OnlyTrans
  <2>6. State(t, i) = "Last_Ack" /\ t.sock[i].closeWait = waiting.sock[i].closeWait
    BY <2>1, <2>2, <2>3 DEF State
  <2> QED
    BY <1>5, <2>3, <2>4, <2>5, <2>6
<1>9. CASE /\ State(s, i) \in {"Syn_Rcvd", "Fin_Wait1", "Fin_Wait2", "Closing", "Last_Ack"}
           /\ Leaves(h, wire, ResetSocket(SendShort(s, i, "Rst"), i))
  <2> DEFINE f == SendShort(s, i, "Rst")
             t == ResetSocket(f, i)
  <2>1. f \in HostState(A) /\ f.sock = s.sock /\ Only(s, f, i)
    BY SendShortIs, SendShortOnly DEF Flags
  <2> HIDE DEF f
  <2>2. State(f, i) \notin Dormant /\ f.sock[i].listenWait = <<>>
    BY <1>9, <2>1 DEF State, Dormant
  <2>3. t \in HostState(A) /\ Only(f, t, i) /\ State(t, i) = "Closed"
    BY <2>1, <2>2, ResetSocketIs, ResetSocketOnly DEF Dormant
  <2>4. Leaves(h, wire, t)
    BY <1>9 DEF f
  <2> HIDE DEF t
  <2>5. Only(s, t, i)
    BY <2>1, <2>3, OnlyTrans
  <2> QED
    BY <1>4, <2>3, <2>4, <2>5
<1> QED
  BY <1>6, <1>7, <1>8, <1>9 DEF Close, waiting, a, r

-----------------------------------------------------------------------------
(* A client's timer.                                                       *)

\* What it asks for, and on which socket.
Method(h) == IF h \in Senders THEN SenderAsks[Turned(h)] ELSE ServerAsks[client[h].state]
Subject(h) ==
    IF h \in Senders \/ client[h].state \in {"Start", "Listened"}
    THEN client[h].id ELSE client[h].id1

\* It is not taken for an answer while it waits.
LEMMA AskedIs ==
    ASSUME NEW h \in Hosts, IsClient(client[h]), NEW m
    PROVE  LET a == Asked(h, m) IN
           /\ IsClient(a) /\ ~a.timer /\ a.state = Turned(h)
           /\ a.id = client[h].id /\ a.id1 = client[h].id1
<1> DEFINE c == client[h]
           n == IF m = "Send" THEN SendNext(c.offset) ELSE c.offset
           a == [state |-> Turned(h), timer |-> FALSE, id |-> c.id, id1 |-> c.id1, offset |-> n]
<1>1. Asked(h, m) = [c EXCEPT !.state = Turned(h), !.timer = FALSE, !.offset = n]
  BY DEF Asked
<1>2. c = [state |-> c.state, timer |-> c.timer, id |-> c.id, id1 |-> c.id1,
           offset |-> c.offset]
  BY DEF IsClient
<1> HIDE DEF n, c
<1>3. Asked(h, m) = a
  BY <1>1, <1>2
<1>4. IsClient(a) /\ ~a.timer /\ a.state = Turned(h) /\ a.id = c.id /\ a.id1 = c.id1
  BY DEF IsClient
<1> QED
  BY <1>3, <1>4 DEF c

LEMMA TimerIs ==
    ASSUME ClientsInv, NEW h \in Hosts, ClientTimer(h)
    PROVE  LET c == client[h]
               s == host[h]
               m == Method(h)
               i == Subject(h)
               d == client'[h] IN
           /\ h \in Hosts \ console /\ IsClient(c) /\ c.state # "Err"
           /\ s.open = {} /\ ~s.crashed /\ Orderly(s, {})
           /\ IF h \in Senders THEN Sender(s, c) ELSE Server(s, c)
           /\ Makes(h, m, i) \/ (Refused(h, m, i) /\ UNCHANGED vars)
           /\ host'[h].open # {} => d = Asked(h, m)
           /\ host'[h].open = {} => d = ClientPush(h, Asked(h, m), FailsAtOnce(h, m, i))
           /\ UNCHANGED console /\ client' = [g \in Hosts |-> client'[g]]
           /\ \A g \in Hosts \ {h} : client'[g] = client[g]
<1> DEFINE c == client[h]
           s == host[h]
           m == Method(h)
           i == Subject(h)
           d == client'[h]
<1>1. c.timer /\ UNCHANGED console
  BY DEF ClientTimer
<1>2. \/ Makes(h, m, i)
      \/ ~s.crashed /\ Refused(h, m, i) /\ UNCHANGED vars
  BY DEF ClientTimer, Method, Subject
<1>3. client' = [client EXCEPT ![h] =
                    IF host'[h].open # {} THEN Asked(h, m)
                    ELSE ClientPush(h, Asked(h, m), FailsAtOnce(h, m, i))]
  BY DEF ClientTimer, Method, Subject
<1>4. client = [g \in Hosts |-> client[g]]
  BY DEF ClientsInv, ClientsFit
<1>5. ~s.crashed
  BY <1>2 DEF Makes, New, Listen, Accept, Connect, Send, Recv, Close, Free, Calls
<1>6. h \in Hosts \ console /\ Fits(h, s, c)
  BY <1>1 DEF ClientsInv, ClientsFit
<1> HIDE DEF m, i
<1>7. /\ host'[h].open # {} => d = Asked(h, m)
      /\ host'[h].open = {} => d = ClientPush(h, Asked(h, m), FailsAtOnce(h, m, i))
      /\ client' = [g \in Hosts |-> client'[g]]
      /\ \A g \in Hosts \ {h} : client'[g] = client[g]
  BY <1>3, <1>4
<1>8. IsClient(c) /\ c.state # "Err" /\ s.open = {}
  BY <1>1, <1>6 DEF Fits
<1>9. Orderly(s, {}) /\ IF h \in Senders THEN Sender(s, c) ELSE Server(s, c)
  BY <1>5, <1>6 DEF Fits
<1> QED
  BY <1>1, <1>2, <1>5, <1>6, <1>7, <1>8, <1>9 DEF m, i

\* What Turned and Method are in each state.
LEMMA SenderAsksIs ==
    ASSUME NEW h \in Senders, client[h].state \in {"Nothing", "Start", "Writing", "Closing"}
    PROVE  /\ client[h].state = "Nothing" => Turned(h) = "Nothing" /\ Method(h) = "New"
           /\ client[h].state # "Nothing" =>
                 /\ Turned(h) \in {"Start", "Writing", "Closing"}
                 /\ Method(h) \in {"Connect", "Send", "Close"}
           /\ Subject(h) = client[h].id
<1>1. Turned(h) = client[h].state \/ (client[h].state = "Writing" /\ Turned(h) = "Closing")
  BY DEF Turned
<1> QED
  BY <1>1 DEF Method, SenderAsks, Subject

LEMMA ServerAsksIs ==
    ASSUME NEW h, h \notin Senders
    PROVE  /\ Turned(h) = client[h].state
           /\ client[h].state = "Nothing" => Method(h) = "New"
           /\ client[h].state = "Start" => Method(h) = "Listen" /\ Subject(h) = client[h].id
           /\ client[h].state = "Listened" => Method(h) = "Accept" /\ Subject(h) = client[h].id
           /\ client[h].state = "Reading" => Method(h) = "Recv" /\ Subject(h) = client[h].id1
           /\ client[h].state = "Closing" => Method(h) = "Close" /\ Subject(h) = client[h].id1
           /\ client[h].state = "AcceptClose" => Method(h) = "Free" /\ Subject(h) = client[h].id1
BY DEF Turned, Method, ServerAsks, Subject

LEMMA MakesIs ==
    ASSUME NEW h, NEW m, NEW i, Makes(h, m, i)
    PROVE  /\ m = "New" => New(h)
           /\ m = "Listen" => Listen(h, i)
           /\ m = "Accept" => Accept(h, i)
           /\ m = "Connect" => Connect(h, i)
           /\ m = "Send" => Send(h, i)
           /\ m = "Recv" => Recv(h, i)
           /\ m = "Close" => Close(h, i)
           /\ m = "Free" => Free(h, i)
BY DEF Makes

\* A client uses the sockets it was given, and listens on a new one.
LEMMA TimerIsApp ==
    ASSUME ClientsInv, NEW h \in Hosts, ClientTimer(h)
    PROVE  AppStep(h) \/ UNCHANGED vars
<1> DEFINE c == client[h]
           s == host[h]
           i == Subject(h)
<1>1. /\ c.state # "Err"
      /\ IF h \in Senders THEN Sender(s, c) ELSE Server(s, c)
      /\ Makes(h, Method(h), i) \/ UNCHANGED vars
  BY TimerIs
<1>2. SUFFICES ASSUME Makes(h, Method(h), i)
               PROVE  AppStep(h)
  BY <1>1
<1>3. CASE h \in Senders
  <2>1. Sender(s, c)
    BY <1>1, <1>3
  <2>2. c.state \in {"Nothing", "Start", "Writing", "Closing"}
    BY <1>1, <2>1 DEF Sender
  <2>3. CASE c.state = "Nothing"
    BY <1>2, <1>3, <2>2, <2>3, SenderAsksIs, MakesIs DEF AppStep
  <2>4. CASE c.state # "Nothing"
    <3>1. i \in s.owned
      BY <1>3, <2>1, <2>2, <2>4, SenderAsksIs DEF Sender
    <3>2. Method(h) \in {"Connect", "Send", "Close"}
      BY <1>3, <2>2, <2>4, SenderAsksIs
    <3> HIDE DEF i
    <3> QED
      BY <1>2, <3>1, <3>2, MakesIs DEF AppStep
  <2> QED
    BY <2>3, <2>4
<1>4. CASE h \notin Senders
  <2>1. Server(s, c)
    BY <1>1, <1>4
  <2>2. CASE c.state = "Nothing"
    BY <1>2, <1>4, <2>2, ServerAsksIs, MakesIs DEF AppStep
  <2>3. CASE c.state = "Start"
    <3>1. Ready(s, c.id)
      BY <2>1, <2>3 DEF Server, Serves
    <3>2. i \in s.owned /\ NeverConnected(h, i) /\ Method(h) = "Listen"
      BY <1>4, <2>3, <3>1, ServerAsksIs DEF Ready, NeverConnected
    <3> HIDE DEF i
    <3> QED
      BY <1>2, <3>2, MakesIs DEF AppStep
  <2>4. CASE c.state = "Listened"
    <3>1. i \in s.owned /\ Method(h) = "Accept"
      BY <1>4, <2>1, <2>4, ServerAsksIs DEF Server, Serves
    <3> HIDE DEF i
    <3> QED
      BY <1>2, <3>1, MakesIs DEF AppStep
  <2>5. CASE c.state \in {"Reading", "Closing", "AcceptClose"}
    <3>1. i \in s.owned /\ Method(h) \in {"Recv", "Close", "Free"}
      BY <1>4, <2>1, <2>5, ServerAsksIs DEF Server, Serves
    <3> HIDE DEF i
    <3> QED
      BY <1>2, <3>1, MakesIs DEF AppStep
  <2> QED
    BY <1>1, <2>1, <2>2, <2>3, <2>4, <2>5 DEF Server, Serves
<1> QED
  BY <1>3, <1>4

LEMMA TimerLands ==
    ASSUME ClientsInv, NEW h \in Hosts, ClientTimer(h)
    PROVE  Orderly(host'[h], {}) /\ \A g \in Hosts \ {h} : host'[g] = host[g]
<1>1. PICK A : Nat \cup Ports \subseteq A /\ host \in [Hosts -> HostState(A)]
  BY DEF ClientsInv, Open, Shaped
<1>2. Orderly(host[h], {}) /\ host[h].open = {}
  BY TimerIs
<1>3. CASE AppStep(h)
  <2>1. Lands(A, h)
    BY <1>1, <1>2, <1>3, AppLands
  <2>2. PICK w, t : Leaves(h, w, t) /\ t \in HostState(A) /\ Orderly(t, {})
    BY <2>1 DEF Lands
  <2>3. LET u == host'[h] IN
        /\ u.sock = t.sock /\ u.tcb = t.tcb /\ u.open = t.open /\ u.crashed = t.crashed
        /\ \A g \in Hosts \ {h} : host'[g] = host[g]
    BY <1>1, <2>2, LeavesAs
  <2> QED
    BY <2>2, <2>3, OrderlyAs
<1>4. CASE UNCHANGED vars
  BY <1>2, <1>4 DEF vars
<1> QED
  BY <1>3, <1>4, TimerIsApp

\* The socket that is new among those a host was given.
LEMMA GivenIs ==
    ASSUME NEW h, NEW i \in Ids, i \notin host[h].owned,
           host'[h].owned = host[h].owned \cup {i}
    PROVE  Given(h) = i
<1> DEFINE S == {i, MaxSockets}
<1>1. (host'[h].owned \ host[h].owned) \cup {MaxSockets} = S
  OBVIOUS
<1>2. i < MaxSockets /\ i \in Nat /\ MaxSockets \in Nat
  BY BoundsAre DEF Ids
<1>3. S \subseteq Nat /\ i \in S /\ \A n \in S : n = i \/ n = MaxSockets
  BY <1>2
<1> HIDE DEF S
<1> DEFINE k == Min(S)
<1>4. k \in S /\ k <= i
  BY <1>3, MinIs
<1> HIDE DEF k
<1>5. k = i
  BY <1>2, <1>3, <1>4
<1> QED
  BY <1>1, <1>5 DEF Given, S, k

\* New is answered with a socket, unless there are no ports.
LEMMA NewGives ==
    ASSUME NEW A, Nat \cup Ports \subseteq A, host \in [Hosts -> HostState(A)], NEW h \in Hosts,
           Untouched(host[h]), NEW i,
           New(h) \/ (Refused(h, "New", i) /\ UNCHANGED vars)
    PROVE  /\ host'[h].open = {}
           /\ \/ FailsAtOnce(h, "New", i) /\ Ports = {} /\ Untouched(host'[h])
              \/ ~FailsAtOnce(h, "New", i) /\ Ready(host'[h], Given(h))
<1> DEFINE s == host[h]
           t == host'[h]
<1>1. FailsAtOnce(h, "New", i) <=> \A port \in Ports : Bound(s, port) # {}
  BY DEF FailsAtOnce, Refused
<1>2. /\ \A j \in Ids : s.sock[j] = EmptySocket /\ State(s, j) = "Nil"
      /\ s.owned = {} /\ s.open = {}
      /\ EmptySocket.ip = Nowhere /\ EmptySocket.listenWait = <<>>
  BY DEF Untouched, EmptyHost, EmptySocket, State
<1>3. CASE New(h)
  <2>1. t.open = {} /\ ~FailsAtOnce(h, "New", i)
    BY <1>1, <1>2, <1>3, NewDoes
  <2>2. PICK l \in Ids : /\ t.owned = s.owned \cup {l} /\ State(t, l) = "Closed"
                         /\ t.sock[l].ip = s.sock[l].ip
                         /\ t.sock[l].listenWait = s.sock[l].listenWait
                         /\ \A j \in Ids \ {l} : t.sock[j] = s.sock[j]
    BY <1>3, NewDoes
  <2>3. Given(h) = l
    BY <1>2, <2>2, GivenIs
  <2> HIDE DEF s, t
  <2>4. Ready(t, l)
    BY <1>2, <2>1, <2>2 DEF Ready
  <2> QED
    BY <2>1, <2>3, <2>4 DEF t
<1>4. CASE Refused(h, "New", i) /\ UNCHANGED vars
  <2>1. t = s
    BY <1>4 DEF vars
  <2>2. \A port \in Ports : Bound(s, port) # {}
    BY <1>4 DEF Refused
  <2>3. \A port \in Ports : Bound(s, port) = {}
    BY <1>2 DEF Bound
  <2> QED
    BY <1>1, <1>2, <2>1, <2>2, <2>3
<1> QED
  BY <1>3, <1>4

LEMMA SenderTimer ==
    ASSUME ClientsInv, NEW h \in Hosts, h \in Senders, ClientTimer(h)
    PROVE  LET t == host'[h]
               d == client'[h] IN
           /\ IsClient(d) /\ Sender(t, d) /\ (t.open # {} => ~d.timer)
           /\ d.state = "Err" => Ports = {} /\ ~d.timer
<1> DEFINE c == client[h]
           s == host[h]
           t == host'[h]
           d == client'[h]
           m == Method(h)
           i == Subject(h)
           a == Asked(h, m)
           k == Given(h)
           error == FailsAtOnce(h, m, i)
<1>1. PICK A : Nat \cup Ports \subseteq A /\ host \in [Hosts -> HostState(A)]
  BY DEF ClientsInv, Open, Shaped
<1>2. /\ IsClient(c) /\ c.state # "Err" /\ s.open = {} /\ Orderly(s, {}) /\ Sender(s, c)
      /\ Makes(h, m, i) \/ (Refused(h, m, i) /\ UNCHANGED vars)
      /\ t.open # {} => d = a
      /\ t.open = {} => d = SenderPush(a, error, k)
  BY TimerIs DEF ClientPush
<1>3. IsClient(a) /\ ~a.timer /\ a.state = Turned(h) /\ a.id = c.id
  BY <1>2, AskedIs
<1>4. /\ c.state \in {"Nothing", "Start", "Writing", "Closing"}
      /\ c.state = "Nothing" => Untouched(s)
      /\ c.state # "Nothing" => c.id \in Ids /\ s.owned = {c.id}
      /\ \A j \in Ids : State(s, j) # "Listening" /\ s.sock[j].listenWait = <<>>
  BY <1>2 DEF Sender
<1>5. /\ c.state = "Nothing" => Turned(h) = "Nothing" /\ m = "New"
      /\ c.state # "Nothing" =>
            Turned(h) \in {"Start", "Writing", "Closing"} /\ m \in {"Connect", "Send", "Close"}
      /\ i = c.id
  BY <1>4, SenderAsksIs
<1> HIDE DEF a, k, error
<1>6. t.open = {} =>
         /\ IsClient(d)
         /\ d.state = IF error THEN SenderError[a.state] ELSE SenderDone[a.state]
         /\ error /\ a.state = "Nothing" => ~d.timer
         /\ d.id = IF ~error /\ a.state = "Nothing" THEN k ELSE a.id
  BY <1>2, <1>3, SenderPushIs
<1>7. CASE c.state = "Nothing"
  <2>1. m = "New" /\ a.state = "Nothing"
    BY <1>3, <1>5, <1>7
  <2>2. New(h) \/ (Refused(h, "New", i) /\ UNCHANGED vars)
    BY <1>2, <2>1, MakesIs
  <2>3. /\ t.open = {}
        /\ (error /\ Ports = {} /\ Untouched(t)) \/ (~error /\ Ready(t, k))
    BY <1>1, <1>4, <1>7, <2>1, <2>2, NewGives DEF error, k
  <2> HIDE DEF t, d
  <2>4. CASE error /\ Ports = {} /\ Untouched(t)
    <3>1. IsClient(d) /\ d.state = "Err" /\ ~d.timer
      BY <1>6, <2>1, <2>3, <2>4 DEF SenderError
    <3>2. \A j \in Ids : State(t, j) # "Listening" /\ t.sock[j].listenWait = <<>>
      BY <2>4 DEF Untouched, EmptyHost, EmptySocket, State
    <3> QED
      BY <2>3, <2>4, <3>1, <3>2 DEF Sender, t, d
  <2>5. CASE ~error /\ Ready(t, k)
    <3>1. IsClient(d) /\ d.state = "Start" /\ d.id = k
      BY <1>6, <2>1, <2>3, <2>5 DEF SenderDone
    <3>2. \A j \in Ids : State(t, j) # "Listening" /\ t.sock[j].listenWait = <<>>
      BY <2>5 DEF Ready, EmptySocket, State
    <3>3. k \in Ids /\ t.owned = {k}
      BY <2>5 DEF Ready
    <3> QED
      BY <2>3, <3>1, <3>2, <3>3 DEF Sender, t, d
  <2> QED
    BY <2>3, <2>4, <2>5
<1>8. CASE c.state # "Nothing"
  <2>1. a.state \in {"Start", "Writing", "Closing"} /\ m \in {"Connect", "Send", "Close"}
        /\ i = c.id /\ i \in Ids /\ s.owned = {i}
    BY <1>3, <1>4, <1>5, <1>8
  <2>2. Does(s, t, i) \/ t = s
    <3>1. CASE Makes(h, m, i)
      <4>1. Connect(h, i) \/ Send(h, i) \/ Close(h, i)
        BY <2>1, <3>1, MakesIs
      <4>2. i \in Ids /\ State(s, i) # "Listening" /\ s.sock[i].listenWait = <<>>
        BY <1>4, <2>1
      <4> HIDE DEF i
      <4> QED
        BY <1>1, <1>2, <4>1, <4>2, ConnectDoes, SendDoes, CloseDoes
    <3>2. CASE UNCHANGED vars
      BY <3>2 DEF vars
    <3> QED
      BY <1>2, <3>1, <3>2
  <2>3. /\ t.owned = {i}
        /\ \A j \in Ids : State(t, j) # "Listening" /\ t.sock[j].listenWait = <<>>
    BY <1>4, <2>1, <2>2 DEF Does, State
  <2>4. IsClient(d) /\ d.id = i /\ d.state \in {"Start", "Writing", "Closing"}
        /\ (t.open # {} => ~d.timer)
    <3>1. CASE t.open = {}
      BY <1>3, <1>6, <2>1, <3>1 DEF SenderError, SenderDone
    <3>2. CASE t.open # {}
      BY <1>2, <1>3, <2>1, <3>2
    <3> QED
      BY <3>1, <3>2
  <2> HIDE DEF t, d, i
  <2> QED
    BY <2>1, <2>3, <2>4 DEF Sender, t, d
<1> QED
  BY <1>7, <1>8

\* The server's own socket goes on to listen when something happens to another
\* that listens to nothing.
LEMMA DoesOneListens ==
    ASSUME NEW s, NEW t, NEW l, OneListens(s, l), NEW i \in Ids \ {l}, Does(s, t, i)
    PROVE  OneListens(t, l)
<1>1. /\ l \in Ids /\ State(s, l) = "Listening"
      /\ \A j \in Ids \ {l} : State(s, j) # "Listening" /\ s.sock[j].listenWait = <<>>
  BY DEF OneListens
<1>2. /\ t.owned = s.owned /\ t.sock[i].listenWait = <<>>
      /\ State(t, i) \notin {"Nil", "Listening", "Syn_Rcvd"}
      /\ \A j \in Ids \ {i} : t.sock[j] = s.sock[j]
  BY <1>1 DEF Does
<1>3. \A j \in Ids \ {i} : State(t, j) = State(s, j) /\ t.sock[j] = s.sock[j]
  BY <1>2 DEF State
<1> QED
  BY <1>1, <1>2, <1>3, OneListensStays

\* Accept takes the first of the queue.
LEMMA TakesOneListens ==
    ASSUME NEW A, NEW s \in HostState(A), NEW t, NEW l, OneListens(s, l), s.owned = {l},
           s.sock[l].listenWait # <<>>, State(t, l) = State(s, l),
           t.sock[l].listenWait = Tail(s.sock[l].listenWait),
           t.owned = s.owned \cup {Head(s.sock[l].listenWait)},
           \A j \in Ids \ {l} : t.sock[j] = s.sock[j]
    PROVE  LET i == Head(s.sock[l].listenWait) IN
           /\ i \in Ids \ {l} /\ State(t, i) \notin {"Nil", "Syn_Rcvd"}
           /\ OneListens(t, l)
<1> DEFINE queue == s.sock[l].listenWait
           q == t.sock[l].listenWait
           i == Head(queue)
<1>1. /\ l \in Ids /\ State(s, l) = "Listening"
      /\ \A j \in Ids \ {l} : State(s, j) # "Listening" /\ s.sock[j].listenWait = <<>>
      /\ \A m, n \in 1..Len(queue) : m # n => queue[m] # queue[n]
      /\ \A m \in 1..Len(queue) :
            /\ queue[m] \in Ids \ s.owned
            /\ State(s, queue[m]) \notin {"Nil", "Syn_Rcvd", "Listening"}
  BY DEF OneListens
<1>2. queue \in Seq(Ids) /\ queue # <<>>
  BY <1>1, SockFields
<1>3. /\ i = queue[1] /\ 1 \in 1..Len(queue) /\ Len(queue) \in Nat
      /\ Len(q) = Len(queue) - 1 /\ \A m \in 1..Len(q) : q[m] = queue[m + 1]
  BY <1>2
<1> HIDE DEF queue, q, i
<1>4. i \in Ids /\ i # l /\ State(s, i) \notin {"Nil", "Syn_Rcvd", "Listening"}
  BY <1>1, <1>3
<1>5. State(t, i) = State(s, i)
  BY <1>4 DEF State
<1>6. \A m \in 1..Len(q) : m + 1 \in 1..Len(queue) /\ m + 1 # 1
  BY <1>3
<1>7. \A m, n \in 1..Len(q) : m # n => q[m] # q[n]
  BY <1>1, <1>3, <1>6
<1>8. ASSUME NEW m \in 1..Len(q)
      PROVE  /\ q[m] \in Ids \ t.owned
             /\ State(t, q[m]) \notin {"Nil", "Syn_Rcvd", "Listening"}
  <2>1. /\ q[m] \in Ids \ s.owned /\ q[m] # i
        /\ State(s, q[m]) \notin {"Nil", "Syn_Rcvd", "Listening"}
    BY <1>1, <1>3, <1>6
  <2>2. q[m] # l
    BY <2>1
  <2>3. State(t, q[m]) = State(s, q[m])
    BY <2>1, <2>2 DEF State
  <2> QED
    BY <2>1, <2>3 DEF i, queue
<1>9. \A j \in Ids \ {l} : State(t, j) # "Listening" /\ t.sock[j].listenWait = <<>>
  BY <1>1 DEF State
<1> QED
  BY <1>1, <1>4, <1>5, <1>7, <1>8, <1>9 DEF OneListens, q, i, queue

\* Free gives one up that is not in the queue.
LEMMA FreesOneListens ==
    ASSUME NEW s, NEW t, NEW l, OneListens(s, l), NEW i \in Ids \ {l}, i \in s.owned,
           t.owned = s.owned \ {i}, State(t, i) = "Nil",
           t.sock[i].listenWait = s.sock[i].listenWait,
           \A j \in Ids \ {i} : t.sock[j] = s.sock[j]
    PROVE  OneListens(t, l)
<1>1. /\ l \in Ids /\ State(s, l) = "Listening"
      /\ \A j \in Ids \ {l} : State(s, j) # "Listening" /\ s.sock[j].listenWait = <<>>
  BY DEF OneListens
<1>2. \A j \in Ids \ {i} : State(t, j) = State(s, j) /\ t.sock[j] = s.sock[j]
  BY DEF State
<1>3. t.sock[i].listenWait = <<>> /\ State(t, i) # "Listening"
  BY <1>1
<1> QED
  BY <1>1, <1>2, <1>3, OneListensStays

\* A socket that was never a connection begins to listen.
LEMMA ReadyOneListens ==
    ASSUME NEW s, NEW t, NEW l, Ready(s, l), t.owned = s.owned, State(t, l) = "Listening",
           t.sock[l].listenWait = s.sock[l].listenWait,
           \A j \in Ids \ {l} : t.sock[j] = s.sock[j]
    PROVE  OneListens(t, l)
<1>1. /\ l \in Ids /\ t.sock[l].listenWait = <<>>
      /\ \A j \in Ids \ {l} : State(t, j) = "Nil" /\ t.sock[j].listenWait = <<>>
  BY DEF Ready, EmptySocket, State
<1>2. 1..Len(t.sock[l].listenWait) = {}
  BY <1>1
<1> QED
  BY <1>1, <1>2 DEF OneListens

-----------------------------------------------------------------------------
(* The timer of a server, state by state.                                  *)

\* What it knows still holds when its host has not crashed.
ServerKept(h) ==
    LET t == host'[h]
        d == client'[h] IN
    /\ Tidy(t) => Server(t, d)
    /\ d.state = "Err" => Ports = {} /\ ~d.timer

LEMMA ServerAsked ==
    ASSUME ClientsInv, NEW h \in Hosts, h \notin Senders, ClientTimer(h)
    PROVE  LET c == client[h]
               t == host'[h]
               d == client'[h]
               error == FailsAtOnce(h, Method(h), Subject(h)) IN
           /\ IsClient(d)
           /\ t.open # {} => d.state = c.state /\ d.id = c.id /\ d.id1 = c.id1 /\ ~d.timer
           /\ t.open = {} =>
                 /\ error => d.state = ServerError(c.state)
                 /\ ~error => d.state = ServerDone[c.state]
                 /\ error /\ ServerError(c.state) = "Err" => ~d.timer
                 /\ d.id = IF ~error /\ c.state = "Nothing" THEN Given(h) ELSE c.id
                 /\ d.id1 = IF ~error /\ c.state = "Listened" THEN Given(h) ELSE c.id1
<1> DEFINE c == client[h]
           t == host'[h]
           d == client'[h]
           a == Asked(h, Method(h))
           k == Given(h)
           error == FailsAtOnce(h, Method(h), Subject(h))
<1>1. /\ IsClient(c)
      /\ t.open # {} => d = a
      /\ t.open = {} => d = ServerPush(a, error, k)
  BY TimerIs DEF ClientPush
<1>2. /\ IsClient(a) /\ ~a.timer /\ a.state = c.state /\ a.id = c.id /\ a.id1 = c.id1
  BY <1>1, AskedIs, ServerAsksIs
<1> HIDE DEF a, k, error
<1>3. t.open = {} =>
         /\ IsClient(d)
         /\ d.state = IF error THEN ServerError(a.state) ELSE ServerDone[a.state]
         /\ error /\ ServerError(a.state) = "Err" => ~d.timer
         /\ d.id = IF ~error /\ a.state = "Nothing" THEN k ELSE a.id
         /\ d.id1 = IF ~error /\ a.state = "Listened" THEN k ELSE a.id1
  BY <1>1, <1>2, ServerPushIs
<1> HIDE DEF c, t, d
<1>4. t.open = {} =>
         /\ error => d.state = ServerError(c.state)
         /\ ~error => d.state = ServerDone[c.state]
  BY <1>2, <1>3
<1>5. /\ t.open # {} => IsClient(d) /\ d.state = c.state /\ d.id = c.id /\ d.id1 = c.id1 /\ ~d.timer
      /\ t.open = {} =>
            /\ IsClient(d)
            /\ error /\ ServerError(c.state) = "Err" => ~d.timer
            /\ d.id = IF ~error /\ c.state = "Nothing" THEN k ELSE c.id
            /\ d.id1 = IF ~error /\ c.state = "Listened" THEN k ELSE c.id1
  BY <1>1, <1>2, <1>3
<1> QED
  BY <1>4, <1>5 DEF c, t, d, k, error

\* It asks for a socket, and listens on it.
LEMMA ServerBegins ==
    ASSUME ClientsInv, NEW h \in Hosts, h \notin Senders, ClientTimer(h),
           client[h].state \in {"Nothing", "Start"}
    PROVE  ServerKept(h)
<1> DEFINE c == client[h]
           s == host[h]
           t == host'[h]
           d == client'[h]
           m == Method(h)
           i == Subject(h)
           k == Given(h)
           error == FailsAtOnce(h, m, i)
<1>1. PICK A : Nat \cup Ports \subseteq A /\ host \in [Hosts -> HostState(A)]
  BY DEF ClientsInv, Open, Shaped
<1>2. /\ s.open = {} /\ Orderly(s, {}) /\ Server(s, c)
      /\ Makes(h, m, i) \/ (Refused(h, m, i) /\ UNCHANGED vars)
  BY TimerIs
<1>3. /\ t.open = {} =>
            /\ error => d.state = ServerError(c.state)
            /\ ~error => d.state = ServerDone[c.state]
            /\ error /\ ServerError(c.state) = "Err" => ~d.timer
            /\ d.id = IF ~error /\ c.state = "Nothing" THEN k ELSE c.id
  BY ServerAsked
<1>4. CASE c.state = "Nothing"
  <2>1. m = "New" /\ Untouched(s)
    BY <1>2, <1>4, ServerAsksIs DEF Server, Serves
  <2>2. New(h) \/ (Refused(h, "New", i) /\ UNCHANGED vars)
    BY <1>2, <2>1, MakesIs
  <2>3. /\ t.open = {}
        /\ (error /\ Ports = {} /\ Untouched(t)) \/ (~error /\ Ready(t, k))
    BY <1>1, <2>1, <2>2, NewGives
  <2>4. ServerError("Nothing") = "Err" /\ ServerDone["Nothing"] = "Start"
    BY DEF ServerError, ServerDone
  <2> HIDE DEF t, d, error, k, s, c
  <2>5. CASE error /\ Ports = {} /\ Untouched(t)
    BY <1>3, <1>4, <2>3, <2>4, <2>5 DEF Server, ServerKept, t, d
  <2>6. CASE ~error /\ Ready(t, k)
    BY <1>3, <1>4, <2>3, <2>4, <2>6 DEF Server, ServerKept, t, d
  <2> QED
    BY <2>3, <2>5, <2>6
<1>5. CASE c.state = "Start"
  <2>1. m = "Listen" /\ i = c.id /\ Ready(s, i)
    BY <1>2, <1>5, ServerAsksIs DEF Server, Serves
  <2>2. State(s, i) = "Closed" /\ i \in Ids /\ s.owned = {i}
    BY <2>1 DEF Ready
  <2>3. ~Refused(h, m, i) /\ ~error
    BY <2>1, <2>2 DEF Refused, FailsAtOnce, Takes
  <2>4. Listen(h, i)
    BY <1>2, <2>1, <2>3, MakesIs
  <2> HIDE DEF i
  <2>5. /\ t.open = s.open /\ t.owned = s.owned /\ State(t, i) = "Listening"
        /\ t.sock[i].listenWait = s.sock[i].listenWait
        /\ \A j \in Ids \ {i} : t.sock[j] = s.sock[j]
    BY <1>1, <2>2, <2>4, ListenDoes
  <2> HIDE DEF s, t, d, error, k
  <2>6. OneListens(t, i)
    BY <2>1, <2>5, ReadyOneListens
  <2>7. d.state = "Listened" /\ d.id = i
    BY <1>2, <1>3, <1>5, <2>1, <2>3, <2>5 DEF ServerDone
  <2>8. Serves(t, d)
    BY <1>2, <2>2, <2>5, <2>6, <2>7 DEF Serves, Awaits
  <2> QED
    BY <2>7, <2>8 DEF Server, ServerKept, t, d
<1> QED
  BY <1>4, <1>5

LEMMA SameOneListens ==
    ASSUME NEW s, NEW t, NEW l, OneListens(s, l), t.owned = s.owned,
           \A j \in Ids : State(t, j) = State(s, j) /\ t.sock[j].listenWait = s.sock[j].listenWait
    PROVE  OneListens(t, l)
<1> DEFINE queue == s.sock[l].listenWait
<1>1. /\ l \in Ids /\ State(s, l) = "Listening"
      /\ \A j \in Ids \ {l} : State(s, j) # "Listening" /\ s.sock[j].listenWait = <<>>
      /\ \A m, n \in 1..Len(queue) : m # n => queue[m] # queue[n]
      /\ \A m \in 1..Len(queue) :
            /\ queue[m] \in Ids \ s.owned
            /\ State(s, queue[m]) \notin {"Nil", "Syn_Rcvd", "Listening"}
  BY DEF OneListens
<1>2. t.sock[l].listenWait = queue
  BY <1>1
<1> HIDE DEF queue
<1> QED
  BY <1>1, <1>2 DEF OneListens

\* It accepts a connection, or waits for one.
LEMMA ServerAccepts ==
    ASSUME ClientsInv, NEW h \in Hosts, h \notin Senders, ClientTimer(h),
           client[h].state = "Listened"
    PROVE  ServerKept(h)
<1> DEFINE c == client[h]
           s == host[h]
           t == host'[h]
           d == client'[h]
           m == Method(h)
           i == Subject(h)
           queue == s.sock[i].listenWait
           k == Given(h)
           error == FailsAtOnce(h, m, i)
<1>1. PICK A : Nat \cup Ports \subseteq A /\ host \in [Hosts -> HostState(A)]
  BY DEF ClientsInv, Open, Shaped
<1>2. /\ s.open = {} /\ Orderly(s, {}) /\ Server(s, c)
      /\ Makes(h, m, i) \/ (Refused(h, m, i) /\ UNCHANGED vars)
  BY TimerIs
<1>3. /\ t.open # {} => d.state = c.state /\ d.id = c.id /\ ~d.timer
      /\ t.open = {} =>
            /\ ~error => d.state = ServerDone[c.state]
            /\ d.id = IF ~error /\ c.state = "Nothing" THEN k ELSE c.id
            /\ d.id1 = IF ~error /\ c.state = "Listened" THEN k ELSE c.id1
  BY ServerAsked
<1>4. m = "Accept" /\ i = c.id /\ OneListens(s, i) /\ s.owned = {i}
  BY <1>2, ServerAsksIs DEF Server, Serves
<1>5. State(s, i) = "Listening" /\ i \in Ids
  BY <1>4 DEF OneListens
<1>6. ~Refused(h, m, i) /\ ~error
  BY <1>4, <1>5 DEF Refused, FailsAtOnce, Takes
<1>7. Accept(h, i)
  BY <1>2, <1>4, <1>6, MakesIs
<1> HIDE DEF i
<1>8. /\ \A j \in Ids \ {i} : t.sock[j] = s.sock[j]
      /\ State(t, i) = State(s, i)
      /\ \/ /\ t.open # {} /\ Parked(t, i)["accept"] # <<>> /\ t.owned = s.owned
            /\ t.sock[i].listenWait = queue
         \/ /\ queue # <<>> /\ t.open = s.open /\ t.owned = s.owned \cup {Head(queue)}
            /\ t.sock[i].listenWait = Tail(queue)
  BY <1>1, <1>2, <1>5, <1>7, AcceptDoes
<1>9. CASE /\ t.open # {} /\ Parked(t, i)["accept"] # <<>> /\ t.owned = s.owned
           /\ t.sock[i].listenWait = queue
  <2> HIDE DEF t, d, s
  <2>1. OneListens(t, i)
    <3>1. \A j \in Ids : State(t, j) = State(s, j) /\ t.sock[j].listenWait = s.sock[j].listenWait
      BY <1>8, <1>9 DEF State
    <3>2. OneListens(s, i)
      BY <1>4
    <3>3. t.owned = s.owned
      BY <1>9
    <3> QED
      BY <3>1, <3>2, <3>3, SameOneListens
  <2> HIDE DEF queue
  <2>2. d.state = "Listened" /\ d.id = i /\ ~d.timer
    BY <1>3, <1>4, <1>9
  <2>3. t.owned = {i} /\ Parked(t, i)["accept"] # <<>>
    BY <1>4, <1>9
  <2>4. Serves(t, d)
    BY <2>1, <2>2, <2>3 DEF Serves, Awaits
  <2> QED
    BY <2>2, <2>4 DEF Server, ServerKept, t, d
<1>10. CASE /\ queue # <<>> /\ t.open = s.open /\ t.owned = s.owned \cup {Head(queue)}
            /\ t.sock[i].listenWait = Tail(queue)
  <2> DEFINE l == Head(queue)
  <2>1. s \in HostState(A)
    BY <1>1
  <2>2. /\ l \in Ids \ {i} /\ State(t, l) \notin {"Nil", "Syn_Rcvd"}
        /\ OneListens(t, i)
    <3>1. /\ s.sock[i].listenWait # <<>>
          /\ t.sock[i].listenWait = Tail(s.sock[i].listenWait)
          /\ t.owned = s.owned \cup {Head(s.sock[i].listenWait)}
      BY <1>10
    <3>2. State(t, i) = State(s, i) /\ \A j \in Ids \ {i} : t.sock[j] = s.sock[j]
      BY <1>8
    <3> HIDE DEF s, t
    <3> QED
      BY <1>4, <2>1, <3>1, <3>2, TakesOneListens
  <2> HIDE DEF l
  <2>3. k = l
    <3>1. l \notin host[h].owned /\ host'[h].owned = host[h].owned \cup {l}
      BY <1>4, <1>10, <2>2 DEF l
    <3> QED
      BY <2>2, <3>1, GivenIs
  <2> HIDE DEF t, d, s, queue, k, error
  <2>4. d.state = "Reading" /\ d.id = i /\ d.id1 = l
    BY <1>2, <1>3, <1>4, <1>6, <1>10, <2>3 DEF ServerDone
  <2>5. t.open = {} /\ t.owned = {i, l}
    BY <1>2, <1>4, <1>10 DEF l
  <2>6. Serves(t, d)
    BY <2>2, <2>4, <2>5 DEF Serves, Awaits
  <2> QED
    BY <2>4, <2>6 DEF Server, ServerKept, t, d
<1> QED
  BY <1>8, <1>9, <1>10

\* It reads, and closes what it can no longer read.
LEMMA ServerReads ==
    ASSUME ClientsInv, NEW h \in Hosts, h \notin Senders, ClientTimer(h),
           client[h].state = "Reading"
    PROVE  ServerKept(h)
<1> DEFINE c == client[h]
           s == host[h]
           t == host'[h]
           d == client'[h]
           m == Method(h)
           i == Subject(h)
           error == FailsAtOnce(h, m, i)
<1>1. PICK A : Nat \cup Ports \subseteq A /\ host \in [Hosts -> HostState(A)]
  BY DEF ClientsInv, Open, Shaped
<1>2. /\ s.open = {} /\ Orderly(s, {}) /\ Server(s, c)
      /\ Makes(h, m, i) \/ (Refused(h, m, i) /\ UNCHANGED vars)
  BY TimerIs
<1>3. /\ t.open # {} => d.state = c.state /\ d.id = c.id /\ d.id1 = c.id1 /\ ~d.timer
      /\ t.open = {} =>
            /\ error => d.state = ServerError(c.state)
            /\ ~error => d.state = ServerDone[c.state]
            /\ d.id = c.id /\ d.id1 = c.id1
  BY ServerAsked
<1>4. /\ m = "Recv" /\ i = c.id1 /\ OneListens(s, c.id) /\ s.owned = {c.id, i}
      /\ i \in Ids \ {c.id} /\ State(s, i) \notin {"Nil", "Syn_Rcvd"}
  BY <1>2, ServerAsksIs DEF Server, Serves
<1>5. Recv(h, i) \/ t = s
  BY <1>2, <1>4, MakesIs DEF vars
<1>6. ServerError("Reading") = "Closing" /\ ServerDone["Reading"] = "Reading"
  BY DEF ServerError, ServerDone
<1>7. CASE Recv(h, i)
  <2> HIDE DEF i
  <2>1. Does(s, t, i) /\ Awaits(t, i, "recv")
    BY <1>1, <1>2, <1>4, <1>7, RecvDoes
  <2>2. OneListens(t, c.id)
    BY <1>4, <2>1, DoesOneListens
  <2>3. t.owned = {c.id, i} /\ State(t, i) \notin {"Nil", "Syn_Rcvd"}
    BY <1>4, <2>1 DEF Does
  <2> HIDE DEF t, d, s, c, error
  <2>4. /\ d.id = c.id /\ d.id1 = i
        /\ d.state = "Reading" \/ (d.state = "Closing" /\ t.open = {})
    BY <1>3, <1>4, <1>6 DEF c
  <2>5. Serves(t, d)
    BY <1>4, <2>1, <2>2, <2>3, <2>4 DEF Serves, Awaits
  <2> QED
    BY <2>4, <2>5 DEF Server, ServerKept, t, d
<1>8. CASE t = s
  <2> HIDE DEF t, d, s, c, error, i
  <2>1. /\ d.id = c.id /\ d.id1 = i /\ t.open = {}
        /\ d.state = "Reading" \/ d.state = "Closing"
    BY <1>2, <1>3, <1>4, <1>6, <1>8 DEF c
  <2>2. Serves(t, d)
    BY <1>4, <1>8, <2>1 DEF Serves, Awaits
  <2> QED
    BY <2>1, <2>2 DEF Server, ServerKept, t, d
<1> QED
  BY <1>5, <1>7, <1>8

\* It closes the connection, and gives up its socket once that is closed.
LEMMA ServerCloses ==
    ASSUME ClientsInv, NEW h \in Hosts, h \notin Senders, ClientTimer(h),
           client[h].state = "Closing"
    PROVE  ServerKept(h)
<1> DEFINE c == client[h]
           s == host[h]
           t == host'[h]
           d == client'[h]
           m == Method(h)
           i == Subject(h)
           error == FailsAtOnce(h, m, i)
<1>1. PICK A : Nat \cup Ports \subseteq A /\ host \in [Hosts -> HostState(A)]
  BY DEF ClientsInv, Open, Shaped
<1>2. /\ s.open = {} /\ Orderly(s, {}) /\ Server(s, c)
      /\ Makes(h, m, i) \/ (Refused(h, m, i) /\ UNCHANGED vars)
  BY TimerIs
<1>3. /\ t.open # {} => d.state = c.state /\ d.id = c.id /\ d.id1 = c.id1 /\ ~d.timer
      /\ t.open = {} =>
            /\ error => d.state = ServerError(c.state)
            /\ ~error => d.state = ServerDone[c.state]
            /\ d.id = c.id /\ d.id1 = c.id1
  BY ServerAsked
<1>4. /\ m = "Close" /\ i = c.id1 /\ OneListens(s, c.id) /\ s.owned = {c.id, i}
      /\ i \in Ids \ {c.id} /\ State(s, i) \notin {"Nil", "Syn_Rcvd"}
  BY <1>2, ServerAsksIs DEF Server, Serves
<1>5. State(s, i) # "Listening" /\ s.sock[i].listenWait = <<>> /\ State(s, i) \in SocketStates
  BY <1>1, <1>4, SockFields DEF OneListens
<1>6. Close(h, i) \/ (t = s /\ State(s, i) = "Closed")
  BY <1>2, <1>4, <1>5, MakesIs DEF vars, Refused, Takes
<1>7. ServerError("Closing") = "AcceptClose" /\ ServerDone["Closing"] = "AcceptClose"
  BY DEF ServerError, ServerDone
<1>8. /\ OneListens(t, c.id) /\ t.owned = {c.id, i}
      /\ State(t, i) \notin {"Nil", "Syn_Rcvd"}
      /\ (State(t, i) = "Closed" /\ t.open = {}) \/ Parked(t, i)["close"] # <<>>
  <2> HIDE DEF i
  <2>1. CASE Close(h, i)
    <3>1. /\ Does(s, t, i)
          /\ (State(t, i) = "Closed" /\ t.open = {}) \/ Parked(t, i)["close"] # <<>>
      BY <1>1, <1>2, <1>4, <1>5, <2>1, CloseDoes
    <3>2. OneListens(t, c.id)
      BY <1>4, <3>1, DoesOneListens
    <3> QED
      BY <1>4, <3>1, <3>2 DEF Does
  <2>2. CASE t = s /\ State(s, i) = "Closed"
    <3> HIDE DEF t, s
    <3> QED
      BY <1>2, <1>4, <2>2
  <2> QED
    BY <1>6, <2>1, <2>2
<1> HIDE DEF t, d, s, c, error, i, m
<1>9. CASE t.open # {}
  <2>1. /\ d.id = c.id /\ d.id1 = i /\ d.state = "Closing" /\ Parked(t, i)["close"] # <<>>
    BY <1>3, <1>4, <1>8, <1>9 DEF c
  <2>2. Serves(t, d)
    BY <1>4, <1>8, <2>1 DEF Serves, Awaits
  <2> QED
    BY <2>1, <2>2 DEF Server, ServerKept, t, d
<1>10. CASE t.open = {}
  <2>1. d.id = c.id /\ d.id1 = i /\ d.state = "AcceptClose"
    BY <1>3, <1>4, <1>7, <1>10 DEF c
  <2>2. Tidy(t) => State(t, i) = "Closed"
    <3>1. Tidy(t) => Idle(t)
      BY <1>10 DEF Tidy, Busy
    <3>2. i \in Ids /\ "close" \in Kinds
      BY <1>4 DEF Kinds
    <3>3. Idle(t) => Parked(t, i)["close"] = <<>>
      BY <3>2 DEF Idle
    <3> QED
      BY <1>8, <3>1, <3>3
  <2>3. Tidy(t) => Serves(t, d)
    BY <1>4, <1>8, <1>10, <2>1, <2>2 DEF Serves, Awaits
  <2> QED
    BY <2>1, <2>3 DEF Server, ServerKept, t, d
<1> QED
  BY <1>9, <1>10

LEMMA ServerFrees ==
    ASSUME ClientsInv, NEW h \in Hosts, h \notin Senders, ClientTimer(h),
           client[h].state = "AcceptClose"
    PROVE  ServerKept(h)
<1> DEFINE c == client[h]
           s == host[h]
           t == host'[h]
           d == client'[h]
           m == Method(h)
           i == Subject(h)
           error == FailsAtOnce(h, m, i)
<1>1. PICK A : Nat \cup Ports \subseteq A /\ host \in [Hosts -> HostState(A)]
  BY DEF ClientsInv, Open, Shaped
<1>2. /\ s.open = {} /\ Server(s, c)
      /\ Makes(h, m, i) \/ (Refused(h, m, i) /\ UNCHANGED vars)
  BY TimerIs
<1>3. /\ t.open = {} =>
            /\ ~error => d.state = ServerDone[c.state]
            /\ d.id = c.id /\ d.id1 = c.id1
  BY ServerAsked
<1>4. /\ m = "Free" /\ i = c.id1 /\ OneListens(s, c.id) /\ s.owned = {c.id, i}
      /\ i \in Ids \ {c.id} /\ State(s, i) = "Closed"
  BY <1>2, ServerAsksIs DEF Server, Serves
<1>5. ~Refused(h, m, i) /\ ~error
  BY <1>4 DEF Refused, FailsAtOnce, Takes
<1>6. Free(h, i)
  BY <1>2, <1>4, <1>5, MakesIs
<1> HIDE DEF i
<1>7. /\ t.open = s.open /\ t.owned = s.owned \ {i} /\ State(t, i) = "Nil"
      /\ t.sock[i].listenWait = s.sock[i].listenWait
      /\ \A j \in Ids \ {i} : t.sock[j] = s.sock[j]
  BY <1>1, <1>4, <1>6, FreeDoes
<1>8. OneListens(t, c.id)
  BY <1>4, <1>7, FreesOneListens
<1> HIDE DEF t, d, s, c, error
<1>9. t.open = {} /\ t.owned = {c.id}
  BY <1>2, <1>4, <1>7
<1>10. d.state = "Listened" /\ d.id = c.id
  BY <1>3, <1>5, <1>9 DEF ServerDone, c
<1>11. Serves(t, d)
  BY <1>8, <1>9, <1>10 DEF Serves, Awaits
<1> QED
  BY <1>10, <1>11 DEF Server, ServerKept, t, d

LEMMA ServerTimer ==
    ASSUME ClientsInv, NEW h \in Hosts, h \notin Senders, ClientTimer(h)
    PROVE  ServerKept(h)
<1>1. Server(host[h], client[h]) /\ client[h].state # "Err"
  BY TimerIs
<1>2. client[h].state \in {"Nothing", "Start", "Listened", "Reading", "Closing", "AcceptClose"}
  BY <1>1 DEF Server, Serves
<1> QED
  BY <1>2, ServerBegins, ServerAccepts, ServerReads, ServerCloses, ServerFrees

-----------------------------------------------------------------------------
(* The invariant of the clients is one.                                    *)

\* A client's timer keeps it.
LEMMA TimerFits ==
    ASSUME ClientsInv, NEW h \in Hosts, ClientTimer(h)
    PROVE  ClientsInv'
<1> DEFINE t == host'[h]
           d == client'[h]
<1>1. Open'
  <2>1. [Next]_vars
    BY TimerIsApp DEF Next
  <2> QED
    BY <2>1, OpenNext DEF ClientsInv
<1>2. /\ h \notin console /\ UNCHANGED console /\ client' = [g \in Hosts |-> client'[g]]
      /\ \A g \in Hosts \ {h} : host'[g] = host[g] /\ client'[g] = client[g]
  BY TimerIs, TimerLands
<1>3. /\ console \subseteq Hosts
      /\ \A g \in console : ~client[g].timer /\ client[g].state # "Err"
      /\ \A g \in Hosts \ console : Fits(g, host[g], client[g])
  BY DEF ClientsInv, ClientsFit
<1>4. Fits(h, t, d)
  <2>1. Orderly(t, {})
    BY TimerLands
  <2>2. t.crashed \/ Tidy(t)
    BY <2>1 DEF Orderly
  <2>3. CASE h \in Senders
    <3>1. /\ IsClient(d) /\ Sender(t, d) /\ (t.open # {} => ~d.timer)
          /\ d.state = "Err" => Ports = {} /\ ~d.timer
      BY <2>3, SenderTimer
    <3> HIDE DEF t, d
    <3> QED
      BY <2>1, <2>3, <3>1 DEF Fits
  <2>4. CASE h \notin Senders
    <3>1. ServerKept(h)
      BY <2>4, ServerTimer
    <3>2. (Tidy(t) => Server(t, d)) /\ (d.state = "Err" => Ports = {} /\ ~d.timer)
      BY <3>1 DEF ServerKept
    <3>3. IsClient(d) /\ (t.open # {} => ~d.timer)
      BY <2>4, ServerAsked
    <3> HIDE DEF t, d
    <3> QED
      BY <2>1, <2>2, <2>4, <3>2, <3>3 DEF Fits
  <2> QED
    BY <2>3, <2>4
<1> HIDE DEF t, d
<1>5. \A g \in console' : ~client'[g].timer /\ client'[g].state # "Err"
  BY <1>2, <1>3
<1>6. \A g \in Hosts \ console' : Fits(g, host'[g], client'[g])
  BY <1>2, <1>3, <1>4 DEF t, d
<1>7. ClientsFit'
  BY <1>2, <1>3, <1>5, <1>6, FitPrimed
<1> QED
  BY <1>1, <1>7 DEF ClientsInv

LEMMA ClientsStart == ClientsInit => ClientsInv
<1> SUFFICES ASSUME ClientsInit
             PROVE  ClientsInv
  OBVIOUS
<1>1. Open
  BY OpenInit DEF ClientsInit
<1>2. console \subseteq Hosts
  BY DEF ClientsInit
<1>3. /\ client = [h \in Hosts |-> client[h]]
      /\ \A h \in Hosts :
            client[h] = [state |-> "Nothing", timer |-> h \notin console,
                         id |-> 0, id1 |-> 0, offset |-> 0]
  BY DEF ClientsInit
<1>4. ASSUME NEW h \in console
      PROVE  ~client[h].timer /\ client[h].state # "Err"
  <2>1. h \in Hosts
    BY <1>2, <1>4
  <2>2. client[h].timer = (h \notin console) /\ client[h].state = "Nothing"
    BY <1>3, <2>1
  <2>3. ~client[h].timer
    BY <1>4, <2>2
  <2> QED
    BY <2>2, <2>3
<1>5. ASSUME NEW h \in Hosts \ console
      PROVE  Fits(h, host[h], client[h])
  <2>1. host[h] = EmptyHost
    BY DEF ClientsInit, Init
  <2>2. \A i \in Ids, k \in Kinds : Parked(EmptyHost, i)[k] = <<>>
    BY DEF Kinds, Parked, Waiting, EmptyHost, EmptySocket, EmptyBlock
  <2>3. Idle(EmptyHost) /\ Same(EmptyHost, EmptyHost)
    BY <2>2 DEF Idle, EmptyHost, Same
  <2>4. Orderly(EmptyHost, {})
    BY <2>3, IdleOrderly
  <2>5. /\ Untouched(EmptyHost) /\ EmptyHost.open = {}
        /\ \A j \in Ids : /\ State(EmptyHost, j) # "Listening"
                          /\ EmptyHost.sock[j].listenWait = <<>>
    BY DEF Untouched, EmptyHost, EmptySocket, State
  <2>6. IsClient(client[h]) /\ client[h].state = "Nothing"
    BY <1>3 DEF IsClient
  <2> QED
    BY <2>1, <2>4, <2>5, <2>6 DEF Fits, Sender, Server
<1> QED
  BY <1>1, <1>2, <1>3, <1>4, <1>5 DEF ClientsInv, ClientsFit

LEMMA ClientsStay ==
    ASSUME ClientsInv, UNCHANGED clientVars
    PROVE  ClientsInv'
<1>1. UNCHANGED vars /\ UNCHANGED host /\ UNCHANGED client /\ UNCHANGED console
  BY DEF clientVars, vars
<1>2. Open'
  BY <1>1, OpenNext DEF ClientsInv
<1>3. /\ console' \subseteq Hosts
      /\ client' = [h \in Hosts |-> client'[h]]
      /\ \A h \in console' : ~client'[h].timer /\ client'[h].state # "Err"
      /\ \A h \in Hosts \ console' : Fits(h, host'[h], client'[h])
  BY <1>1 DEF ClientsInv, ClientsFit
<1>4. ClientsFit'
  BY <1>3, FitPrimed
<1> QED
  BY <1>2, <1>4 DEF ClientsInv

LEMMA ClientsStep == ClientsInv /\ [ClientsNext]_clientVars => ClientsInv'
BY TimerFits, ElsewhereFits, ClientsStay DEF ClientsNext

LEMMA ClientsAlways == ClientsSpec => []ClientsInv
BY ClientsStart, ClientsStep, PTL DEF ClientsSpec

\* A client's timer goes off only while its host has no request open, so that
\* run_timer makes no second one and push is never given the answer of another.
THEOREM ClientsCallOnce == ClientsSpec => []OneCallEach
<1>1. ClientsInv => OneCallEach
  BY DEF ClientsInv, ClientsFit, Fits, OneCallEach
<1> QED
  BY <1>1, ClientsAlways, PTL

\* Where there is a port to be had, no client is ever told Error where it
\* expects none: not for New, Listen, Accept or Free, whatever the other side
\* and the network do.
THEOREM ClientsNeverGiveUp ==
    ASSUME Ports # {}
    PROVE  ClientsSpec => []NeverGivesUp
<1>1. ClientsInv => NeverGivesUp
  BY DEF ClientsInv, ClientsFit, Fits, NeverGivesUp
<1> QED
  BY <1>1, ClientsAlways, PTL

\* Where all hosts run one of the two programs, no request is lost and none is
\* answered twice, however many an application might have open.
THEOREM ClientsKeepRequests == ClientsSpec => [](console = {} => RequestsHeld)
<1>1. ClientsInv => (console = {} => RequestsHeld)
  <2> SUFFICES ASSUME ClientsInv, console = {}, NEW h \in Hosts, ~host[h].crashed
               PROVE  LET places == {c \in Ids \X (1..(2 + 3 * MaxOpen)) :
                                        /\ c[2] <= Len(Held(h, c[1]))
                                        /\ Held(h, c[1])[c[2]] # Null}
                      IN  /\ Cardinality(places) = Cardinality(host[h].open)
                          /\ {Held(h, c[1])[c[2]] : c \in places} = host[h].open
    BY DEF RequestsHeld
  <2>1. PICK A : host[h] \in HostState(A)
    BY DEF ClientsInv, Open, Shaped
  <2>2. Tidy(host[h])
    BY DEF ClientsInv, ClientsFit, Fits, Orderly
  <2> QED
    BY <2>1, <2>2, TidyHeld
<1> QED
  BY <1>1, ClientsAlways, PTL

\* The two programs keep to what TcpFrontend assumes of an application: they
\* use sockets they were given and have not freed, and listen on a slot that
\* was never a connection.  What is proved of the frontend therefore holds of
\* it with these programs.
THEOREM ClientsUseFrontend == ClientsSpec => ImplementsFrontend
<1>1. ClientsInit => Init
  BY DEF ClientsInit
<1>2. ClientsInv /\ [ClientsNext]_clientVars => [Next]_vars
  BY TimerIsApp, ElsewhereIsNext DEF ClientsNext, clientVars, vars, Next
<1> QED
  BY <1>1, <1>2, ClientsAlways, PTL DEF ClientsSpec, Spec, ImplementsFrontend
=============================================================================
