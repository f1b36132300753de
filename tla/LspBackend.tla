----------------------------- MODULE LspBackend -----------------------------
(***************************************************************************)
(* The LspBackend of one router, self, among frontends that accept any     *)
(* announcements in any order: those of LspFrontend are some of them.      *)
(* Announcements are queued by push and worked off one by one when Click   *)
(* runs the task; each replaces what its router announced before, and the  *)
(* shortest paths are computed again.                                      *)
(***************************************************************************)
EXTENDS LspRoutes

CONSTANTS
    self,      \* the router
    Lists,     \* Lists[r]: what r may announce
    MaxQueue   \* bound: announcements in the queue; the source has none

ASSUME ListsAssumption ==
    /\ self \in Routers /\ MaxQueue \in Nat
    /\ \A r \in Routers : Lists[r] \subseteq Seq(Routers \cup {NoAddress})

VARIABLE back

BackInit == back = EmptyBack

Push(r, l) ==
    /\ Len(back.que) < MaxQueue
    /\ back' = Queue(back, [ip |-> r, entry |-> l])

RunTask ==
    /\ back.scheduled
    /\ back' = TaskRun(back, self)

BackNext == RunTask \/ \E r \in Routers : \E l \in Lists[r] : Push(r, l)

BackSpec == BackInit /\ [][BackNext]_back

-----------------------------------------------------------------------------
(* Properties.                                                             *)

Known == {back.conn[i].ip : i \in DOMAIN back.conn}
EntryOf(r) == back.conn[Min(Places(back.conn, r))].entry

\* The shape of the tables: lsp_backend.hh:14-23, infra_async.hh:12-13.  No
\* router is in the connection table twice, and a first hop is a port of self.
BackTypeOK ==
    /\ back.que \in Seq([ip : Routers, entry : Seq(Routers \cup {NoAddress})])
    /\ back.scheduled \in BOOLEAN
    /\ Len(back.dis) = Len(back.conn)
    /\ \A i, j \in DOMAIN back.conn : back.conn[i].ip = back.conn[j].ip => i = j
    /\ \A i \in DOMAIN back.dis :
        /\ back.dis[i].d \in 0..TTL
        /\ back.dis[i].hop # NoPort => back.dis[i].hop \in DOMAIN EntryOf(self)


\* The port given for a router is the first of a shortest path to it over the
\* links announced, and there is one exactly when a packet can get that far
\* (lsp_backend.cc:62-112, where infinity is IpTTL).  The table has paths of
\* one-sided links and links of routers that are gone as well.
RoutesShortest ==
    \A r \in Known \ {self} :
        LET far == IF self \in Known THEN Distance(back.conn, self, r) ELSE TTL
            port == PortTo(back, r)
        IN  IF far = TTL THEN port = NoPort
            ELSE /\ port \in DOMAIN EntryOf(self)
                 /\ EntryOf(self)[port] \in Known
                 /\ Distance(back.conn, EntryOf(self)[port], r) = far - 1

\* An announcement never waits while the task is not scheduled, so that Click
\* works all of them off (infra_async.cc:12-26).
NoneForgotten == back.que # <<>> <=> back.scheduled
=============================================================================
