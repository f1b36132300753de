---------------------------- MODULE MCTcpClients ----------------------------
(* TcpClients with SocketSender or a console on a, SocketServer or a       *)
(* console on b.                                                           *)
EXTENDS TcpClients

MCMethods ==
    [h \in Hosts |->
        IF h = "a" THEN {"New", "Connect", "Send", "Close", "Free"}
        ELSE {"New", "Listen", "Accept", "Recv", "Close", "Free"}]
=============================================================================
