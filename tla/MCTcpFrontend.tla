--------------------------- MODULE MCTcpFrontend ---------------------------
(* TcpFrontend with a host that calls, a, and one that answers, b.         *)
EXTENDS TcpFrontend

MCMethods ==
    [h \in Hosts |->
        IF h = "a" THEN {"New", "Connect", "Send", "Close", "Free"}
        ELSE {"New", "Listen", "Accept", "Recv", "Close", "Free"}]
=============================================================================
