----------------------------- MODULE MCTcpSend -----------------------------
(* TcpSend on a small instance: a round queue that fills and wraps, a       *)
(* congestion window that reaches three segments.                          *)
EXTENDS TcpSend
=============================================================================
