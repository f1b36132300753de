----------------------------- MODULE MCTcpRecv -----------------------------
(* TcpRecv on a small instance: a ring of flags that wraps twice and a      *)
(* buffer that fills before the ring does.                                 *)
EXTENDS TcpRecv
=============================================================================
