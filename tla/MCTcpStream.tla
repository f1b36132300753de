---------------------------- MODULE MCTcpStream ----------------------------
(* TcpStream with the constants of MCTcpStream*.cfg: buffers of a few       *)
(* bytes instead of 65536, segments of one or two instead of 1420.          *)
EXTENDS TcpStream
=============================================================================
