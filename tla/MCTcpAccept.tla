---------------------------- MODULE MCTcpAccept ----------------------------
(* TLC instances of TcpAccept.                                             *)
EXTENDS TcpAccept
=============================================================================
