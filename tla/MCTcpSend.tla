----------------------------- MODULE MCTcpSend -----------------------------
(* TLC instances of TcpSend.                                               *)
EXTENDS TcpSend

=============================================================================
