----------------------------- MODULE MCTcpLink -----------------------------
(* TLC instance of TcpLink: the module takes its constants from the cfg.   *)
EXTENDS TcpLink
=============================================================================
