------------------------------- MODULE MCUdp -------------------------------
(* TLC instances of Udp.                                                   *)
EXTENDS Udp
=============================================================================
