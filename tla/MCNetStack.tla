----------------------------- MODULE MCNetStack ----------------------------
(* TLC instances of NetStack.                                              *)
EXTENDS NetStack
=============================================================================
