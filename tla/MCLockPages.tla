---------------------------- MODULE MCLockPages ----------------------------
(* TLC instances of LockPages.                                             *)
EXTENDS LockPages
=============================================================================
