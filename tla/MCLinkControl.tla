--------------------------- MODULE MCLinkControl ---------------------------
(* TLC instances of LinkControl.                                           *)
EXTENDS LinkControl

\* Two contexts of one size and one of another.
MCContexts == {[size |-> 1, data |-> "x"], [size |-> 1, data |-> "y"],
               [size |-> 2, data |-> "x"]}
=============================================================================
