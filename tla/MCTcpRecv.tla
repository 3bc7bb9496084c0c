----------------------------- MODULE MCTcpRecv -----------------------------
(* TLC instances of TcpRecv.                                               *)
EXTENDS TcpRecv

CONSTANTS GoodSizes,   \* of one or two messages
          FewSizes     \* of three messages

\* A parser that refuses or announces a negative size, and a size too large.
BadSizes == {-1, MaxUser + 1}

\* The last message may be one the template refuses.
MCStreams ==
  LET Good(S, n) == [1..n -> S]
      Ended(S, n) == {Append(s, b) : s \in Good(S, n), b \in BadSizes}
  IN  UNION {Good(GoodSizes, n) : n \in 1..2} \cup Good(FewSizes, 3)
        \cup UNION {Ended(GoodSizes, n) : n \in 0..1} \cup Ended(FewSizes, 2)
=============================================================================
