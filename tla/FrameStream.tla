---------------------------- MODULE FrameStream ----------------------------
(***************************************************************************)
(* What the receive side of a TCP link with a protocol template promises:  *)
(* the messages framed in the peer's byte stream are given to the callback *)
(* once each, in order, as soon as their last byte arrived and before more *)
(* bytes are asked for; a message the template refuses ends the link.      *)
(*                                                                         *)
(* TcpRecv implements this module; the mapping is TcpRecv!Frames.          *)
(***************************************************************************)
EXTENDS Integers, Sequences

CONSTANTS Header,     \* the length of a message header (cb_)
          MaxUser     \* the longest user data accepted

VARIABLES sizes,      \* the user data sizes the peer frames into the stream
          arrived,    \* how many bytes of the stream arrived
          delivered,  \* how many messages were delivered
          link        \* "up" or "down"

fvars == <<sizes, arrived, delivered, link>>

Good(k) == sizes[k] \in 0..MaxUser

\* Start[k] is the number of bytes in front of message k.
Start[k \in 1..(Len(sizes) + 1)] ==
  IF k = 1 THEN 0
  ELSE Start[k - 1] + Header + (IF Good(k - 1) THEN sizes[k - 1] ELSE 0)

Total == Start[Len(sizes) + 1]

Complete(k) == Good(k) /\ Start[k + 1] <= arrived

\* The header of message k arrived and is refused.
Refused(k) == ~Good(k) /\ Start[k] + Header <= arrived

FInit ==
  /\ arrived = 0
  /\ delivered = 0
  /\ link = "up"

\* More bytes arrive, only after everything complete was dealt with.
Arrive(n) ==
  /\ link = "up"
  /\ arrived + n <= Total
  /\ delivered < Len(sizes) =>
       ~Complete(delivered + 1) /\ ~Refused(delivered + 1)
  /\ arrived' = arrived + n
  /\ UNCHANGED <<sizes, delivered, link>>

\* A callback that is under way may end after the link went down.
Deliver ==
  /\ delivered < Len(sizes)
  /\ Complete(delivered + 1)
  /\ delivered' = delivered + 1
  /\ UNCHANGED <<sizes, arrived, link>>

Down ==
  /\ link' = "down"
  /\ UNCHANGED <<sizes, arrived, delivered>>

FNext == Deliver \/ Down \/ \E n \in 1..Total : Arrive(n)

FSpec == FInit /\ [][FNext]_fvars
=============================================================================
