---------------------------- MODULE SendChannel ----------------------------
(***************************************************************************)
(* What the send side of one TCP link promises to the caller of            *)
(* tcp_write: a bounded FIFO in front of a transmit slot that holds at     *)
(* most one packet.  A packet is accepted at the tail, taken from the head *)
(* only when the slot is free, put on the wire at most once, and never     *)
(* after the link is gone.  Releasing a packet that was not put on the     *)
(* wire is possible only when the link stops being up.                     *)
(*                                                                         *)
(* TcpSend implements this module; the mapping is TcpSend!Channel.         *)
(***************************************************************************)
EXTENDS Naturals, Sequences

CONSTANTS Packets,   \* the packets the callers may hand over
          Capacity   \* how many packets may wait for the slot

VARIABLES link,      \* "up", "closing" or "down"
          waiting,   \* the packets accepted and not yet taken
          slot,      \* the packet being transmitted: {} or {p}
          accepted,  \* history: every packet accepted, in order
          wire       \* history: every packet put on the wire, in order

cvars == <<link, waiting, slot, accepted, wire>>

Posted(p) == \E i \in 1..Len(wire) : wire[i] = p

CInit ==
  /\ link = "up"
  /\ waiting = <<>>
  /\ slot = {}
  /\ accepted = <<>>
  /\ wire = <<>>

\* A packet joins the tail; a caller that still holds a reference may do so
\* even after the link began to close.
Accept(p) ==
  /\ link # "down"
  /\ Len(waiting) < Capacity
  /\ \A i \in 1..Len(accepted) : accepted[i] # p
  /\ waiting' = Append(waiting, p)
  /\ accepted' = Append(accepted, p)
  /\ UNCHANGED <<link, slot, wire>>

Take ==
  /\ slot = {}
  /\ waiting # <<>>
  /\ slot' = {Head(waiting)}
  /\ waiting' = Tail(waiting)
  /\ UNCHANGED <<link, accepted, wire>>

Post(p) ==
  /\ link # "down"
  /\ slot = {p}
  /\ ~Posted(p)
  /\ wire' = Append(wire, p)
  /\ UNCHANGED <<link, waiting, slot, accepted>>

\* The transmission is over: the slot is free again.
Release(p) ==
  /\ slot = {p}
  /\ Posted(p)
  /\ slot' = {}
  /\ UNCHANGED <<link, waiting, accepted, wire>>

\* The link starts to close.
Close ==
  /\ link = "up"
  /\ link' = "closing"
  /\ UNCHANGED <<waiting, slot, accepted, wire>>

\* The link is gone: what waits is discarded.
Discard ==
  /\ link' = "down"
  /\ waiting' = <<>>
  /\ UNCHANGED <<slot, accepted, wire>>

\* The slot loses its packet because the link fails, or had failed before.
Fail(p) ==
  /\ slot = {p}
  /\ slot' = {}
  /\ \/ /\ link \in {"up", "closing"}
        /\ link' = "closing"
        /\ UNCHANGED waiting
     \/ /\ link' = "down"
        /\ waiting' = <<>>
  /\ UNCHANGED <<accepted, wire>>

CNext ==
  \/ Take
  \/ Close
  \/ Discard
  \/ \E p \in Packets : Accept(p) \/ Post(p) \/ Release(p) \/ Fail(p)

CSpec == CInit /\ [][CNext]_cvars
=============================================================================
