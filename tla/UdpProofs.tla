----------------------------- MODULE UdpProofs -----------------------------
(***************************************************************************)
(* Theorems about Udp, for any finite set of threads, any hosts, ports and *)
(* groups and any number of awakenings.  UdpInv is the inductive           *)
(* invariant; each action preserves it by a lemma of its own.              *)
(***************************************************************************)
EXTENDS Udp, TLAPS, FiniteSetTheorems

-----------------------------------------------------------------------------
(* The threads in a call and the references they hold.                     *)

\* The threads in a call are finitely many.
LEMMA InCallFinite == IsFiniteSet(InCall) /\ Cardinality(InCall) \in Nat
<1>1. InCall \subseteq Threads
  BY DEF InCall
<1> QED
  BY <1>1, UdpAssumption, FS_Subset, FS_CardinalityType

Outside == {"idle", "array", "post"}

\* A thread that enters a call (objrefr, objreff) adds one to the count.
LEMMA EnterCall ==
  ASSUME TypeOK, NEW t \in Threads, NEW s, s \notin Outside,
         pc[t] \in Outside, pc' = [pc EXCEPT ![t] = s]
  PROVE  Cardinality(InCall') = Cardinality(InCall) + 1
<1>1. InCall' = InCall \cup {t} /\ t \notin InCall
  BY DEF TypeOK, InCall, Outside
<1> QED
  BY <1>1, InCallFinite, FS_AddElement

\* A thread that leaves its call (objdefr) takes one off.
LEMMA LeaveCall ==
  ASSUME TypeOK, NEW t \in Threads, pc[t] \notin Outside,
         pc' = [pc EXCEPT ![t] = "idle"]
  PROVE  /\ Cardinality(InCall') = Cardinality(InCall) - 1
         /\ Cardinality(InCall') \in Nat
<1>1. InCall' = InCall \ {t} /\ t \in InCall
  BY DEF TypeOK, InCall, Outside
<1> QED
  BY <1>1, InCallFinite, FS_RemoveElement, FS_CardinalityType

\* A step inside a call, or outside any, keeps the count.
LEMMA StayInCall ==
  ASSUME TypeOK, NEW t \in Threads, NEW s,
         pc[t] \in Outside <=> s \in Outside, pc' = [pc EXCEPT ![t] = s]
  PROVE  InCall' = InCall
BY DEF TypeOK, InCall, Outside

\* A thread in a call holds a reference, so the object is loaded.
LEMMA CallHolds ==
  ASSUME UdpInv, NEW t \in Threads, pc[t] \notin Outside
  PROVE  refs > 0 /\ stat # "unloaded" /\ stat # "none"
<1>1. InCall # {}
  BY DEF InCall, Outside
<1>2. Cardinality(InCall) # 0
  BY <1>1, InCallFinite, FS_EmptySet
<1> QED
  BY <1>2, InCallFinite DEF UdpInv, TypeOK, RefsAccounted, NotCreated, Outside

\* So does the I/O thread in a dispatch.
LEMMA DispatchHolds ==
  ASSUME UdpInv, io # "wait"
  PROVE  refs > 0 /\ stat # "unloaded" /\ stat # "none"
BY InCallFinite DEF UdpInv, TypeOK, RefsAccounted, NotCreated

-----------------------------------------------------------------------------
(* One lemma per action, or per form of a call.                            *)

\* Nothing exists yet.
LEMMA InitInv == Init => UdpInv
<1> SUFFICES ASSUME Init PROVE UdpInv
  OBVIOUS
<1>1. InCall = {}
  BY DEF Init, InCall
<1>2. TypeOK
  BY DEF Init, TypeOK, GroupSteps, ChangeSteps
<1>3. RefsAccounted
  BY <1>1, FS_EmptySet DEF Init, RefsAccounted
<1>4. NotCreated /\ KeepsReceiving /\ RaiseArgs /\ GroupCallAlone /\ GroupTracked
  BY DEF Init, NotCreated, GroupSteps, ChangeSteps, KeepsReceiving, RaiseArgs,
     GroupCallAlone, GroupTracked
<1> QED
  BY <1>2, <1>3, <1>4 DEF UdpInv

\* A call that takes its reference and goes on keeps the invariant.
LEMMA CallInv ==
  ASSUME UdpInv, NEW t \in Threads, NEW s \in {"return", "write"}, Call(t, s)
  PROVE  UdpInv'
<1>1. TypeOK'
  BY DEF UdpInv, TypeOK, GroupSteps, ChangeSteps, RefsAccounted, Call,
     objrefr, CanRefer, Object, Goto, linkvars, grpvars, callvars, constvars,
     pipevars, recvvars
<1>2. NotCreated'
  BY DEF UdpInv, TypeOK, GroupSteps, ChangeSteps, NotCreated, Call, objrefr,
     CanRefer, Object, Goto, linkvars, grpvars, callvars, constvars, pipevars,
     recvvars
<1>3. RefsAccounted'
  <2>1. Cardinality(InCall') = Cardinality(InCall) + 1
    BY EnterCall DEF UdpInv, Outside, Call, objrefr, CanRefer, Goto, callvars
  <2> QED
    BY <2>1, InCallFinite DEF UdpInv, TypeOK, NotCreated, RefsAccounted, Call,
       objrefr, CanRefer, Object, Goto, linkvars, grpvars, callvars,
       constvars, pipevars, recvvars
<1>4. KeepsReceiving'
  BY DEF UdpInv, TypeOK, NotCreated, KeepsReceiving, Call, objrefr, CanRefer,
     Object, Goto, linkvars, grpvars, callvars, constvars, pipevars, recvvars
<1>5. GroupCallAlone'
  BY DEF UdpInv, TypeOK, GroupSteps, ChangeSteps, GroupCallAlone, Call,
     objrefr, CanRefer, Object, Goto, linkvars, grpvars, callvars, constvars,
     pipevars, recvvars
<1>6. GroupTracked'
  BY DEF UdpInv, TypeOK, GroupSteps, ChangeSteps, GroupCallAlone,
     GroupTracked, Call, objrefr, CanRefer, Object, Goto, linkvars, grpvars,
     callvars, constvars, pipevars, recvvars
<1>7. RaiseArgs'
  BY DEF UdpInv, TypeOK, GroupSteps, ChangeSteps, RaiseArgs, Call, objrefr,
     CanRefer, Object, Goto, linkvars, grpvars, callvars, constvars, pipevars,
     recvvars
<1> QED
  BY <1>1, <1>2, <1>3, <1>4, <1>5, <1>6, <1>7 DEF UdpInv

\* The end of a call keeps it: the reference dropped was counted.
LEMMA ReturnInv ==
  ASSUME UdpInv, NEW t \in Threads, Return(t)
  PROVE  UdpInv'
<1>0. refs > 0 /\ stat # "unloaded"
  BY CallHolds DEF Return, Outside
<1>1. TypeOK'
  BY <1>0 DEF UdpInv, TypeOK, GroupSteps, ChangeSteps, RefsAccounted, Return,
     objdefr, Object, Goto, linkvars, grpvars, callvars, constvars, pipevars,
     recvvars
<1>2. NotCreated'
  BY DEF UdpInv, TypeOK, GroupSteps, ChangeSteps, NotCreated, Return, objdefr,
     Object, Goto, linkvars, grpvars, callvars, constvars, pipevars, recvvars
<1>3. RefsAccounted'
  <2>1. /\ Cardinality(InCall') = Cardinality(InCall) - 1
        /\ Cardinality(InCall') \in Nat
    BY LeaveCall DEF UdpInv, Outside, Return, Goto, callvars
  <2> QED
    BY <2>1, InCallFinite DEF UdpInv, TypeOK, NotCreated, RefsAccounted,
       Return, objdefr, Object, Goto, linkvars, grpvars, callvars, constvars,
       pipevars, recvvars
<1>4. KeepsReceiving'
  BY DEF UdpInv, TypeOK, NotCreated, KeepsReceiving, Return, objdefr, Object,
     Goto, linkvars, grpvars, callvars, constvars, pipevars, recvvars
<1>5. GroupCallAlone'
  BY DEF UdpInv, TypeOK, GroupSteps, ChangeSteps, GroupCallAlone, Return,
     objdefr, Object, Goto, linkvars, grpvars, callvars, constvars, pipevars,
     recvvars
<1>6. GroupTracked'
  BY DEF UdpInv, TypeOK, GroupSteps, ChangeSteps, GroupCallAlone,
     GroupTracked, Return, objdefr, Object, Goto, linkvars, grpvars, callvars,
     constvars, pipevars, recvvars
<1>7. RaiseArgs'
  BY DEF UdpInv, TypeOK, GroupSteps, ChangeSteps, RaiseArgs, Return, objdefr,
     Object, Goto, linkvars, grpvars, callvars, constvars, pipevars, recvvars
<1> QED
  BY <1>1, <1>2, <1>3, <1>4, <1>5, <1>6, <1>7 DEF UdpInv

\* Creation keeps it.
LEMMA Udp_createInv ==
  ASSUME UdpInv, NEW t \in Threads, udp_create(t)
  PROVE  UdpInv'
<1>1. TypeOK'
  BY DEF UdpInv, TypeOK, GroupSteps, ChangeSteps, RefsAccounted, udp_create,
     Goto, linkvars, grpvars, callvars, constvars, pipevars, recvvars
<1>2. NotCreated'
  BY DEF UdpInv, TypeOK, GroupSteps, ChangeSteps, NotCreated, udp_create,
     Goto, linkvars, grpvars, callvars, constvars, pipevars, recvvars
<1>3. RefsAccounted'
  <2>1. InCall' = InCall
    BY StayInCall DEF UdpInv, Outside, udp_create, Goto, callvars, InCall
  <2> QED
    BY <2>1 DEF UdpInv, TypeOK, NotCreated, RefsAccounted, udp_create, pipevars,
       recvvars
<1>4. KeepsReceiving'
  BY DEF UdpInv, TypeOK, NotCreated, KeepsReceiving, udp_create, Goto,
     linkvars, grpvars, callvars, constvars, pipevars, recvvars
<1>5. GroupCallAlone'
  BY DEF UdpInv, TypeOK, GroupSteps, ChangeSteps, GroupCallAlone, udp_create,
     Goto, linkvars, grpvars, callvars, constvars, pipevars, recvvars
<1>6. GroupTracked'
  BY DEF UdpInv, TypeOK, GroupSteps, ChangeSteps, GroupCallAlone,
     GroupTracked, udp_create, Goto, linkvars, grpvars, callvars, constvars,
     pipevars, recvvars
<1>7. RaiseArgs'
  BY DEF UdpInv, TypeOK, GroupSteps, ChangeSteps, RaiseArgs, udp_create, Goto,
     linkvars, grpvars, callvars, constvars, pipevars, recvvars
<1> QED
  BY <1>1, <1>2, <1>3, <1>4, <1>5, <1>6, <1>7 DEF UdpInv

\* Allocating the receive packet keeps it, or closes the link.
LEMMA AllocateRecvInv ==
  ASSUME UdpInv, NEW t \in Threads, AllocateRecv(t)
  PROVE  UdpInv'
<1>1. TypeOK'
  BY DEF UdpInv, TypeOK, GroupSteps, ChangeSteps, RefsAccounted, AllocateRecv,
     objclos, Object, Goto, linkvars, grpvars, callvars, constvars, pipevars,
     recvvars
<1>2. NotCreated'
  BY DEF UdpInv, TypeOK, GroupSteps, ChangeSteps, NotCreated, AllocateRecv,
     objclos, Object, Goto, linkvars, grpvars, callvars, constvars, pipevars,
     recvvars
<1>3. RefsAccounted'
  <2>1. InCall' = InCall
    BY StayInCall DEF UdpInv, Outside, AllocateRecv, Goto, callvars
  <2> QED
    BY <2>1, InCallFinite DEF UdpInv, TypeOK, NotCreated, RefsAccounted,
       AllocateRecv, objclos, Object, Goto, linkvars, grpvars, callvars,
       constvars, pipevars, recvvars
<1>4. KeepsReceiving'
  BY DEF UdpInv, TypeOK, NotCreated, KeepsReceiving, AllocateRecv, objclos,
     Object, Goto, linkvars, grpvars, callvars, constvars, pipevars, recvvars
<1>5. GroupCallAlone'
  BY DEF UdpInv, TypeOK, GroupSteps, ChangeSteps, GroupCallAlone,
     AllocateRecv, objclos, Object, Goto, linkvars, grpvars, callvars,
     constvars, pipevars, recvvars
<1>6. GroupTracked'
  BY DEF UdpInv, TypeOK, GroupSteps, ChangeSteps, GroupCallAlone,
     GroupTracked, AllocateRecv, objclos, Object, Goto, linkvars, grpvars,
     callvars, constvars, pipevars, recvvars
<1>7. RaiseArgs'
  BY DEF UdpInv, TypeOK, GroupSteps, ChangeSteps, RaiseArgs, AllocateRecv,
     objclos, Object, Goto, linkvars, grpvars, callvars, constvars, pipevars,
     recvvars
<1> QED
  BY <1>1, <1>2, <1>3, <1>4, <1>5, <1>6, <1>7 DEF UdpInv

\* Posting the first request keeps it.
LEMMA FirstRecvInv ==
  ASSUME UdpInv, NEW t \in Threads, FirstRecv(t)
  PROVE  UdpInv'
<1>1. TypeOK'
  <2>1. TypeOK
    BY DEF UdpInv
  <2>2. /\ UNCHANGED <<stat, refs, sock, connected_, peer, mreq, members, arg>>
        /\ UNCHANGED <<io, pipe, leaked, multicast, eintr, overlap>>
    BY DEF FirstRecv, Goto, linkvars, grpvars, constvars, pipevars
  <2>3. packet' \in {"posted", "lost"} /\ deaf' \in BOOLEAN
    BY <2>1 DEF TypeOK, FirstRecv, asio_udp_recv
  <2>4. pc' = [pc EXCEPT ![t] = "idle"]
    BY DEF FirstRecv, Goto
  <2>5. pc' \in [Threads -> {"idle", "array", "post", "return", "write",
                             "ioclose"} \cup GroupSteps]
    BY <2>1, <2>4 DEF TypeOK
  <2> QED
    BY <2>1, <2>2, <2>3, <2>5 DEF TypeOK
<1>2. NotCreated'
  BY DEF UdpInv, TypeOK, GroupSteps, ChangeSteps, NotCreated, FirstRecv,
     asio_udp_recv, Goto, linkvars, grpvars, callvars, constvars, pipevars,
     recvvars
<1>3. RefsAccounted'
  <2>1. InCall' = InCall
    BY StayInCall DEF UdpInv, Outside, FirstRecv, Goto, callvars
  <2> QED
    BY <2>1, InCallFinite DEF UdpInv, TypeOK, NotCreated, RefsAccounted,
       FirstRecv, asio_udp_recv, Goto, linkvars, grpvars, callvars, constvars,
       pipevars, recvvars
<1>4. KeepsReceiving'
  BY DEF UdpInv, TypeOK, NotCreated, KeepsReceiving, FirstRecv, asio_udp_recv,
     Goto, linkvars, grpvars, callvars, constvars, pipevars, recvvars
<1>5. GroupCallAlone'
  BY DEF UdpInv, TypeOK, GroupSteps, ChangeSteps, GroupCallAlone, FirstRecv,
     asio_udp_recv, Goto, linkvars, grpvars, callvars, constvars, pipevars,
     recvvars
<1>6. GroupTracked'
  BY DEF UdpInv, TypeOK, GroupSteps, ChangeSteps, GroupCallAlone,
     GroupTracked, FirstRecv, asio_udp_recv, Goto, linkvars, grpvars,
     callvars, constvars, pipevars, recvvars
<1>7. RaiseArgs'
  BY DEF UdpInv, TypeOK, GroupSteps, ChangeSteps, RaiseArgs, FirstRecv,
     asio_udp_recv, Goto, linkvars, grpvars, callvars, constvars, pipevars,
     recvvars
<1> QED
  BY <1>1, <1>2, <1>3, <1>4, <1>5, <1>6, <1>7 DEF UdpInv

\* A send keeps it.
LEMMA SendtoInv ==
  ASSUME UdpInv, NEW t \in Threads, Sendto(t)
  PROVE  UdpInv'
<1>1. TypeOK'
  BY DEF UdpInv, TypeOK, GroupSteps, ChangeSteps, RefsAccounted, Sendto, Goto,
     linkvars, grpvars, callvars, constvars, pipevars, recvvars
<1>2. NotCreated'
  BY DEF UdpInv, TypeOK, GroupSteps, ChangeSteps, NotCreated, Sendto, Goto,
     linkvars, grpvars, callvars, constvars, pipevars, recvvars
<1>3. RefsAccounted'
  <2>1. InCall' = InCall
    BY StayInCall DEF UdpInv, Outside, Sendto, Goto, callvars
  <2> QED
    BY <2>1, InCallFinite DEF UdpInv, TypeOK, NotCreated, RefsAccounted,
       Sendto, Goto, linkvars, grpvars, callvars, constvars, pipevars,
       recvvars
<1>4. KeepsReceiving'
  BY DEF UdpInv, TypeOK, NotCreated, KeepsReceiving, Sendto, Goto, linkvars,
     grpvars, callvars, constvars, pipevars, recvvars
<1>5. GroupCallAlone'
  BY DEF UdpInv, TypeOK, GroupSteps, ChangeSteps, GroupCallAlone, Sendto,
     Goto, linkvars, grpvars, callvars, constvars, pipevars, recvvars
<1>6. GroupTracked'
  BY DEF UdpInv, TypeOK, GroupSteps, ChangeSteps, GroupCallAlone,
     GroupTracked, Sendto, Goto, linkvars, grpvars, callvars, constvars,
     pipevars, recvvars
<1>7. RaiseArgs'
  BY DEF UdpInv, TypeOK, GroupSteps, ChangeSteps, RaiseArgs, Sendto, Goto,
     linkvars, grpvars, callvars, constvars, pipevars, recvvars
<1> QED
  BY <1>1, <1>2, <1>3, <1>4, <1>5, <1>6, <1>7 DEF UdpInv

\* A group send keeps it.
LEMMA Syio_grp_sendInv ==
  ASSUME UdpInv, NEW t \in Threads, syio_grp_send(t)
  PROVE  UdpInv'
<1>1. TypeOK'
  BY DEF UdpInv, TypeOK, GroupSteps, ChangeSteps, RefsAccounted,
     syio_grp_send, Goto, linkvars, grpvars, callvars, constvars, pipevars,
     recvvars
<1>2. NotCreated'
  BY DEF UdpInv, TypeOK, GroupSteps, ChangeSteps, NotCreated, syio_grp_send,
     Goto, linkvars, grpvars, callvars, constvars, pipevars, recvvars
<1>3. RefsAccounted'
  <2>1. InCall' = InCall
    BY StayInCall DEF UdpInv, Outside, syio_grp_send, Goto, callvars
  <2> QED
    BY <2>1, InCallFinite DEF UdpInv, TypeOK, NotCreated, RefsAccounted,
       syio_grp_send, Goto, linkvars, grpvars, callvars, constvars, pipevars,
       recvvars
<1>4. KeepsReceiving'
  BY DEF UdpInv, TypeOK, NotCreated, KeepsReceiving, syio_grp_send, Goto,
     linkvars, grpvars, callvars, constvars, pipevars, recvvars
<1>5. GroupCallAlone'
  BY DEF UdpInv, TypeOK, GroupSteps, ChangeSteps, GroupCallAlone,
     syio_grp_send, Goto, linkvars, grpvars, callvars, constvars, pipevars,
     recvvars
<1>6. GroupTracked'
  BY DEF UdpInv, TypeOK, GroupSteps, ChangeSteps, GroupCallAlone,
     GroupTracked, syio_grp_send, Goto, linkvars, grpvars, callvars,
     constvars, pipevars, recvvars
<1>7. RaiseArgs'
  BY DEF UdpInv, TypeOK, GroupSteps, ChangeSteps, RaiseArgs, syio_grp_send,
     Goto, linkvars, grpvars, callvars, constvars, pipevars, recvvars
<1> QED
  BY <1>1, <1>2, <1>3, <1>4, <1>5, <1>6, <1>7 DEF UdpInv

\* objreff keeps it: the closing link has a reference.
LEMMA Udp_destroyInv ==
  ASSUME UdpInv, NEW t \in Threads, udp_destroy(t)
  PROVE  UdpInv'
<1>1. TypeOK'
  BY DEF UdpInv, TypeOK, GroupSteps, ChangeSteps, RefsAccounted, udp_destroy,
     CanRefer, objclos, Object, Goto, linkvars, grpvars, callvars, constvars,
     pipevars, recvvars
<1>2. NotCreated'
  BY DEF UdpInv, TypeOK, GroupSteps, ChangeSteps, NotCreated, udp_destroy,
     CanRefer, objclos, Object, Goto, linkvars, grpvars, callvars, constvars,
     pipevars, recvvars
<1>3. RefsAccounted'
  <2>1. Cardinality(InCall') = Cardinality(InCall) + 1
    BY EnterCall DEF UdpInv, Outside, udp_destroy, CanRefer, Goto, callvars
  <2> QED
    BY <2>1, InCallFinite DEF UdpInv, TypeOK, NotCreated, RefsAccounted,
       udp_destroy, CanRefer, objclos, Object, Goto, linkvars, grpvars,
       callvars, constvars, pipevars, recvvars
<1>4. KeepsReceiving'
  BY DEF UdpInv, TypeOK, NotCreated, KeepsReceiving, udp_destroy, CanRefer,
     objclos, Object, Goto, linkvars, grpvars, callvars, constvars, pipevars,
     recvvars
<1>5. GroupCallAlone'
  BY DEF UdpInv, TypeOK, GroupSteps, ChangeSteps, GroupCallAlone, udp_destroy,
     CanRefer, objclos, Object, Goto, linkvars, grpvars, callvars, constvars,
     pipevars, recvvars
<1>6. GroupTracked'
  BY DEF UdpInv, TypeOK, GroupSteps, ChangeSteps, GroupCallAlone,
     GroupTracked, udp_destroy, CanRefer, objclos, Object, Goto, linkvars,
     grpvars, callvars, constvars, pipevars, recvvars
<1>7. RaiseArgs'
  BY DEF UdpInv, TypeOK, GroupSteps, ChangeSteps, RaiseArgs, udp_destroy,
     CanRefer, objclos, Object, Goto, linkvars, grpvars, callvars, constvars,
     pipevars, recvvars
<1> QED
  BY <1>1, <1>2, <1>3, <1>4, <1>5, <1>6, <1>7 DEF UdpInv

\* Closing the descriptor keeps it.
LEMMA IocloseInv ==
  ASSUME UdpInv, NEW t \in Threads, ioclose(t)
  PROVE  UdpInv'
<1>1. TypeOK'
  BY DEF UdpInv, TypeOK, GroupSteps, ChangeSteps, RefsAccounted, ioclose,
     Goto, linkvars, grpvars, callvars, constvars, pipevars, recvvars
<1>2. NotCreated'
  BY DEF UdpInv, TypeOK, GroupSteps, ChangeSteps, NotCreated, ioclose, Goto,
     linkvars, grpvars, callvars, constvars, pipevars, recvvars
<1>3. RefsAccounted'
  <2>1. InCall' = InCall
    BY StayInCall DEF UdpInv, Outside, ioclose, Goto, callvars
  <2> QED
    BY <2>1, InCallFinite DEF UdpInv, TypeOK, NotCreated, RefsAccounted,
       ioclose, Goto, linkvars, grpvars, callvars, constvars, pipevars,
       recvvars
<1>4. KeepsReceiving'
  BY DEF UdpInv, TypeOK, NotCreated, KeepsReceiving, ioclose, Goto, linkvars,
     grpvars, callvars, constvars, pipevars, recvvars
<1>5. GroupCallAlone'
  BY DEF UdpInv, TypeOK, GroupSteps, ChangeSteps, GroupCallAlone, ioclose,
     Goto, linkvars, grpvars, callvars, constvars, pipevars, recvvars
<1>6. GroupTracked'
  BY DEF UdpInv, TypeOK, GroupSteps, ChangeSteps, GroupCallAlone,
     GroupTracked, ioclose, Goto, linkvars, grpvars, callvars, constvars,
     pipevars, recvvars
<1>7. RaiseArgs'
  BY DEF UdpInv, TypeOK, GroupSteps, ChangeSteps, RaiseArgs, ioclose, Goto,
     linkvars, grpvars, callvars, constvars, pipevars, recvvars
<1> QED
  BY <1>1, <1>2, <1>3, <1>4, <1>5, <1>6, <1>7 DEF UdpInv

\* A change of the destination that begins while no group call is running is
\* alone, and one that begins during another is noted as an overlap.
LEMMA CallAlone ==
  ASSUME UdpInv, NEW t \in Threads, NEW s \in {"raise", "detach"}, NEW a,
         GroupCall(t, s, a, GroupSteps)
  PROVE  GroupCallAlone' /\ GroupTracked'
<1>1. pc \in [Threads -> {"idle", "array", "post", "return", "write",
                          "ioclose"} \cup GroupSteps]
  BY DEF UdpInv, TypeOK
<1>2. /\ pc' = [pc EXCEPT ![t] = s] /\ arg' = [arg EXCEPT ![t] = a]
      /\ UNCHANGED <<connected_, peer>>
      /\ overlap' = (overlap \/ \E u \in Threads : pc[u] \in GroupSteps)
  BY DEF GroupCall
<1> SUFFICES ASSUME ~overlap' PROVE GroupCallAlone' /\ GroupTracked'
  BY DEF GroupCallAlone, GroupTracked
<1>3. ~overlap /\ \A u \in Threads : pc[u] \notin GroupSteps
  BY <1>2
<1>4. \A u \in Threads : pc'[u] = IF u = t THEN s ELSE pc[u]
  BY <1>1, <1>2
<1>5. \A u \in Threads : pc'[u] \in GroupSteps => u = t
  BY <1>3, <1>4
<1>6. \A u \in Threads : pc'[u] \notin {"connect", "mark", "disconnect", "transmit"}
  BY <1>3, <1>4 DEF GroupSteps, ChangeSteps
<1>7. GroupCallAlone'
  BY <1>5, <1>6 DEF GroupCallAlone, GroupSteps
<1>8. GroupTracked'
  BY <1>2, <1>3, <1>6 DEF UdpInv, GroupTracked
<1> QED
  BY <1>7, <1>8

\* A group send that begins during a change is noted too.
LEMMA WriteAlone ==
  ASSUME UdpInv, NEW t \in Threads, udp_write_grp(t)
  PROVE  GroupCallAlone' /\ GroupTracked'
<1>1. pc \in [Threads -> {"idle", "array", "post", "return", "write",
                          "ioclose"} \cup GroupSteps]
  BY DEF UdpInv, TypeOK
<1>2. PICK s \in {"return", "transmit"} :
        /\ s = "transmit" => connected_ # None
        /\ pc' = [pc EXCEPT ![t] = s]
        /\ arg' = [arg EXCEPT ![t] = None]
        /\ UNCHANGED <<connected_, peer>>
        /\ overlap' = (overlap \/ \E u \in Threads : pc[u] \in ChangeSteps)
  BY DEF udp_write_grp, GroupCall
<1> SUFFICES ASSUME ~overlap' PROVE GroupCallAlone' /\ GroupTracked'
  BY DEF GroupCallAlone, GroupTracked
<1>3. ~overlap /\ \A u \in Threads : pc[u] \notin ChangeSteps
  BY <1>2
<1>4. \A u \in Threads : pc'[u] = IF u = t THEN s ELSE pc[u]
  BY <1>1, <1>2
<1>5. \A u \in Threads : pc'[u] \notin ChangeSteps
  BY <1>3, <1>4 DEF ChangeSteps
<1>6. \A u \in Threads : pc'[u] \notin {"connect", "mark", "disconnect"}
  BY <1>5 DEF ChangeSteps
<1>7. GroupCallAlone'
  BY <1>5, <1>6 DEF GroupCallAlone
<1>8. GroupTracked'
  BY <1>2, <1>3, <1>4 DEF UdpInv, GroupTracked
<1> QED
  BY <1>7, <1>8

\* The beginning of udp_detach_grp keeps it.
LEMMA Udp_detach_grpInv ==
  ASSUME UdpInv, NEW t \in Threads, udp_detach_grp(t)
  PROVE  UdpInv'
<1>1. TypeOK'
  BY DEF UdpInv, TypeOK, GroupSteps, ChangeSteps, RefsAccounted,
     udp_detach_grp, GroupCall, CanRefer, Object, linkvars, grpvars, callvars,
     constvars, pipevars, recvvars
<1>2. NotCreated'
  BY DEF UdpInv, TypeOK, GroupSteps, ChangeSteps, NotCreated, udp_detach_grp,
     GroupCall, CanRefer, Object, linkvars, grpvars, callvars, constvars,
     pipevars, recvvars
<1>3. RefsAccounted'
  <2>1. Cardinality(InCall') = Cardinality(InCall) + 1
    BY EnterCall DEF UdpInv, Outside, udp_detach_grp, GroupCall, CanRefer,
       callvars
  <2> QED
    BY <2>1, InCallFinite DEF UdpInv, TypeOK, NotCreated, RefsAccounted,
       udp_detach_grp, GroupCall, CanRefer, Object, linkvars, grpvars,
       callvars, constvars, pipevars, recvvars
<1>4. KeepsReceiving'
  BY DEF UdpInv, TypeOK, NotCreated, KeepsReceiving, udp_detach_grp,
     GroupCall, CanRefer, Object, linkvars, grpvars, callvars, constvars,
     pipevars, recvvars
<1>5. GroupCallAlone'
  BY CallAlone DEF udp_detach_grp
<1>6. GroupTracked'
  BY CallAlone DEF udp_detach_grp
<1>7. RaiseArgs'
  BY DEF UdpInv, TypeOK, GroupSteps, ChangeSteps, RaiseArgs, udp_detach_grp,
     GroupCall, CanRefer, Object, linkvars, grpvars, callvars, constvars,
     pipevars, recvvars
<1> QED
  BY <1>1, <1>2, <1>3, <1>4, <1>5, <1>6, <1>7 DEF UdpInv

\* The beginning of udp_write_grp keeps it.
LEMMA Udp_write_grpInv ==
  ASSUME UdpInv, NEW t \in Threads, udp_write_grp(t)
  PROVE  UdpInv'
<1>1. TypeOK'
  BY DEF UdpInv, TypeOK, GroupSteps, ChangeSteps, RefsAccounted,
     udp_write_grp, GroupCall, CanRefer, Object, linkvars, grpvars, callvars,
     constvars, pipevars, recvvars
<1>2. NotCreated'
  BY DEF UdpInv, TypeOK, GroupSteps, ChangeSteps, NotCreated, udp_write_grp,
     GroupCall, CanRefer, Object, linkvars, grpvars, callvars, constvars,
     pipevars, recvvars
<1>3. RefsAccounted'
  <2>1. ASSUME connected_ = None
        PROVE  Cardinality(InCall') = Cardinality(InCall) + 1
    <3>1. pc' = [pc EXCEPT ![t] = "return"] /\ pc[t] \in Outside
      BY <2>1 DEF Outside, udp_write_grp, GroupCall, CanRefer
    <3> QED
      BY <3>1, EnterCall DEF UdpInv, Outside
  <2>2. ASSUME connected_ # None
        PROVE  Cardinality(InCall') = Cardinality(InCall) + 1
    <3>1. pc' = [pc EXCEPT ![t] = "transmit"] /\ pc[t] \in Outside
      BY <2>2 DEF Outside, udp_write_grp, GroupCall, CanRefer
    <3> QED
      BY <3>1, EnterCall DEF UdpInv, Outside
  <2>3. Cardinality(InCall') = Cardinality(InCall) + 1
    BY <2>1, <2>2
  <2> QED
    BY <2>3, InCallFinite DEF UdpInv, TypeOK, NotCreated, RefsAccounted,
       udp_write_grp, GroupCall, CanRefer, Object, linkvars, grpvars,
       callvars, constvars, pipevars, recvvars
<1>4. KeepsReceiving'
  BY DEF UdpInv, TypeOK, NotCreated, KeepsReceiving, udp_write_grp,
     GroupCall, CanRefer, Object, linkvars, grpvars, callvars, constvars,
     pipevars, recvvars
<1>5. GroupCallAlone'
  BY WriteAlone
<1>6. GroupTracked'
  BY WriteAlone
<1>7. RaiseArgs'
  BY DEF UdpInv, TypeOK, GroupSteps, ChangeSteps, RaiseArgs, udp_write_grp,
     GroupCall, CanRefer, Object, linkvars, grpvars, callvars, constvars,
     pipevars, recvvars
<1> QED
  BY <1>1, <1>2, <1>3, <1>4, <1>5, <1>6, <1>7 DEF UdpInv

\* The beginning of udp_raise_grp keeps it.
LEMMA Udp_raise_grpInv ==
  ASSUME UdpInv, NEW t \in Threads, NEW a \in Addresses, udp_raise_grp(t, a)
  PROVE  UdpInv'
<1>1. TypeOK'
  BY DEF UdpInv, TypeOK, GroupSteps, ChangeSteps, RefsAccounted,
     udp_raise_grp, GroupCall, CanRefer, Object, linkvars, grpvars, callvars,
     constvars, pipevars, recvvars
<1>2. NotCreated'
  BY DEF UdpInv, TypeOK, GroupSteps, ChangeSteps, NotCreated, udp_raise_grp,
     GroupCall, CanRefer, Object, linkvars, grpvars, callvars, constvars,
     pipevars, recvvars
<1>3. RefsAccounted'
  <2>1. Cardinality(InCall') = Cardinality(InCall) + 1
    BY EnterCall DEF UdpInv, Outside, udp_raise_grp, GroupCall, CanRefer,
       callvars
  <2> QED
    BY <2>1, InCallFinite DEF UdpInv, TypeOK, NotCreated, RefsAccounted,
       udp_raise_grp, GroupCall, CanRefer, Object, linkvars, grpvars,
       callvars, constvars, pipevars, recvvars
<1>4. KeepsReceiving'
  BY DEF UdpInv, TypeOK, NotCreated, KeepsReceiving, udp_raise_grp, GroupCall,
     CanRefer, Object, linkvars, grpvars, callvars, constvars, pipevars,
     recvvars
<1>5. GroupCallAlone'
  BY CallAlone DEF udp_raise_grp
<1>6. GroupTracked'
  BY CallAlone DEF udp_raise_grp
<1>7. RaiseArgs'
  BY DEF UdpInv, TypeOK, GroupSteps, ChangeSteps, RaiseArgs, udp_raise_grp,
     GroupCall, CanRefer, Object, linkvars, grpvars, callvars, constvars,
     pipevars, recvvars
<1> QED
  BY <1>1, <1>2, <1>3, <1>4, <1>5, <1>6, <1>7 DEF UdpInv

\* The test of connected_ keeps it.
LEMMA RaiseTestInv ==
  ASSUME UdpInv, NEW t \in Threads, RaiseTest(t)
  PROVE  UdpInv'
<1>1. TypeOK'
  BY DEF UdpInv, TypeOK, GroupSteps, ChangeSteps, RefsAccounted, RaiseTest,
     GroupStep, linkvars, grpvars, callvars, constvars, pipevars, recvvars
<1>2. NotCreated'
  BY DEF UdpInv, TypeOK, GroupSteps, ChangeSteps, NotCreated, RaiseTest,
     GroupStep, linkvars, grpvars, callvars, constvars, pipevars, recvvars
<1>3. RefsAccounted'
  <2>1. InCall' = InCall
    BY StayInCall DEF UdpInv, Outside, RaiseTest, GroupStep, callvars
  <2> QED
    BY <2>1, InCallFinite DEF UdpInv, TypeOK, NotCreated, RefsAccounted,
       RaiseTest, GroupStep, linkvars, grpvars, callvars, constvars, pipevars,
       recvvars
<1>4. KeepsReceiving'
  BY DEF UdpInv, TypeOK, NotCreated, KeepsReceiving, RaiseTest, GroupStep,
     linkvars, grpvars, callvars, constvars, pipevars, recvvars
<1>5. GroupCallAlone'
  BY DEF UdpInv, TypeOK, GroupSteps, ChangeSteps, GroupCallAlone, RaiseTest,
     GroupStep, linkvars, grpvars, callvars, constvars, pipevars, recvvars
<1>6. GroupTracked'
  BY DEF UdpInv, TypeOK, GroupSteps, ChangeSteps, GroupCallAlone,
     GroupTracked, RaiseTest, GroupStep, linkvars, grpvars, callvars,
     constvars, pipevars, recvvars
<1>7. RaiseArgs'
  BY DEF UdpInv, TypeOK, GroupSteps, ChangeSteps, RaiseArgs, RaiseTest,
     GroupStep, linkvars, grpvars, callvars, constvars, pipevars, recvvars
<1> QED
  BY <1>1, <1>2, <1>3, <1>4, <1>5, <1>6, <1>7 DEF UdpInv

\* WSAConnect keeps it: the destination changes while connected_ is empty.
LEMMA Syio_v_connectInv ==
  ASSUME UdpInv, NEW t \in Threads, syio_v_connect(t)
  PROVE  UdpInv'
<1>1. TypeOK'
  BY DEF UdpInv, TypeOK, GroupSteps, ChangeSteps, RefsAccounted,
     syio_v_connect, GroupStep, linkvars, grpvars, callvars, constvars,
     pipevars, recvvars
<1>2. NotCreated'
  BY DEF UdpInv, TypeOK, GroupSteps, ChangeSteps, NotCreated, syio_v_connect,
     GroupStep, linkvars, grpvars, callvars, constvars, pipevars, recvvars
<1>3. RefsAccounted'
  <2>1. InCall' = InCall
    BY StayInCall DEF UdpInv, Outside, syio_v_connect, GroupStep, callvars
  <2> QED
    BY <2>1, InCallFinite DEF UdpInv, TypeOK, NotCreated, RefsAccounted,
       syio_v_connect, GroupStep, linkvars, grpvars, callvars, constvars,
       pipevars, recvvars
<1>4. KeepsReceiving'
  BY DEF UdpInv, TypeOK, NotCreated, KeepsReceiving, syio_v_connect,
     GroupStep, linkvars, grpvars, callvars, constvars, pipevars, recvvars
<1>5. GroupCallAlone'
  BY DEF UdpInv, TypeOK, GroupSteps, ChangeSteps, GroupCallAlone,
     syio_v_connect, GroupStep, linkvars, grpvars, callvars, constvars,
     pipevars, recvvars
<1>6. GroupTracked'
  BY DEF UdpInv, TypeOK, GroupSteps, ChangeSteps, GroupCallAlone,
     GroupTracked, syio_v_connect, GroupStep, linkvars, grpvars, callvars,
     constvars, pipevars, recvvars
<1>7. RaiseArgs'
  BY DEF UdpInv, TypeOK, GroupSteps, ChangeSteps, RaiseArgs, syio_v_connect,
     GroupStep, linkvars, grpvars, callvars, constvars, pipevars, recvvars
<1> QED
  BY <1>1, <1>2, <1>3, <1>4, <1>5, <1>6, <1>7 DEF UdpInv

\* Recording the destination keeps it.
LEMMA RaiseMarkInv ==
  ASSUME UdpInv, NEW t \in Threads, RaiseMark(t)
  PROVE  UdpInv'
<1>0. arg[t] \in Addresses /\ arg[t][1] \in Hosts
  BY DEF UdpInv, RaiseArgs, RaiseMark, GroupStep, Addresses
<1>1. TypeOK'
  BY <1>0 DEF UdpInv, TypeOK, GroupSteps, ChangeSteps, RaiseMark, GroupStep,
     linkvars, constvars, pipevars, recvvars
<1>2. NotCreated'
  BY DEF UdpInv, TypeOK, GroupSteps, ChangeSteps, NotCreated, RaiseMark,
     GroupStep, linkvars, grpvars, callvars, constvars, pipevars, recvvars
<1>3. RefsAccounted'
  <2>1. InCall' = InCall
    BY StayInCall DEF UdpInv, Outside, RaiseMark, GroupStep, callvars
  <2> QED
    BY <2>1, InCallFinite DEF UdpInv, TypeOK, NotCreated, RefsAccounted,
       RaiseMark, GroupStep, linkvars, grpvars, callvars, constvars, pipevars,
       recvvars
<1>4. KeepsReceiving'
  BY DEF UdpInv, TypeOK, NotCreated, KeepsReceiving, RaiseMark, GroupStep,
     linkvars, grpvars, callvars, constvars, pipevars, recvvars
<1>5. GroupCallAlone'
  BY DEF UdpInv, TypeOK, GroupSteps, ChangeSteps, GroupCallAlone, RaiseMark,
     GroupStep, linkvars, grpvars, callvars, constvars, pipevars, recvvars
<1>6. GroupTracked'
  <2>1. SUFFICES ASSUME ~overlap PROVE GroupTracked'
    BY DEF GroupTracked, RaiseMark, GroupStep
  <2>2. peer' = arg[t] /\ connected_' = arg[t][1]
    BY <2>1 DEF UdpInv, GroupCallAlone, RaiseMark, GroupStep
  <2>3. connected_' # None /\ peer' # None
    BY <1>0, <2>2, UdpAssumption DEF Addresses
  <2> QED
    BY <2>2, <2>3 DEF GroupTracked
<1>7. RaiseArgs'
  BY DEF UdpInv, TypeOK, GroupSteps, ChangeSteps, RaiseArgs, RaiseMark,
     GroupStep, linkvars, grpvars, callvars, constvars, pipevars, recvvars
<1> QED
  BY <1>1, <1>2, <1>3, <1>4, <1>5, <1>6, <1>7 DEF UdpInv

\* Clearing connected_ keeps it.
LEMMA Syio_v_disconnectInv ==
  ASSUME UdpInv, NEW t \in Threads, syio_v_disconnect(t)
  PROVE  UdpInv'
<1>1. TypeOK'
  BY DEF UdpInv, TypeOK, GroupSteps, ChangeSteps, RefsAccounted,
     syio_v_disconnect, GroupStep, linkvars, grpvars, callvars, constvars,
     pipevars, recvvars
<1>2. NotCreated'
  BY DEF UdpInv, TypeOK, GroupSteps, ChangeSteps, NotCreated,
     syio_v_disconnect, GroupStep, linkvars, grpvars, callvars, constvars,
     pipevars, recvvars
<1>3. RefsAccounted'
  <2>1. InCall' = InCall
    BY StayInCall DEF UdpInv, Outside, syio_v_disconnect, GroupStep, callvars
  <2> QED
    BY <2>1, InCallFinite DEF UdpInv, TypeOK, NotCreated, RefsAccounted,
       syio_v_disconnect, GroupStep, linkvars, grpvars, callvars, constvars,
       pipevars, recvvars
<1>4. KeepsReceiving'
  BY DEF UdpInv, TypeOK, NotCreated, KeepsReceiving, syio_v_disconnect,
     GroupStep, linkvars, grpvars, callvars, constvars, pipevars, recvvars
<1>5. GroupCallAlone'
  BY DEF UdpInv, TypeOK, GroupSteps, ChangeSteps, GroupCallAlone,
     syio_v_disconnect, GroupStep, linkvars, grpvars, callvars, constvars,
     pipevars, recvvars
<1>6. GroupTracked'
  BY DEF UdpInv, TypeOK, GroupSteps, ChangeSteps, GroupCallAlone,
     GroupTracked, syio_v_disconnect, GroupStep, linkvars, grpvars, callvars,
     constvars, pipevars, recvvars
<1>7. RaiseArgs'
  BY DEF UdpInv, TypeOK, GroupSteps, ChangeSteps, RaiseArgs,
     syio_v_disconnect, GroupStep, linkvars, grpvars, callvars, constvars,
     pipevars, recvvars
<1> QED
  BY <1>1, <1>2, <1>3, <1>4, <1>5, <1>6, <1>7 DEF UdpInv

\* Dissolving the connection keeps it.
LEMMA DisconnectInv ==
  ASSUME UdpInv, NEW t \in Threads, Disconnect(t)
  PROVE  UdpInv'
<1>1. TypeOK'
  BY DEF UdpInv, TypeOK, GroupSteps, ChangeSteps, RefsAccounted, Disconnect,
     GroupStep, linkvars, grpvars, callvars, constvars, pipevars, recvvars
<1>2. NotCreated'
  BY DEF UdpInv, TypeOK, GroupSteps, ChangeSteps, NotCreated, Disconnect,
     GroupStep, linkvars, grpvars, callvars, constvars, pipevars, recvvars
<1>3. RefsAccounted'
  <2>1. InCall' = InCall
    BY StayInCall DEF UdpInv, Outside, Disconnect, GroupStep, callvars
  <2> QED
    BY <2>1, InCallFinite DEF UdpInv, TypeOK, NotCreated, RefsAccounted,
       Disconnect, GroupStep, linkvars, grpvars, callvars, constvars,
       pipevars, recvvars
<1>4. KeepsReceiving'
  BY DEF UdpInv, TypeOK, NotCreated, KeepsReceiving, Disconnect, GroupStep,
     linkvars, grpvars, callvars, constvars, pipevars, recvvars
<1>5. GroupCallAlone'
  BY DEF UdpInv, TypeOK, GroupSteps, ChangeSteps, GroupCallAlone, Disconnect,
     GroupStep, linkvars, grpvars, callvars, constvars, pipevars, recvvars
<1>6. GroupTracked'
  BY DEF UdpInv, TypeOK, GroupSteps, ChangeSteps, GroupCallAlone,
     GroupTracked, Disconnect, GroupStep, linkvars, grpvars, callvars,
     constvars, pipevars, recvvars
<1>7. RaiseArgs'
  BY DEF UdpInv, TypeOK, GroupSteps, ChangeSteps, RaiseArgs, Disconnect,
     GroupStep, linkvars, grpvars, callvars, constvars, pipevars, recvvars
<1> QED
  BY <1>1, <1>2, <1>3, <1>4, <1>5, <1>6, <1>7 DEF UdpInv

\* Joining a group keeps it.
LEMMA Udp_joingrpInv ==
  ASSUME UdpInv, NEW t \in Threads, NEW g \in Groups, udp_joingrp(t, g)
  PROVE  UdpInv'
<1>1. TypeOK'
  BY DEF UdpInv, TypeOK, GroupSteps, ChangeSteps, RefsAccounted, udp_joingrp,
     objrefr, CanRefer, Object, Goto, linkvars, grpvars, callvars, constvars,
     pipevars, recvvars
<1>2. NotCreated'
  BY DEF UdpInv, TypeOK, GroupSteps, ChangeSteps, NotCreated, udp_joingrp,
     objrefr, CanRefer, Object, Goto, linkvars, grpvars, callvars, constvars,
     pipevars, recvvars
<1>3. RefsAccounted'
  <2>1. Cardinality(InCall') = Cardinality(InCall) + 1
    BY EnterCall DEF UdpInv, Outside, udp_joingrp, objrefr, CanRefer, Goto,
       callvars
  <2> QED
    BY <2>1, InCallFinite DEF UdpInv, TypeOK, NotCreated, RefsAccounted,
       udp_joingrp, objrefr, CanRefer, Object, Goto, linkvars, grpvars,
       callvars, constvars, pipevars, recvvars
<1>4. KeepsReceiving'
  BY DEF UdpInv, TypeOK, NotCreated, KeepsReceiving, udp_joingrp, objrefr,
     CanRefer, Object, Goto, linkvars, grpvars, callvars, constvars, pipevars,
     recvvars
<1>5. GroupCallAlone'
  BY DEF UdpInv, TypeOK, GroupSteps, ChangeSteps, GroupCallAlone, udp_joingrp,
     objrefr, CanRefer, Object, Goto, linkvars, grpvars, callvars, constvars,
     pipevars, recvvars
<1>6. GroupTracked'
  BY DEF UdpInv, TypeOK, GroupSteps, ChangeSteps, GroupCallAlone,
     GroupTracked, udp_joingrp, objrefr, CanRefer, Object, Goto, linkvars,
     grpvars, callvars, constvars, pipevars, recvvars
<1>7. RaiseArgs'
  BY DEF UdpInv, TypeOK, GroupSteps, ChangeSteps, RaiseArgs, udp_joingrp,
     objrefr, CanRefer, Object, Goto, linkvars, grpvars, callvars, constvars,
     pipevars, recvvars
<1> QED
  BY <1>1, <1>2, <1>3, <1>4, <1>5, <1>6, <1>7 DEF UdpInv

\* Leaving a group keeps it.
LEMMA Udp_dropgrpInv ==
  ASSUME UdpInv, NEW t \in Threads, udp_dropgrp(t)
  PROVE  UdpInv'
<1>1. TypeOK'
  BY DEF UdpInv, TypeOK, GroupSteps, ChangeSteps, RefsAccounted, udp_dropgrp,
     objrefr, CanRefer, Object, Goto, linkvars, grpvars, callvars, constvars,
     pipevars, recvvars
<1>2. NotCreated'
  BY DEF UdpInv, TypeOK, GroupSteps, ChangeSteps, NotCreated, udp_dropgrp,
     objrefr, CanRefer, Object, Goto, linkvars, grpvars, callvars, constvars,
     pipevars, recvvars
<1>3. RefsAccounted'
  <2>1. Cardinality(InCall') = Cardinality(InCall) + 1
    BY EnterCall DEF UdpInv, Outside, udp_dropgrp, objrefr, CanRefer, Goto,
       callvars
  <2> QED
    BY <2>1, InCallFinite DEF UdpInv, TypeOK, NotCreated, RefsAccounted,
       udp_dropgrp, objrefr, CanRefer, Object, Goto, linkvars, grpvars,
       callvars, constvars, pipevars, recvvars
<1>4. KeepsReceiving'
  BY DEF UdpInv, TypeOK, NotCreated, KeepsReceiving, udp_dropgrp, objrefr,
     CanRefer, Object, Goto, linkvars, grpvars, callvars, constvars, pipevars,
     recvvars
<1>5. GroupCallAlone'
  BY DEF UdpInv, TypeOK, GroupSteps, ChangeSteps, GroupCallAlone, udp_dropgrp,
     objrefr, CanRefer, Object, Goto, linkvars, grpvars, callvars, constvars,
     pipevars, recvvars
<1>6. GroupTracked'
  BY DEF UdpInv, TypeOK, GroupSteps, ChangeSteps, GroupCallAlone,
     GroupTracked, udp_dropgrp, objrefr, CanRefer, Object, Goto, linkvars,
     grpvars, callvars, constvars, pipevars, recvvars
<1>7. RaiseArgs'
  BY DEF UdpInv, TypeOK, GroupSteps, ChangeSteps, RaiseArgs, udp_dropgrp,
     objrefr, CanRefer, Object, Goto, linkvars, grpvars, callvars, constvars,
     pipevars, recvvars
<1> QED
  BY <1>1, <1>2, <1>3, <1>4, <1>5, <1>6, <1>7 DEF UdpInv

\* The reference that udp_awaken keeps is counted.
LEMMA Udp_awakenInv ==
  ASSUME UdpInv, NEW t \in Threads, udp_awaken(t)
  PROVE  UdpInv'
<1>1. TypeOK'
  BY DEF UdpInv, TypeOK, GroupSteps, ChangeSteps, RefsAccounted, udp_awaken,
     CanRefer, Object, linkvars, grpvars, callvars, constvars, pipevars,
     recvvars
<1>2. NotCreated'
  BY DEF UdpInv, TypeOK, GroupSteps, ChangeSteps, NotCreated, udp_awaken,
     CanRefer, Object, linkvars, grpvars, callvars, constvars, pipevars,
     recvvars
<1>3. RefsAccounted'
  <2>1. InCall' = InCall
    BY DEF InCall, callvars, udp_awaken, CanRefer
  <2> QED
    BY <2>1, InCallFinite DEF UdpInv, TypeOK, NotCreated, RefsAccounted,
       udp_awaken, CanRefer, Object, linkvars, grpvars, callvars, constvars,
       pipevars, recvvars
<1>4. KeepsReceiving'
  BY DEF UdpInv, TypeOK, NotCreated, KeepsReceiving, udp_awaken, CanRefer,
     Object, linkvars, grpvars, callvars, constvars, pipevars, recvvars
<1>5. GroupCallAlone'
  BY DEF UdpInv, TypeOK, GroupSteps, ChangeSteps, GroupCallAlone, udp_awaken,
     CanRefer, Object, linkvars, grpvars, callvars, constvars, pipevars,
     recvvars
<1>6. GroupTracked'
  BY DEF UdpInv, TypeOK, GroupSteps, ChangeSteps, GroupCallAlone,
     GroupTracked, udp_awaken, CanRefer, Object, linkvars, grpvars, callvars,
     constvars, pipevars, recvvars
<1>7. RaiseArgs'
  BY DEF UdpInv, TypeOK, GroupSteps, ChangeSteps, RaiseArgs, udp_awaken,
     CanRefer, Object, linkvars, grpvars, callvars, constvars, pipevars,
     recvvars
<1> QED
  BY <1>1, <1>2, <1>3, <1>4, <1>5, <1>6, <1>7 DEF UdpInv

\* So is the one of the dispatched pipe packet.
LEMMA So_dispatch_pipe_eventInv ==
  ASSUME UdpInv, so_dispatch_pipe_event
  PROVE  UdpInv'
<1>1. TypeOK'
  BY DEF UdpInv, TypeOK, GroupSteps, ChangeSteps, RefsAccounted,
     so_dispatch_pipe_event, Object, linkvars, grpvars, callvars, constvars,
     pipevars, recvvars
<1>2. NotCreated'
  BY DEF UdpInv, TypeOK, GroupSteps, ChangeSteps, NotCreated,
     so_dispatch_pipe_event, Object, linkvars, grpvars, callvars, constvars,
     pipevars, recvvars
<1>3. RefsAccounted'
  <2>1. InCall' = InCall
    BY DEF InCall, callvars, so_dispatch_pipe_event
  <2> QED
    BY <2>1, InCallFinite DEF UdpInv, TypeOK, NotCreated, RefsAccounted,
       so_dispatch_pipe_event, Object, linkvars, grpvars, callvars, constvars,
       pipevars, recvvars
<1>4. KeepsReceiving'
  BY DEF UdpInv, TypeOK, NotCreated, KeepsReceiving, so_dispatch_pipe_event,
     Object, linkvars, grpvars, callvars, constvars, pipevars, recvvars
<1>5. GroupCallAlone'
  BY DEF UdpInv, TypeOK, GroupSteps, ChangeSteps, GroupCallAlone,
     so_dispatch_pipe_event, Object, linkvars, grpvars, callvars, constvars,
     pipevars, recvvars
<1>6. GroupTracked'
  BY DEF UdpInv, TypeOK, GroupSteps, ChangeSteps, GroupCallAlone,
     GroupTracked, so_dispatch_pipe_event, Object, linkvars, grpvars,
     callvars, constvars, pipevars, recvvars
<1>7. RaiseArgs'
  BY DEF UdpInv, TypeOK, GroupSteps, ChangeSteps, RaiseArgs,
     so_dispatch_pipe_event, Object, linkvars, grpvars, callvars, constvars,
     pipevars, recvvars
<1> QED
  BY <1>1, <1>2, <1>3, <1>4, <1>5, <1>6, <1>7 DEF UdpInv

\* A datagram keeps it.
LEMMA ReceivedInv ==
  ASSUME UdpInv, Received
  PROVE  UdpInv'
<1>1. TypeOK'
  BY DEF UdpInv, TypeOK, GroupSteps, ChangeSteps, RefsAccounted, Received,
     Completion, Object, linkvars, grpvars, callvars, constvars, pipevars,
     recvvars
<1>2. NotCreated'
  BY DEF UdpInv, TypeOK, GroupSteps, ChangeSteps, NotCreated, Received,
     Completion, Object, linkvars, grpvars, callvars, constvars, pipevars,
     recvvars
<1>3. RefsAccounted'
  <2>1. InCall' = InCall
    BY DEF InCall, callvars, Received, Completion
  <2> QED
    BY <2>1, InCallFinite DEF UdpInv, TypeOK, NotCreated, RefsAccounted,
       Received, Completion, Object, linkvars, grpvars, callvars, constvars,
       pipevars, recvvars
<1>4. KeepsReceiving'
  BY DEF UdpInv, TypeOK, NotCreated, KeepsReceiving, Received, Completion,
     Object, linkvars, grpvars, callvars, constvars, pipevars, recvvars
<1>5. GroupCallAlone'
  BY DEF UdpInv, TypeOK, GroupSteps, ChangeSteps, GroupCallAlone, Received,
     Completion, Object, linkvars, grpvars, callvars, constvars, pipevars,
     recvvars
<1>6. GroupTracked'
  BY DEF UdpInv, TypeOK, GroupSteps, ChangeSteps, GroupCallAlone,
     GroupTracked, Received, Completion, Object, linkvars, grpvars, callvars,
     constvars, pipevars, recvvars
<1>7. RaiseArgs'
  BY DEF UdpInv, TypeOK, GroupSteps, ChangeSteps, RaiseArgs, Received,
     Completion, Object, linkvars, grpvars, callvars, constvars, pipevars,
     recvvars
<1> QED
  BY <1>1, <1>2, <1>3, <1>4, <1>5, <1>6, <1>7 DEF UdpInv

\* An ICMP failure keeps it.
LEMMA UnreachableInv ==
  ASSUME UdpInv, Unreachable
  PROVE  UdpInv'
<1>1. TypeOK'
  BY DEF UdpInv, TypeOK, GroupSteps, ChangeSteps, RefsAccounted, Unreachable,
     Completion, Object, linkvars, grpvars, callvars, constvars, pipevars,
     recvvars
<1>2. NotCreated'
  BY DEF UdpInv, TypeOK, GroupSteps, ChangeSteps, NotCreated, Unreachable,
     Completion, Object, linkvars, grpvars, callvars, constvars, pipevars,
     recvvars
<1>3. RefsAccounted'
  <2>1. InCall' = InCall
    BY DEF InCall, callvars, Unreachable, Completion
  <2> QED
    BY <2>1, InCallFinite DEF UdpInv, TypeOK, NotCreated, RefsAccounted,
       Unreachable, Completion, Object, linkvars, grpvars, callvars,
       constvars, pipevars, recvvars
<1>4. KeepsReceiving'
  BY DEF UdpInv, TypeOK, NotCreated, KeepsReceiving, Unreachable, Completion,
     Object, linkvars, grpvars, callvars, constvars, pipevars, recvvars
<1>5. GroupCallAlone'
  BY DEF UdpInv, TypeOK, GroupSteps, ChangeSteps, GroupCallAlone, Unreachable,
     Completion, Object, linkvars, grpvars, callvars, constvars, pipevars,
     recvvars
<1>6. GroupTracked'
  BY DEF UdpInv, TypeOK, GroupSteps, ChangeSteps, GroupCallAlone,
     GroupTracked, Unreachable, Completion, Object, linkvars, grpvars,
     callvars, constvars, pipevars, recvvars
<1>7. RaiseArgs'
  BY DEF UdpInv, TypeOK, GroupSteps, ChangeSteps, RaiseArgs, Unreachable,
     Completion, Object, linkvars, grpvars, callvars, constvars, pipevars,
     recvvars
<1> QED
  BY <1>1, <1>2, <1>3, <1>4, <1>5, <1>6, <1>7 DEF UdpInv

\* A failure that closes the link keeps it.
LEMMA FailedInv ==
  ASSUME UdpInv, Failed
  PROVE  UdpInv'
<1>1. TypeOK'
  BY DEF UdpInv, TypeOK, GroupSteps, ChangeSteps, RefsAccounted, Failed,
     Completion, objclos, Object, linkvars, grpvars, callvars, constvars,
     pipevars, recvvars
<1>2. NotCreated'
  BY DEF UdpInv, TypeOK, GroupSteps, ChangeSteps, NotCreated, Failed,
     Completion, objclos, Object, linkvars, grpvars, callvars, constvars,
     pipevars, recvvars
<1>3. RefsAccounted'
  <2>1. InCall' = InCall
    BY DEF InCall, callvars, Failed, Completion
  <2> QED
    BY <2>1, InCallFinite DEF UdpInv, TypeOK, NotCreated, RefsAccounted,
       Failed, Completion, objclos, Object, linkvars, grpvars, callvars,
       constvars, pipevars, recvvars
<1>4. KeepsReceiving'
  BY DEF UdpInv, TypeOK, NotCreated, KeepsReceiving, Failed, Completion,
     objclos, Object, linkvars, grpvars, callvars, constvars, pipevars,
     recvvars
<1>5. GroupCallAlone'
  BY DEF UdpInv, TypeOK, GroupSteps, ChangeSteps, GroupCallAlone, Failed,
     Completion, objclos, Object, linkvars, grpvars, callvars, constvars,
     pipevars, recvvars
<1>6. GroupTracked'
  BY DEF UdpInv, TypeOK, GroupSteps, ChangeSteps, GroupCallAlone,
     GroupTracked, Failed, Completion, objclos, Object, linkvars, grpvars,
     callvars, constvars, pipevars, recvvars
<1>7. RaiseArgs'
  BY DEF UdpInv, TypeOK, GroupSteps, ChangeSteps, RaiseArgs, Failed,
     Completion, objclos, Object, linkvars, grpvars, callvars, constvars,
     pipevars, recvvars
<1> QED
  BY <1>1, <1>2, <1>3, <1>4, <1>5, <1>6, <1>7 DEF UdpInv

\* An empty datagram keeps it.
LEMMA EmptyInv ==
  ASSUME UdpInv, Empty
  PROVE  UdpInv'
<1>1. TypeOK'
  BY DEF UdpInv, TypeOK, GroupSteps, ChangeSteps, RefsAccounted, Empty,
     objclos, Object, linkvars, grpvars, callvars, constvars, pipevars,
     recvvars
<1>2. NotCreated'
  BY DEF UdpInv, TypeOK, GroupSteps, ChangeSteps, NotCreated, Empty, objclos,
     Object, linkvars, grpvars, callvars, constvars, pipevars, recvvars
<1>3. RefsAccounted'
  <2>1. InCall' = InCall
    BY DEF InCall, callvars, Empty
  <2> QED
    BY <2>1, InCallFinite DEF UdpInv, TypeOK, NotCreated, RefsAccounted,
       Empty, objclos, Object, linkvars, grpvars, callvars, constvars,
       pipevars, recvvars
<1>4. KeepsReceiving'
  BY DEF UdpInv, TypeOK, NotCreated, KeepsReceiving, Empty, objclos, Object,
     linkvars, grpvars, callvars, constvars, pipevars, recvvars
<1>5. GroupCallAlone'
  BY DEF UdpInv, TypeOK, GroupSteps, ChangeSteps, GroupCallAlone, Empty,
     objclos, Object, linkvars, grpvars, callvars, constvars, pipevars,
     recvvars
<1>6. GroupTracked'
  BY DEF UdpInv, TypeOK, GroupSteps, ChangeSteps, GroupCallAlone,
     GroupTracked, Empty, objclos, Object, linkvars, grpvars, callvars,
     constvars, pipevars, recvvars
<1>7. RaiseArgs'
  BY DEF UdpInv, TypeOK, GroupSteps, ChangeSteps, RaiseArgs, Empty, objclos,
     Object, linkvars, grpvars, callvars, constvars, pipevars, recvvars
<1> QED
  BY <1>1, <1>2, <1>3, <1>4, <1>5, <1>6, <1>7 DEF UdpInv

\* A completion behind the end of the link keeps it.
LEMMA NoEntryInv ==
  ASSUME UdpInv, NoEntry
  PROVE  UdpInv'
<1>1. TypeOK'
  BY DEF UdpInv, TypeOK, GroupSteps, ChangeSteps, RefsAccounted, NoEntry,
     linkvars, grpvars, callvars, constvars, pipevars, recvvars
<1>2. NotCreated'
  BY DEF UdpInv, TypeOK, GroupSteps, ChangeSteps, NotCreated, NoEntry,
     linkvars, grpvars, callvars, constvars, pipevars, recvvars
<1>3. RefsAccounted'
  <2>1. InCall' = InCall
    BY DEF InCall, callvars, NoEntry
  <2> QED
    BY <2>1, InCallFinite DEF UdpInv, TypeOK, NotCreated, RefsAccounted,
       NoEntry, linkvars, grpvars, callvars, constvars, pipevars, recvvars
<1>4. KeepsReceiving'
  BY DEF UdpInv, TypeOK, NotCreated, KeepsReceiving, NoEntry, linkvars,
     grpvars, callvars, constvars, pipevars, recvvars
<1>5. GroupCallAlone'
  BY DEF UdpInv, TypeOK, GroupSteps, ChangeSteps, GroupCallAlone, NoEntry,
     linkvars, grpvars, callvars, constvars, pipevars, recvvars
<1>6. GroupTracked'
  BY DEF UdpInv, TypeOK, GroupSteps, ChangeSteps, GroupCallAlone,
     GroupTracked, NoEntry, linkvars, grpvars, callvars, constvars, pipevars,
     recvvars
<1>7. RaiseArgs'
  BY DEF UdpInv, TypeOK, GroupSteps, ChangeSteps, RaiseArgs, NoEntry,
     linkvars, grpvars, callvars, constvars, pipevars, recvvars
<1> QED
  BY <1>1, <1>2, <1>3, <1>4, <1>5, <1>6, <1>7 DEF UdpInv

\* Posting the request again keeps it.
LEMMA RepostInv ==
  ASSUME UdpInv, Repost
  PROVE  UdpInv'
<1>0. refs > 0 /\ stat # "unloaded" /\ stat # "none"
  BY DispatchHolds DEF Repost
<1>1. TypeOK'
  BY DEF UdpInv, TypeOK, GroupSteps, ChangeSteps, RefsAccounted, Repost,
     asio_udp_recv, linkvars, grpvars, callvars, constvars, pipevars, recvvars
<1>2. NotCreated'
  BY <1>0 DEF UdpInv, TypeOK, GroupSteps, ChangeSteps, NotCreated, Repost,
     asio_udp_recv, linkvars, grpvars, callvars, constvars, pipevars, recvvars
<1>3. RefsAccounted'
  <2>1. InCall' = InCall
    BY DEF InCall, callvars, Repost
  <2> QED
    BY <2>1, InCallFinite DEF UdpInv, TypeOK, NotCreated, RefsAccounted,
       Repost, asio_udp_recv, linkvars, grpvars, callvars, constvars,
       pipevars, recvvars
<1>4. KeepsReceiving'
  BY DEF UdpInv, TypeOK, NotCreated, KeepsReceiving, Repost, asio_udp_recv,
     linkvars, grpvars, callvars, constvars, pipevars, recvvars
<1>5. GroupCallAlone'
  BY DEF UdpInv, TypeOK, GroupSteps, ChangeSteps, GroupCallAlone, Repost,
     asio_udp_recv, linkvars, grpvars, callvars, constvars, pipevars, recvvars
<1>6. GroupTracked'
  BY DEF UdpInv, TypeOK, GroupSteps, ChangeSteps, GroupCallAlone,
     GroupTracked, Repost, asio_udp_recv, linkvars, grpvars, callvars,
     constvars, pipevars, recvvars
<1>7. RaiseArgs'
  BY DEF UdpInv, TypeOK, GroupSteps, ChangeSteps, RaiseArgs, Repost,
     asio_udp_recv, linkvars, grpvars, callvars, constvars, pipevars, recvvars
<1> QED
  BY <1>1, <1>2, <1>3, <1>4, <1>5, <1>6, <1>7 DEF UdpInv

\* The end of a dispatch keeps it.
LEMMA IoReleaseInv ==
  ASSUME UdpInv, IoRelease
  PROVE  UdpInv'
<1>0. refs > 0 /\ stat # "unloaded" /\ stat # "none"
  BY DispatchHolds DEF IoRelease
<1>1. TypeOK'
  BY <1>0 DEF UdpInv, TypeOK, GroupSteps, ChangeSteps, RefsAccounted,
     IoRelease, objdefr, Object, linkvars, grpvars, callvars, constvars,
     pipevars, recvvars
<1>2. NotCreated'
  BY <1>0 DEF UdpInv, TypeOK, GroupSteps, ChangeSteps, NotCreated, IoRelease,
     objdefr, Object, linkvars, grpvars, callvars, constvars, pipevars,
     recvvars
<1>3. RefsAccounted'
  <2>1. InCall' = InCall
    BY DEF InCall, callvars, IoRelease
  <2> QED
    BY <2>1, InCallFinite DEF UdpInv, TypeOK, NotCreated, RefsAccounted,
       IoRelease, objdefr, Object, linkvars, grpvars, callvars, constvars,
       pipevars, recvvars
<1>4. KeepsReceiving'
  BY DEF UdpInv, TypeOK, NotCreated, KeepsReceiving, IoRelease, objdefr,
     Object, linkvars, grpvars, callvars, constvars, pipevars, recvvars
<1>5. GroupCallAlone'
  BY DEF UdpInv, TypeOK, GroupSteps, ChangeSteps, GroupCallAlone, IoRelease,
     objdefr, Object, linkvars, grpvars, callvars, constvars, pipevars,
     recvvars
<1>6. GroupTracked'
  BY DEF UdpInv, TypeOK, GroupSteps, ChangeSteps, GroupCallAlone,
     GroupTracked, IoRelease, objdefr, Object, linkvars, grpvars, callvars,
     constvars, pipevars, recvvars
<1>7. RaiseArgs'
  BY DEF UdpInv, TypeOK, GroupSteps, ChangeSteps, RaiseArgs, IoRelease,
     objdefr, Object, linkvars, grpvars, callvars, constvars, pipevars,
     recvvars
<1> QED
  BY <1>1, <1>2, <1>3, <1>4, <1>5, <1>6, <1>7 DEF UdpInv

-----------------------------------------------------------------------------
(* The theorems                                                            *)

\* Every step of the specification preserves the invariant.
LEMMA NextInv == UdpInv /\ [Next]_vars => UdpInv'
<1> SUFFICES ASSUME UdpInv, [Next]_vars PROVE UdpInv'
  OBVIOUS
<1>1. ASSUME NEW t \in Threads, Begin(t) PROVE UdpInv'
  <2>1. CASE udp_create(t)
    BY <2>1, Udp_createInv
  <2>2. CASE udp_destroy(t)
    BY <2>2, Udp_destroyInv
  <2>3. CASE \/ udp_write(t) \/ udp_getaddr(t) \/ udp_setopt(t) \/ udp_getopt(t)
             \/ udp_initialize_grp(t)
    BY <2>3, CallInv DEF udp_write, udp_getaddr, udp_setopt, udp_getopt,
       udp_initialize_grp
  <2>4. CASE \E a \in Addresses : udp_raise_grp(t, a)
    BY <2>4, Udp_raise_grpInv
  <2>5. CASE udp_detach_grp(t) \/ udp_write_grp(t)
    BY <2>5, Udp_detach_grpInv, Udp_write_grpInv
  <2>6. CASE \E g \in Groups : udp_joingrp(t, g)
    BY <2>6, Udp_joingrpInv
  <2>7. CASE udp_dropgrp(t)
    BY <2>7, Udp_dropgrpInv
  <2>8. CASE udp_awaken(t)
    BY <2>8, Udp_awakenInv
  <2> QED
    BY <1>1, <2>1, <2>2, <2>3, <2>4, <2>5, <2>6, <2>7, <2>8 DEF Begin
<1>2. ASSUME NEW t \in Threads, Step(t) PROVE UdpInv'
  BY <1>2, AllocateRecvInv, FirstRecvInv, ReturnInv, SendtoInv, IocloseInv,
     RaiseTestInv, Syio_v_connectInv, RaiseMarkInv, Syio_v_disconnectInv,
     DisconnectInv, Syio_grp_sendInv DEF Step
<1>3. CASE Received \/ Unreachable \/ Failed \/ Empty \/ NoEntry
  BY <1>3, ReceivedInv, UnreachableInv, FailedInv, EmptyInv, NoEntryInv
<1>4. CASE IoStep \/ so_dispatch_pipe_event
  BY <1>4, RepostInv, IoReleaseInv, So_dispatch_pipe_eventInv DEF IoStep
<1>5. CASE UNCHANGED vars
  <2>1. InCall' = InCall
    BY <1>5 DEF InCall, vars, callvars
  <2>2. TypeOK' /\ NotCreated' /\ RefsAccounted'
    BY <1>5, <2>1 DEF UdpInv, TypeOK, NotCreated, RefsAccounted, vars, linkvars,
       grpvars, callvars, constvars, pipevars, recvvars
  <2>3. KeepsReceiving' /\ RaiseArgs' /\ GroupCallAlone' /\ GroupTracked'
    BY <1>5 DEF UdpInv, KeepsReceiving, RaiseArgs, GroupCallAlone, GroupTracked,
       vars, linkvars, grpvars, callvars, recvvars
  <2> QED
    BY <2>2, <2>3 DEF UdpInv
<1> QED
  BY <1>1, <1>2, <1>3, <1>4, <1>5 DEF Next

\* The invariant holds in every reachable state.
THEOREM UdpInvariant == Spec => []UdpInv
<1>1. Init => UdpInv
  BY InitInv
<1>2. UdpInv /\ [Next]_vars => UdpInv'
  BY NextInv
<1> QED
  BY <1>1, <1>2, PTL DEF Spec

\* Every way out of a call or a dispatch drops its reference, except that of
\* udp_awaken and so_dispatch_pipe_event, and nobody is in a call on an
\* unloaded link (objdefr in udp.c).
THEOREM UdpRefsAccounted == Spec => []RefsAccounted
<1>1. UdpInv => RefsAccounted
  BY DEF UdpInv
<1> QED
  BY <1>1, UdpInvariant, PTL

\* An open link keeps its receive request through every completion
\* (udp_dispatch_io_recv, udp_dispatch_io_exception).
THEOREM UdpKeepsReceiving == Spec => []KeepsReceiving
<1>1. UdpInv => KeepsReceiving
  BY DEF UdpInv
<1> QED
  BY <1>1, UdpInvariant, PTL

\* The recorded host is the one the socket sends groups to, unless a raise or a
\* detach overlaps another group call (udp_raise_grp, udp_detach_grp,
\* udp_write_grp).
THEOREM UdpGroupTracked == Spec => []GroupTracked
<1>1. UdpInv => GroupTracked
  BY DEF UdpInv
<1> QED
  BY <1>1, UdpInvariant, PTL
=============================================================================
