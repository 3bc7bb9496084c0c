-------------------------------- MODULE Udp --------------------------------
(***************************************************************************)
(* One UDP link (udp.c, the UDP part of packet.c): its creation, the       *)
(* receive request that is posted again after every completion, the calls  *)
(* of several threads of the program, the pseudo connection of the group   *)
(* sends, multicast membership, awakening the I/O thread through its port  *)
(* (udp_awaken, so_dispatch_pipe_event), and the end of the link by        *)
(* udp_destroy, by a failed completion or by an empty datagram.            *)
(*                                                                         *)
(* A call between objrefr and objdefr is a thread whose pc is not "idle"   *)
(* (creation excepted); calls that find no object return without effect    *)
(* and are no steps.  Everything the callback of a link does is a call of  *)
(* some thread.                                                            *)
(***************************************************************************)
EXTENDS Integers, FiniteSets

CONSTANTS Threads,    \* threads of the program
          Hosts,      \* IP addresses for the pseudo connection
          Ports,      \* and ports
          Groups,     \* multicast groups
          MaxAwaken,  \* bound: calls of udp_awaken that find the link
          None        \* no address, no group

ASSUME UdpAssumption ==
  /\ IsFiniteSet(Threads)
  /\ None \notin Hosts \cup Groups
  /\ None \notin Hosts \X Ports
  /\ MaxAwaken \in Nat

Addresses == Hosts \X Ports

VARIABLES
  stat,       \* of the object: "none", "normal", "closewait", "unloaded"
  refs,       \* its reference count
  sock,       \* sockfd: "none", "open", "closed"
  multicast,  \* flag_ & UDP_FLAG_MULTICAST
  packet,     \* the receive packet: "none", "held", "posted", "freed", "lost"
  connected_, \* the IP address of the pseudo connection
  peer,       \* the destination WSAConnect gave the socket (external)
  mreq,       \* the group in *mreq
  members,    \* the groups the socket is a member of (external)
  pc, arg,    \* of each thread
  io,         \* of the I/O thread: "wait", "repost", "release"
  pipe,       \* pipe packets queued at the port
  eintr,      \* the thread's errno, which Winsock never sets, happens to be EINTR
  leaked,     \* history: references nobody will drop
  deaf,       \* history: posting the receive request failed
  overlap     \* history: a change of the destination overlapped a group call

linkvars == <<stat, refs, sock>>
grpvars == <<connected_, peer, mreq, members, overlap>>
callvars == <<pc, arg>>
constvars == <<multicast, eintr>>
pipevars == <<pipe, leaked>>
recvvars == <<packet, io, deaf>>
vars == <<linkvars, grpvars, callvars, constvars, pipevars, recvvars>>

Init ==
  /\ stat = "none" /\ refs = 0 /\ sock = "none"
  /\ multicast \in BOOLEAN
  /\ packet = "none" /\ io = "wait" /\ deaf = FALSE
  /\ connected_ = None /\ peer = None /\ mreq = None /\ members = {}
  /\ overlap = FALSE
  /\ pc = [t \in Threads |-> "idle"] /\ arg = [t \in Threads |-> None]
  /\ pipe = 0 /\ leaked = 0
  /\ eintr \in BOOLEAN

Goto(t, step) == pc' = [pc EXCEPT ![t] = step] /\ UNCHANGED arg

-----------------------------------------------------------------------------
(* The object table (external: object.h)                                   *)

\* The object becomes `s' with n references; without any it is unloaded, which
\* closes the socket (udp_unload).
Object(s, n) ==
  /\ refs' = n
  /\ stat' = IF s = "closewait" /\ n = 0 THEN "unloaded" ELSE s
  /\ sock' = IF stat' = "unloaded" THEN "closed" ELSE sock

objdefr == Object(stat, refs - 1)

objclos(n) == Object(IF stat = "normal" THEN "closewait" ELSE stat, n)

\* An idle thread that has the handle, from the return of udp_create or from an
\* event, and the object is open.
CanRefer(t) ==
  /\ pc[t] = "idle"
  /\ stat = "normal"
  /\ \A u \in Threads : pc[u] \notin {"array", "post"}

\* A thread references the object and goes on.
objrefr(t, step) ==
  /\ CanRefer(t)
  /\ Object(stat, refs + 1)
  /\ Goto(t, step)

-----------------------------------------------------------------------------
(* udp_create                                                              *)

\* udp_allocate_object; the callback is installed last, so the unload of an
\* object whose udp_entry failed raises no event.
udp_create(t) ==
  /\ pc[t] = "idle"
  /\ stat = "none"
  /\ \/ stat' = "normal" /\ sock' = "open" /\ Goto(t, "array")
     \/ stat' = "unloaded" /\ sock' = "closed" /\ UNCHANGED callvars
  /\ UNCHANGED <<refs, grpvars, constvars, pipevars, recvvars>>

\* udp_allocate_recv_array, one packet: so_asio_count is 1
AllocateRecv(t) ==
  /\ pc[t] = "array"
  /\ \/ packet' = "held" /\ Goto(t, "post") /\ UNCHANGED linkvars
     \/ objclos(refs) /\ Goto(t, "idle") /\ UNCHANGED packet
  /\ UNCHANGED <<grpvars, constvars, pipevars, io, deaf>>

\* asio_udp_recv, whose result every caller ignores.
asio_udp_recv ==
  \/ stat = "normal" /\ sock = "open" /\ packet' = "posted" /\ UNCHANGED deaf
  \/ packet' = "lost" /\ deaf' = TRUE

FirstRecv(t) ==
  /\ pc[t] = "post"
  /\ asio_udp_recv
  /\ Goto(t, "idle")
  /\ UNCHANGED <<linkvars, grpvars, constvars, pipevars, io>>

-----------------------------------------------------------------------------
(* udp_dispatch_io_event, on the I/O thread                                *)

\* The link can be referenced: the packet is handled.
Completion(next) ==
  /\ io = "wait"
  /\ packet = "posted"
  /\ stat = "normal"
  /\ io' = next
  /\ UNCHANGED <<grpvars, callvars, constvars, pipevars, deaf>>

\* udp_dispatch_io_recv: EVT_RECEIVEDATA, then the request is posted again.
Received ==
  Completion("repost") /\ Object(stat, refs + 1) /\ packet' = "held"

\* Mutant of Unreachable: the packet is not posted again.
UnreachableDropped ==
  Completion("release") /\ Object(stat, refs + 1) /\ packet' = "lost"

\* udp_dispatch_io_exception for the three ICMP states: the link remains.
Unreachable ==
  Completion("repost") /\ Object(stat, refs + 1) /\ packet' = "held"

\* ... and for any other failure: udp_shutdown_by_packet.
Failed ==
  Completion("release") /\ objclos(refs + 1) /\ packet' = "freed"

\* An empty datagram closes the link, without a reference.
Empty ==
  /\ io = "wait"
  /\ packet = "posted"
  /\ objclos(refs)
  /\ packet' = "freed"
  /\ UNCHANGED <<grpvars, callvars, constvars, pipevars, io, deaf>>

\* The link is gone: the completion, aborted or not, is dropped and with it
\* the packet.
NoEntry ==
  /\ io = "wait"
  /\ packet = "posted"
  /\ stat # "normal"
  /\ packet' = "lost"
  /\ UNCHANGED <<linkvars, grpvars, callvars, constvars, pipevars, io, deaf>>

Repost ==
  /\ io = "repost"
  /\ asio_udp_recv
  /\ io' = "release"
  /\ UNCHANGED <<linkvars, grpvars, callvars, constvars, pipevars>>

IoRelease ==
  /\ io = "release"
  /\ objdefr
  /\ io' = "wait"
  /\ UNCHANGED <<grpvars, callvars, constvars, pipevars, packet, deaf>>

-----------------------------------------------------------------------------
(* Calls with one reference                                                *)

Call(t, step) ==
  objrefr(t, step) /\ UNCHANGED <<grpvars, constvars, pipevars, recvvars>>

\* objdefr on every way out of a call
Return(t) ==
  /\ pc[t] = "return"
  /\ objdefr
  /\ Goto(t, "idle")
  /\ UNCHANGED <<grpvars, constvars, pipevars, recvvars>>

\* One system call on the socket, or a copy of an address.
udp_getaddr(t) == Call(t, "return")
udp_setopt(t) == Call(t, "return")
udp_getopt(t) == Call(t, "return")

\* The items of a group are allocated in the caller's memory.
udp_initialize_grp(t) == Call(t, "return")

\* Mutant of udp_write: without memory the call returns with its reference.
WriteNoMemory(t) == Call(t, "write") \/ Call(t, "idle")

\* The copy and the serializer may fail.
udp_write(t) == Call(t, "write") \/ Call(t, "return")

\* Mutant of Sendto: a failed sendto is always tried again.
SendtoRetried(t) ==
  /\ pc[t] = "write"
  /\ sock = "open"
  /\ Goto(t, "return")
  /\ UNCHANGED <<linkvars, grpvars, constvars, pipevars, recvvars>>

\* __udp_tx_single_packet: sendto succeeds, or fails and is tried again as
\* long as errno is EINTR.
Sendto(t) ==
  /\ pc[t] = "write"
  /\ sock = "open" \/ ~eintr
  /\ Goto(t, "return")
  /\ UNCHANGED <<linkvars, grpvars, constvars, pipevars, recvvars>>

\* objreff, ioclose, objdefr
udp_destroy(t) ==
  /\ CanRefer(t)
  /\ objclos(refs + 1)
  /\ Goto(t, "ioclose")
  /\ UNCHANGED <<grpvars, constvars, pipevars, recvvars>>

ioclose(t) ==
  /\ pc[t] = "ioclose"
  /\ sock' = "closed"
  /\ Goto(t, "return")
  /\ UNCHANGED <<stat, refs, grpvars, constvars, pipevars, recvvars>>

-----------------------------------------------------------------------------
(* Pseudo connection and multicast membership                              *)

\* The steps that change the destination of group sends, and all that use it.
ChangeSteps == {"raise", "connect", "mark", "detach", "disconnect"}
GroupSteps == ChangeSteps \cup {"transmit"}

\* A call on the pseudo connection begins, which the calls at `rivals' disturb.
GroupCall(t, step, a, rivals) ==
  /\ CanRefer(t)
  /\ Object(stat, refs + 1)
  /\ pc' = [pc EXCEPT ![t] = step]
  /\ arg' = [arg EXCEPT ![t] = a]
  /\ overlap' = (overlap \/ \E u \in Threads : pc[u] \in rivals)
  /\ UNCHANGED <<connected_, peer, mreq, members, constvars, pipevars, recvvars>>

\* A step inside such a call, with the new connected_ and destination.
GroupStep(t, from, to, c, p) ==
  /\ pc[t] = from
  /\ connected_' = c
  /\ peer' = p
  /\ pc' = [pc EXCEPT ![t] = to]
  /\ arg' = [arg EXCEPT ![t] = IF to = "return" THEN None ELSE @]
  /\ UNCHANGED <<linkvars, mreq, members, overlap, constvars, pipevars, recvvars>>

udp_raise_grp(t, a) == GroupCall(t, "raise", a, GroupSteps)

\* A link that is connected stays so, whatever address the call names.
RaiseTest(t) ==
  GroupStep(t, "raise", IF connected_ = None THEN "connect" ELSE "return",
            connected_, peer)

\* Mutant of syio_v_connect: a failure is not noticed.
ConnectUnchecked(t) ==
  \/ sock = "open" /\ GroupStep(t, "connect", "mark", connected_, arg[t])
  \/ GroupStep(t, "connect", "mark", connected_, peer)

\* WSAConnect, which may fail
syio_v_connect(t) ==
  \/ sock = "open" /\ GroupStep(t, "connect", "mark", connected_, arg[t])
  \/ GroupStep(t, "connect", "return", connected_, peer)

\* The port is not recorded.
RaiseMark(t) == GroupStep(t, "mark", "return", arg[t][1], peer)

udp_detach_grp(t) == GroupCall(t, "detach", None, GroupSteps)

\* connected_ is cleared before the system is asked ...
syio_v_disconnect(t) ==
  GroupStep(t, "detach", IF connected_ = None THEN "return" ELSE "disconnect",
            None, peer)

\* ... and stays so when it refuses.
Disconnect(t) ==
  \/ sock = "open" /\ GroupStep(t, "disconnect", "return", connected_, None)
  \/ GroupStep(t, "disconnect", "return", connected_, peer)

\* connected_ is tested once; the packet lives inside the call.
udp_write_grp(t) ==
  GroupCall(t, IF connected_ = None THEN "return" ELSE "transmit", None, ChangeSteps)

\* syio_grp_send references the object again: not when it is closing.
syio_grp_send(t) ==
  /\ pc[t] = "transmit"
  /\ Goto(t, "return")
  /\ UNCHANGED <<linkvars, grpvars, constvars, pipevars, recvvars>>

\* mreq is filled before the system is asked, and kept when it refuses.
udp_joingrp(t, g) ==
  /\ objrefr(t, "return")
  /\ \/ UNCHANGED <<mreq, members>>
     \/ multicast /\ mreq' = g /\ members' \in {members, members \cup {g}}
  /\ UNCHANGED <<connected_, peer, overlap, constvars, pipevars, recvvars>>

\* The group of the last join is left; mreq stays.
udp_dropgrp(t) ==
  /\ objrefr(t, "return")
  /\ \/ UNCHANGED members
     \/ multicast /\ mreq \in members /\ members' = members \ {mreq}
  /\ UNCHANGED <<connected_, peer, mreq, overlap, constvars, pipevars, recvvars>>

-----------------------------------------------------------------------------
(* The pipe                                                                *)

\* The reference of udp_awaken is dropped on no path.
udp_awaken(t) ==
  /\ CanRefer(t)
  /\ leaked < MaxAwaken
  /\ Object(stat, refs + 1)
  /\ leaked' = leaked + 1
  /\ pipe' \in {pipe, pipe + 1}
  /\ UNCHANGED <<grpvars, callvars, constvars, recvvars>>

\* EVT_PIPEDATA if the link can be referenced, which is not undone either.
so_dispatch_pipe_event ==
  /\ io = "wait"
  /\ pipe > 0
  /\ pipe' = pipe - 1
  /\ \/ stat = "normal" /\ Object(stat, refs + 1) /\ leaked' = leaked + 1
     \/ stat # "normal" /\ UNCHANGED <<linkvars, leaked>>
  /\ UNCHANGED <<grpvars, callvars, constvars, recvvars>>

-----------------------------------------------------------------------------

Step(t) ==
  \/ AllocateRecv(t) \/ FirstRecv(t) \/ Return(t) \/ Sendto(t) \/ ioclose(t)
  \/ RaiseTest(t) \/ syio_v_connect(t) \/ RaiseMark(t)
  \/ syio_v_disconnect(t) \/ Disconnect(t) \/ syio_grp_send(t)

Begin(t) ==
  \/ udp_create(t) \/ udp_destroy(t) \/ udp_write(t) \/ udp_getaddr(t)
  \/ udp_setopt(t) \/ udp_getopt(t) \/ udp_initialize_grp(t)
  \/ \E a \in Addresses : udp_raise_grp(t, a)
  \/ udp_detach_grp(t) \/ udp_write_grp(t)
  \/ \E g \in Groups : udp_joingrp(t, g)
  \/ udp_dropgrp(t) \/ udp_awaken(t)

IoStep == Repost \/ IoRelease

Next ==
  \/ \E t \in Threads : Begin(t) \/ Step(t)
  \/ Received \/ Unreachable \/ Failed \/ Empty \/ NoEntry
  \/ IoStep
  \/ so_dispatch_pipe_event

Spec == Init /\ [][Next]_vars

\* A thread inside a call and the I/O thread go on; nothing forces a call, a
\* datagram or a failure.
FairSpec == Spec /\ WF_vars(IoStep) /\ \A t \in Threads : WF_vars(Step(t))
-----------------------------------------------------------------------------
(* Properties                                                              *)

TypeOK ==
  /\ stat \in {"none", "normal", "closewait", "unloaded"}
  /\ refs \in Nat
  /\ sock \in {"none", "open", "closed"}
  /\ packet \in {"none", "held", "posted", "freed", "lost"}
  /\ connected_ \in Hosts \cup {None}
  /\ peer \in Addresses \cup {None}
  /\ mreq \in Groups \cup {None}
  /\ members \subseteq Groups
  /\ pc \in [Threads -> {"idle", "array", "post", "return", "write", "ioclose"}
                         \cup GroupSteps]
  /\ arg \in [Threads -> Addresses \cup {None}]
  /\ io \in {"wait", "repost", "release"}
  /\ pipe \in Nat
  /\ leaked \in Nat
  /\ multicast \in BOOLEAN
  /\ eintr \in BOOLEAN
  /\ deaf \in BOOLEAN
  /\ overlap \in BOOLEAN

\* The threads in a call that holds a reference.
InCall == {t \in Threads : pc[t] \notin {"idle", "array", "post"}}

\* The only references that outlive a call or a dispatch are those of
\* udp_awaken and so_dispatch_pipe_event: every other way out drops its own,
\* and the object is never unloaded under a call.
RefsAccounted ==
  /\ refs = Cardinality(InCall) + leaked + (IF io = "wait" THEN 0 ELSE 1)
  /\ stat = "unloaded" => refs = 0

\* An open link has its receive request posted or in the hands of the I/O
\* thread, whatever states its completions had, unless the system refused to
\* take the request.
KeepsReceiving ==
  (stat = "normal" /\ packet # "none" /\ ~deaf) => packet \in {"held", "posted"}

\* If no raise or detach overlaps another call on the pseudo connection,
\* connected_ names the host the socket really sends to, also when WSAConnect
\* or the disconnection fails in between, and a group is handed to the system
\* while one is named.  Of the port it says nothing: connected_ has none, and a
\* raise for another port of the connected host reports success and leaves the
\* socket with the old one.
GroupTracked ==
  ~overlap =>
    /\ connected_ # None => peer # None /\ peer[1] = connected_
    /\ \A t \in Threads : pc[t] = "transmit" => connected_ # None

\* A link that is closed is unloaded, except when it was awakened once, or a
\* writer repeats sendto on the closed socket because errno is EINTR.
UdpEnds == (stat = "closewait" /\ leaked = 0 /\ ~eintr) ~> (stat = "unloaded")

\* The comment of os_allocate_block: what it allocates, here the locked pages
\* of the receive packet, has to be released explicitly.  (Packets whose request
\* could not be posted are left aside.)
BlockReleased == deaf \/ packet # "lost"
-----------------------------------------------------------------------------
(* The inductive invariant behind the theorems of UdpProofs                *)

\* Before udp_create made the object nobody uses it.
NotCreated ==
  stat = "none" => /\ refs = 0
                   /\ packet = "none"
                   /\ \A t \in Threads : pc[t] = "idle"

\* A raise has an address to connect to.
RaiseArgs ==
  \A t \in Threads : pc[t] \in {"raise", "connect", "mark"} => arg[t] \in Addresses

\* A change that does not overlap found, or made, the link unconnected, and
\* connected_ is written after the system agreed.
GroupCallAlone ==
  ~overlap =>
    /\ \A t, u \in Threads : pc[t] \in ChangeSteps /\ pc[u] \in GroupSteps => t = u
    /\ \A t \in Threads :
         /\ pc[t] \in {"connect", "mark", "disconnect"} => connected_ = None
         /\ pc[t] = "mark" => peer = arg[t]

UdpInv ==
  /\ TypeOK
  /\ NotCreated
  /\ RefsAccounted
  /\ KeepsReceiving
  /\ RaiseArgs
  /\ GroupCallAlone
  /\ GroupTracked
=============================================================================
