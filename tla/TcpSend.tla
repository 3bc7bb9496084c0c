------------------------------ MODULE TcpSend ------------------------------
(***************************************************************************)
(* The send path of one TCP link: tcp_write and tcp_try_write (tcp.c),     *)
(* the completion of a WSASend on the link's I/O thread                    *)
(* (tcp_dispatch_io_send, tcp_dispatch_io_exception), and the closing of   *)
(* the link by tcp_destroy, by the peer or by a failed request             *)
(* (tcp_shutdown_by_packet, tcp_unload).                                   *)
(*                                                                         *)
(* Any number of threads call tcp_write and tcp_destroy on the link.  The  *)
(* completions of a link are handled by one thread, because ioatth binds   *)
(* the socket to the completion port epos[hld % divisions] and each port   *)
(* has one thread (io.c).  Every Interlocked operation, every acquisition  *)
(* of tcp_sender_locker_ and every call into the system is a step of its   *)
(* own; statements between two of them that touch only data private to the *)
(* thread, or guarded by the lock it holds, are folded into one step.      *)
(***************************************************************************)
EXTENDS Naturals, Sequences, FiniteSets

CONSTANTS Writers,     \* the threads that call tcp_write and tcp_destroy
          IO,          \* the I/O thread the link is bound to
          Packets,     \* the packets tcp_write can allocate (bounds a run)
          CacheLimit,  \* TCP_MAXIMUM_SENDER_CACHED_CNT_PRE_LINK
          NoPkt,       \* the NULL packet pointer
          NoThread     \* nobody owns the critical section

ASSUME TcpSendAssumption ==
  /\ IsFiniteSet(Writers)
  /\ IO \notin Writers
  /\ NoThread \notin Writers \cup {IO}
  /\ NoPkt \notin Packets
  /\ CacheLimit \in Nat \ {0}

Threads == Writers \cup {IO}

VARIABLES
  stat,       \* of the link's object: "normal", "closewait" or "unloaded"
  refs,       \* its reference count
  sockfd,     \* "open" or "closed" (INVALID_SOCKET)
  queue,      \* tcp_sender_cache_head_
  list_size,  \* tcp_sender_list_size_
  pending,    \* tcp_write_pending_
  locker,     \* the owner of tcp_sender_locker_
  pc,         \* where each thread is
  packet,     \* per thread: the packet it must still free or hand over
  next_packet,\* per thread: the packet it took from the queue to send
  inflight,   \* the packets the system owns: WSASend accepted, not completed
  heap,       \* of each packet: "unallocated", "live" or "freed"
  accepted,   \* history: the packets linked into the queue, in order
  wire        \* history: the packets WSASend accepted, in order

objvars == <<stat, refs, sockfd>>
listvars == <<queue, list_size>>
vars == <<stat, refs, sockfd, queue, list_size, pending, locker, pc, packet,
          next_packet, inflight, heap, accepted, wire>>

Steps == {"idle", "check", "enter", "locked", "undo", "inc", "dec", "pop",
          "send", "post", "iodone", "iofail", "ioclose", "exit"}

Init ==
  /\ stat = "normal"
  /\ refs = 0
  /\ sockfd = "open"
  /\ queue = <<>>
  /\ list_size = 0
  /\ pending = 0
  /\ locker = NoThread
  /\ pc = [t \in Threads |-> "idle"]
  /\ packet = [t \in Threads |-> NoPkt]
  /\ next_packet = [t \in Threads |-> NoPkt]
  /\ inflight = {}
  /\ heap = [p \in Packets |-> "unallocated"]
  /\ accepted = <<>>
  /\ wire = <<>>

Goto(t, step) == pc' = [pc EXCEPT ![t] = step]

Elements(s) == {s[i] : i \in 1..Len(s)}

\* freepkt of every packet of S
freepkt(S) == heap' = [p \in Packets |-> IF p \in S THEN "freed" ELSE heap[p]]

-----------------------------------------------------------------------------
(* The object table (external: object.h).  A handle can be referenced only *)
(* while nobody asked for its end; the unload routine runs when the object *)
(* is closing and its last reference is dropped.                           *)

\* tcp_unload: the socket is closed and every cached packet is freed.
tcp_unload(S) ==
  /\ stat' = "unloaded"
  /\ sockfd' = "closed"
  /\ queue' = <<>>
  /\ list_size' = 0
  /\ freepkt(S \cup Elements(queue))

\* objclos by a thread without a reference of its own, then freepkt(S)
objclos(S) ==
  /\ UNCHANGED refs
  /\ \/ /\ stat = "normal"
        /\ refs = 0
        /\ tcp_unload(S)
     \/ /\ stat = "normal"
        /\ refs > 0
        /\ stat' = "closewait"
        /\ freepkt(S)
        /\ UNCHANGED <<sockfd, listvars>>
     \/ /\ stat # "normal"
        /\ freepkt(S)
        /\ UNCHANGED <<stat, sockfd, listvars>>

\* freepkt(S), then objdefr
objdefr(S) ==
  /\ refs' = refs - 1
  /\ \/ /\ stat = "closewait"
        /\ refs = 1
        /\ tcp_unload(S)
     \/ /\ ~(stat = "closewait" /\ refs = 1)
        /\ freepkt(S)
        /\ UNCHANGED <<stat, sockfd, listvars>>

objrefr ==
  /\ stat = "normal"
  /\ refs' = refs + 1
  /\ UNCHANGED <<stat, sockfd>>

-----------------------------------------------------------------------------
(* tcp_write                                                               *)

\* Mutant of tcp_write: the link is looked up without a reference.
WriteUnreferenced(t) ==
  /\ pc[t] = "idle"
  /\ stat = "normal"
  /\ Goto(t, "check")
  /\ UNCHANGED <<objvars, listvars, pending, locker, packet, next_packet,
                 inflight, heap, accepted, wire>>

\* tcprefr succeeds.
tcp_write(t) ==
  /\ pc[t] = "idle"
  /\ objrefr
  /\ Goto(t, "check")
  /\ UNCHANGED <<listvars, pending, locker, packet, next_packet, inflight,
                 heap, accepted, wire>>

\* tcprefr fails: -ENOENT, nothing happened.
WriteNoEntry(t) ==
  /\ pc[t] = "idle"
  /\ stat # "normal"
  /\ UNCHANGED vars

\* The check of the cached count, made without the lock, refuses the call.
WriteRefused(t) ==
  /\ pc[t] = "check"
  /\ list_size >= CacheLimit
  /\ Goto(t, "exit")
  /\ UNCHANGED <<objvars, listvars, pending, locker, packet, next_packet,
                 inflight, heap, accepted, wire>>

\* No memory, or the builder or the serializer refuses: the call fails.
WriteNotBuilt(t) ==
  /\ pc[t] = "check"
  /\ list_size < CacheLimit
  /\ Goto(t, "exit")
  /\ UNCHANGED <<objvars, listvars, pending, locker, packet, next_packet,
                 inflight, heap, accepted, wire>>

WriteBuilt(t) ==
  /\ pc[t] = "check"
  /\ list_size < CacheLimit
  /\ \E p \in Packets :
       /\ heap[p] = "unallocated"
       /\ heap' = [heap EXCEPT ![p] = "live"]
       /\ packet' = [packet EXCEPT ![t] = p]
  /\ Goto(t, "enter")
  /\ UNCHANGED <<objvars, listvars, pending, locker, next_packet, inflight,
                 accepted, wire>>

-----------------------------------------------------------------------------
(* tcp_try_write.  A writer calls it with its packet, the I/O thread with  *)
(* NULL.                                                                   *)

EnterLock(t) ==
  /\ pc[t] = "enter"
  /\ locker = NoThread
  /\ locker' = t
  /\ Goto(t, "locked")
  /\ UNCHANGED <<objvars, listvars, pending, packet, next_packet, inflight,
                 heap, accepted, wire>>

\* Mutant of AddTail: the caller still owns, and frees, the packet it linked.
AddTailKept(t) ==
  /\ pc[t] = "locked"
  /\ t # IO
  /\ list_size + 1 < CacheLimit
  /\ list_size' = list_size + 1
  /\ queue' = Append(queue, packet[t])
  /\ accepted' = Append(accepted, packet[t])
  /\ Goto(t, "inc")
  /\ UNCHANGED <<objvars, pending, locker, packet, next_packet, inflight, heap,
                 wire>>

\* The incremented count is below the limit: the packet joins the tail, and
\* the caller no longer owns it.
AddTail(t) ==
  /\ pc[t] = "locked"
  /\ t # IO
  /\ list_size + 1 < CacheLimit
  /\ list_size' = list_size + 1
  /\ queue' = Append(queue, packet[t])
  /\ accepted' = Append(accepted, packet[t])
  /\ packet' = [packet EXCEPT ![t] = NoPkt]
  /\ Goto(t, "inc")
  /\ UNCHANGED <<objvars, pending, locker, next_packet, inflight, heap, wire>>

\* The incremented count reaches the limit ...
Overflow(t) ==
  /\ pc[t] = "locked"
  /\ t # IO
  /\ list_size + 1 >= CacheLimit
  /\ list_size' = list_size + 1
  /\ Goto(t, "undo")
  /\ UNCHANGED <<objvars, queue, pending, locker, packet, next_packet,
                 inflight, heap, accepted, wire>>

\* Mutant of UndoOverflow: the count of a refused packet stays.
UndoForgotten(t) ==
  /\ pc[t] = "undo"
  /\ locker' = NoThread
  /\ Goto(t, "exit")
  /\ UNCHANGED <<objvars, listvars, pending, packet, next_packet, inflight,
                 heap, accepted, wire>>

\* ... and is taken back; the caller keeps its packet and will free it.
UndoOverflow(t) ==
  /\ pc[t] = "undo"
  /\ list_size' = list_size - 1
  /\ locker' = NoThread
  /\ Goto(t, "exit")
  /\ UNCHANGED <<objvars, queue, pending, packet, next_packet, inflight,
                 heap, accepted, wire>>

\* The I/O thread asks for the next packet; the cache is empty.
NothingCached ==
  /\ pc[IO] = "locked"
  /\ queue = <<>>
  /\ locker' = NoThread
  /\ Goto(IO, "exit")
  /\ UNCHANGED <<objvars, listvars, pending, packet, next_packet, inflight,
                 heap, accepted, wire>>

SomethingCached ==
  /\ pc[IO] = "locked"
  /\ queue # <<>>
  /\ Goto(IO, "inc")
  /\ UNCHANGED <<objvars, listvars, pending, locker, packet, next_packet,
                 inflight, heap, accepted, wire>>

\* Mutant of IncPending: the incremented count is not tested.
IncPendingUnchecked(t) ==
  /\ pc[t] = "inc"
  /\ pending' = pending + 1
  /\ Goto(t, "pop")
  /\ UNCHANGED <<objvars, listvars, locker, packet, next_packet, inflight,
                 heap, accepted, wire>>

\* InterlockedIncrement(tcp_write_pending_) > 1 ?
IncPending(t) ==
  /\ pc[t] = "inc"
  /\ pending' = pending + 1
  /\ Goto(t, IF pending' > 1 THEN "dec" ELSE "pop")
  /\ UNCHANGED <<objvars, listvars, locker, packet, next_packet, inflight,
                 heap, accepted, wire>>

\* Mutant of DecPending: the thread waits for the transmitter instead of leaving.
DecPendingSpin(t) ==
  /\ pc[t] = "dec"
  /\ pending' = pending - 1
  /\ Goto(t, "inc")
  /\ UNCHANGED <<objvars, listvars, locker, packet, next_packet, inflight, heap,
                 accepted, wire>>

\* InterlockedDecrement(tcp_write_pending_) > 0 : somebody else transmits and
\* will look at the queue again; otherwise the transmission ended meanwhile
\* and the thread tries once more.
DecPending(t) ==
  /\ pc[t] = "dec"
  /\ pending' = pending - 1
  /\ \/ /\ pending' > 0
        /\ locker' = NoThread
        /\ Goto(t, "exit")
     \/ /\ ~(pending' > 0)
        /\ UNCHANGED locker
        /\ Goto(t, "inc")
  /\ UNCHANGED <<objvars, listvars, packet, next_packet, inflight, heap,
                 accepted, wire>>

PopHead(t) ==
  /\ pc[t] = "pop"
  /\ next_packet' = [next_packet EXCEPT ![t] = Head(queue)]
  /\ queue' = Tail(queue)
  /\ list_size' = list_size - 1
  /\ locker' = NoThread
  /\ Goto(t, "send")
  /\ UNCHANGED <<objvars, pending, packet, inflight, heap, accepted, wire>>

\* asio_tcp_send references the object once more (the caller keeps its own
\* reference meanwhile, so the nested one never decides when to unload).
SendReferenced(t) ==
  /\ pc[t] = "send"
  /\ stat = "normal"
  /\ Goto(t, "post")
  /\ UNCHANGED <<objvars, listvars, pending, locker, packet, next_packet,
                 inflight, heap, accepted, wire>>

\* WSASend takes the packet; the link may have begun to close meanwhile.
SendPosted(t) ==
  /\ pc[t] = "post"
  /\ sockfd = "open"
  /\ inflight' = inflight \cup {next_packet[t]}
  /\ wire' = Append(wire, next_packet[t])
  /\ next_packet' = [next_packet EXCEPT ![t] = NoPkt]
  /\ Goto(t, "exit")
  /\ UNCHANGED <<objvars, listvars, pending, locker, packet, heap, accepted>>

\* Mutant of SendFailed: the nested reference is not dropped.
SendFailedReferenced(t) ==
  /\ \/ pc[t] = "send" /\ stat # "normal" /\ UNCHANGED refs
     \/ pc[t] = "post" /\ refs' = refs + 1
  /\ stat' = (IF stat = "normal" THEN "closewait" ELSE stat)
  /\ freepkt({next_packet[t]})
  /\ next_packet' = [next_packet EXCEPT ![t] = NoPkt]
  /\ Goto(t, "exit")
  /\ UNCHANGED <<sockfd, listvars, pending, locker, packet, inflight, accepted,
                 wire>>

\* Mutant of SendFailed: the packet is dropped and the link is not closed.
SendFailedOpen(t) ==
  /\ \/ pc[t] = "send" /\ stat # "normal"
     \/ pc[t] = "post"
  /\ freepkt({next_packet[t]})
  /\ next_packet' = [next_packet EXCEPT ![t] = NoPkt]
  /\ Goto(t, "exit")
  /\ UNCHANGED <<objvars, listvars, pending, locker, packet, inflight, accepted,
                 wire>>

\* Mutant of SendFailed: the packet is dropped and the next one may follow.
SendFailedGoesOn(t) ==
  /\ pc[t] = "post"
  /\ freepkt({next_packet[t]})
  /\ next_packet' = [next_packet EXCEPT ![t] = NoPkt]
  /\ pending' = pending - 1
  /\ Goto(t, "exit")
  /\ UNCHANGED <<objvars, listvars, locker, packet, inflight, accepted, wire>>

\* asio_tcp_send fails: no reference, or WSASend reports an error without
\* IO_PENDING.  tcp_shutdown_by_packet closes the link and frees the packet;
\* tcp_write_pending_ is not decremented.
SendFailed(t) ==
  /\ \/ pc[t] = "send" /\ stat # "normal"
     \/ pc[t] = "post"
  /\ stat' = (IF stat = "normal" THEN "closewait" ELSE stat)
  /\ freepkt({next_packet[t]})
  /\ next_packet' = [next_packet EXCEPT ![t] = NoPkt]
  /\ Goto(t, "exit")
  /\ UNCHANGED <<refs, sockfd, listvars, pending, locker, packet, inflight,
                 accepted, wire>>

\* The tail of tcp_write, tcp_dispatch_io_send, tcp_dispatch_io_exception and
\* tcp_destroy: free the packet that is still owned, drop the reference.
Return(t) ==
  /\ pc[t] = "exit"
  /\ objdefr({packet[t]} \ {NoPkt})
  /\ packet' = [packet EXCEPT ![t] = NoPkt]
  /\ Goto(t, "idle")
  /\ UNCHANGED <<pending, locker, next_packet, inflight, accepted, wire>>

-----------------------------------------------------------------------------
(* Completions, on the I/O thread                                          *)

\* tcp_dispatch_io_send with a positive size and a link that can still be
\* referenced; NULL reference: the packet is just freed.
CompleteSent(p) ==
  /\ pc[IO] = "idle"
  /\ p \in inflight
  /\ inflight' = inflight \ {p}
  /\ \/ /\ objrefr
        /\ packet' = [packet EXCEPT ![IO] = p]
        /\ Goto(IO, "iodone")
        /\ UNCHANGED heap
     \/ /\ stat # "normal"
        /\ freepkt({p})
        /\ UNCHANGED <<objvars, packet, pc>>
  /\ UNCHANGED <<listvars, pending, locker, next_packet, accepted, wire>>

\* A size of zero, or one of the three statuses that mean the connection is
\* gone: tcp_shutdown_by_packet.
CompleteDisconnected(p) ==
  /\ pc[IO] = "idle"
  /\ p \in inflight
  /\ inflight' = inflight \ {p}
  /\ objclos({p})
  /\ UNCHANGED <<pending, locker, pc, packet, next_packet, accepted, wire>>

\* Any other failed status: the link is kept and the next packet is tried.
CompleteFailed(p) ==
  /\ pc[IO] = "idle"
  /\ p \in inflight
  /\ inflight' = inflight \ {p}
  /\ \/ /\ objrefr
        /\ packet' = [packet EXCEPT ![IO] = p]
        /\ Goto(IO, "iofail")
        /\ UNCHANGED heap
     \/ /\ stat # "normal"
        /\ freepkt({p})
        /\ UNCHANGED <<objvars, packet, pc>>
  /\ UNCHANGED <<listvars, pending, locker, next_packet, accepted, wire>>

\* Mutant of ReleasePending: the completion waits until nothing is cached.
ReleaseWaits ==
  /\ pc[IO] = "iodone"
  /\ pending' = IF queue = <<>> THEN pending - 1 ELSE pending
  /\ Goto(IO, IF queue = <<>> THEN "enter" ELSE "iodone")
  /\ UNCHANGED <<objvars, listvars, locker, packet, next_packet, inflight,
                 heap, accepted, wire>>

\* The pending count falls before tcp_try_write is called.
ReleasePending ==
  /\ pc[IO] = "iodone"
  /\ pending' = pending - 1
  /\ Goto(IO, "enter")
  /\ UNCHANGED <<objvars, listvars, locker, packet, next_packet, inflight,
                 heap, accepted, wire>>

\* Mutant of ReleaseFailed: a failed transmission is not followed by the next one.
ReleaseFailedOnly ==
  /\ pc[IO] = "iofail"
  /\ pending' = pending - 1
  /\ freepkt({packet[IO]})
  /\ packet' = [packet EXCEPT ![IO] = NoPkt]
  /\ Goto(IO, "exit")
  /\ UNCHANGED <<objvars, listvars, locker, next_packet, inflight, accepted,
                 wire>>

ReleaseFailed ==
  /\ pc[IO] = "iofail"
  /\ pending' = pending - 1
  /\ freepkt({packet[IO]})
  /\ packet' = [packet EXCEPT ![IO] = NoPkt]
  /\ Goto(IO, "enter")
  /\ UNCHANGED <<objvars, listvars, locker, next_packet, inflight, accepted,
                 wire>>

-----------------------------------------------------------------------------
(* Closing                                                                 *)

\* The pending receive request completes with zero bytes or an error: the
\* link is closed through its packet, which this module does not follow.
PeerClosed ==
  /\ pc[IO] = "idle"
  /\ stat = "normal"
  /\ objclos({})
  /\ UNCHANGED <<pending, locker, pc, packet, next_packet, inflight, accepted,
                 wire>>

\* tcp_destroy: objreff takes the last reference that can be taken.
tcp_destroy(t) ==
  /\ pc[t] = "idle"
  /\ stat = "normal"
  /\ stat' = "closewait"
  /\ refs' = refs + 1
  /\ Goto(t, "ioclose")
  /\ UNCHANGED <<sockfd, listvars, pending, locker, packet, next_packet,
                 inflight, heap, accepted, wire>>

ioclose(t) ==
  /\ pc[t] = "ioclose"
  /\ sockfd' = "closed"
  /\ Goto(t, "exit")
  /\ UNCHANGED <<stat, refs, listvars, pending, locker, packet, next_packet,
                 inflight, heap, accepted, wire>>

-----------------------------------------------------------------------------
\* The steps a thread takes by itself once it is in a call.
Continue(t) ==
  \/ WriteRefused(t) \/ WriteNotBuilt(t) \/ WriteBuilt(t)
  \/ EnterLock(t) \/ AddTail(t) \/ Overflow(t) \/ UndoOverflow(t)
  \/ IncPending(t) \/ DecPending(t) \/ PopHead(t)
  \/ SendReferenced(t) \/ SendPosted(t) \/ SendFailed(t)
  \/ ioclose(t) \/ Return(t)

ContinueIO ==
  NothingCached \/ SomethingCached \/ ReleasePending \/ ReleaseFailed

Complete(p) == CompleteSent(p) \/ CompleteDisconnected(p) \/ CompleteFailed(p)

Next ==
  \/ \E t \in Writers : tcp_write(t) \/ WriteNoEntry(t) \/ tcp_destroy(t)
  \/ \E t \in Threads : Continue(t)
  \/ ContinueIO
  \/ \E p \in Packets : Complete(p)
  \/ PeerClosed

Spec == Init /\ [][Next]_vars

\* Threads are scheduled.  Nothing makes the system complete a request: the
\* comment at the head of ncb.c says that it does not while the window of the
\* peer is full.  Nor is a caller made to write or destroy, or the peer to close.
Fairness ==
  /\ \A t \in Threads : WF_vars(Continue(t))
  /\ WF_vars(ContinueIO)

FairSpec == Spec /\ Fairness
-----------------------------------------------------------------------------
(* Properties                                                              *)

TypeOK ==
  /\ stat \in {"normal", "closewait", "unloaded"}
  /\ refs \in Nat
  /\ sockfd \in {"open", "closed"}
  /\ queue \in Seq(Packets)
  /\ list_size \in Nat
  /\ pending \in Nat
  /\ locker \in Threads \cup {NoThread}
  /\ pc \in [Threads -> Steps]
  /\ packet \in [Threads -> Packets \cup {NoPkt}]
  /\ next_packet \in [Threads -> Packets \cup {NoPkt}]
  /\ inflight \in SUBSET Packets
  /\ heap \in [Packets -> {"unallocated", "live", "freed"}]
  /\ accepted \in Seq(Packets)
  /\ wire \in Seq(Packets)

\* The threads that won tcp_write_pending_ and did not give it back yet.
Transmitters ==
  {t \in Threads : pc[t] \in {"pop", "send", "post", "iodone", "iofail"}}

\* Somebody will look at the queue again when this transmission ends.
Transmitting == Transmitters # {} \/ inflight # {}

\* The packet a thread took from the queue and did not post yet.
Taken ==
  {next_packet[t] : t \in {u \in Threads : pc[u] \in {"send", "post"}}}

\* What the transmit slot of the link holds: a packet about to be given to
\* WSASend, owned by the system, or completed and not yet accounted for.
Slot ==
  Taken
    \cup inflight
    \cup {packet[t] : t \in {u \in Threads : pc[u] \in {"iodone", "iofail"}}}

\* One request at a time: tcp_write_pending_, incremented and decremented
\* without regard to the lock by the I/O thread, still admits one transmitter
\* only.  Two overlapping WSASend calls could reach the wire in either order.
OneTransmitter ==
  /\ \A t, u \in Transmitters : t = u
  /\ \A p, q \in inflight : p = q
  /\ Transmitters = {} \/ inflight = {}

\* tcp_sender_list_size_ counts the cached packets (plus the increment that a
\* refused packet takes back), and stays below the limit, as the comment in
\* tcp_try_write demands.
CacheCounted ==
  /\ list_size = Len(queue) + (IF \E t \in Threads : pc[t] = "undo" THEN 1 ELSE 0)
  /\ Len(queue) < CacheLimit

\* No lost wake-up: while the link is open a cached packet is always somebody's
\* business - a transmission will end and look at the queue, or a thread is
\* already looking.  The decrement of the I/O thread races the double check
\* of the writers.
NoLostWakeup ==
  (stat = "normal" /\ queue # <<>>) =>
    \/ Transmitting
    \/ \E t \in Threads : pc[t] \in {"inc", "dec"}
    \/ pc[IO] \in {"enter", "locked"}

\* WSASend takes a beginning of what the callers of tcp_write had accepted, in
\* that order and without a gap, also when several threads write and the link
\* closes: a packet that WSASend refuses is never followed by another one, and
\* while the link is open an accepted packet was posted, is about to be, or is
\* cached.  This is about the order of posting only.  A request that fails
\* later, in its completion, is freed and the next packet is posted all the same
\* (tcp_dispatch_io_exception), so the peer may miss a packet that is in wire.
PostedInOrder ==
  /\ Len(wire) <= Len(accepted)
  /\ \A i \in 1..Len(wire) : wire[i] = accepted[i]
  /\ stat = "normal" =>
       Elements(accepted) \subseteq Elements(wire) \cup Taken \cup Elements(queue)

\* How many parties hold p and are to free it or pass it on.
OwnerCount(p) ==
  Cardinality({i \in 1..Len(queue) : queue[i] = p})
    + Cardinality({t \in Threads : packet[t] = p})
    + Cardinality({t \in Threads : next_packet[t] = p})
    + Cardinality({q \in inflight : q = p})

\* Every allocated packet has one owner until it is freed, and none after: no
\* path of tcp_write, the completions, the shutdown by packet or the unload
\* leaks a packet, frees it twice or touches it after it was freed.
OneOwner ==
  \A p \in Packets : OwnerCount(p) = (IF heap[p] = "live" THEN 1 ELSE 0)

\* tcp_unload deletes the lock and frees the queue; no thread may still be in
\* a call on the link, and nothing may be cached afterwards.
UnloadedIsQuiet ==
  stat = "unloaded" =>
    /\ \A t \in Threads : pc[t] = "idle"
    /\ locker = NoThread
    /\ queue = <<>>
    /\ sockfd = "closed"

\* The send path implements the bounded FIFO with one transmit slot.
Channel == INSTANCE SendChannel
  WITH Capacity <- CacheLimit - 1,
       link <- IF stat = "normal" THEN "up"
               ELSE IF stat = "closewait" THEN "closing" ELSE "down",
       waiting <- queue,
       slot <- Slot

ImplementsChannel == Channel!CSpec

\* How many steps a call can still make.  A thread that finds the count at zero
\* is past the double check: it will be the transmitter.
StepsLeft(t) ==
  CASE pc[t] = "idle" -> 0
    [] pc[t] = "exit" -> 1
    [] pc[t] \in {"post", "undo", "ioclose"} -> 2
    [] pc[t] = "send" -> 3
    [] pc[t] = "pop" -> 4
    [] pc[t] = "inc" -> IF pending = 0 THEN 5 ELSE 7
    [] pc[t] = "dec" -> 6
    [] pc[t] = "locked" -> 8
    [] pc[t] = "enter" -> 9
    [] OTHER -> 10

\* Every step of a call brings it nearer to its end and no step of another
\* thread takes it further away: the loop of the double check is made at most
\* twice, whatever the writers and the I/O thread do to tcp_write_pending_.
CallsBounded ==
  [][\A t \in Threads : pc[t] # "idle" =>
       IF pc'[t] = pc[t] THEN StepsLeft(t)' <= StepsLeft(t)
                         ELSE StepsLeft(t)' < StepsLeft(t)]_vars

\* The cache drains as long as the system does not keep a request for ever: its
\* packets are posted, or the link is closed and they are discarded.  A request
\* the system never completes, as ncb.c describes for a full window, is no fault
\* of the send path, and the premise excludes it.  (Packets are finitely many
\* and used once, so the writers cannot keep the cache filled.)
CacheDrains == ([]<>(inflight = {})) => ((queue # <<>>) ~> (queue = <<>>))

\* Whatever closes the link, its object is unloaded in the end, even when
\* requests are still in flight: a request holds no reference.
ClosingEnds == (stat = "closewait") ~> (stat = "unloaded")
-----------------------------------------------------------------------------
(* The inductive invariant behind the theorems of TcpSendProofs            *)

\* The threads inside a call on the link: each holds one reference.
Busy == {t \in Threads : pc[t] # "idle"}

RefsCounted == refs = Cardinality(Busy)

LockHeld ==
  \A t \in Threads :
    (locker = t) <=> (pc[t] \in {"locked", "undo", "inc", "dec", "pop"})

\* Which calls the I/O thread makes, and what each thread carries where.
Carried ==
  /\ \A t \in Threads : pc[t] \in {"iodone", "iofail"} =>
       t = IO /\ packet[t] \in Packets
  /\ \A t \in Threads : pc[t] \in {"check", "undo", "ioclose"} => t # IO
  /\ \A t \in Threads : pc[t] \in {"enter", "locked", "undo"} /\ t # IO =>
       packet[t] \in Packets
  /\ \A t \in Threads : pc[t] \in {"send", "post"} =>
       next_packet[t] \in Packets
  /\ \A t \in Threads : pc[t] \in {"inc", "dec", "pop"} => queue # <<>>

\* A thread between the increment and the decrement of the double check.
Doubting == \E t \in Threads : pc[t] = "dec"

\* tcp_write_pending_ is the transmitter plus the thread in doubt; once the
\* link closes, the share of a transmitter that failed is never given back.
PendingCounted ==
  /\ pending = (IF Doubting THEN 1 ELSE 0)
       \/ pending = (IF Doubting THEN 2 ELSE 1)
  /\ Transmitting => pending = (IF Doubting THEN 2 ELSE 1)
  /\ (stat = "normal" /\ ~Transmitting) => pending = (IF Doubting THEN 1 ELSE 0)

SendInv ==
  /\ TypeOK
  /\ RefsCounted
  /\ LockHeld
  /\ Carried
  /\ CacheCounted
  /\ PendingCounted
  /\ OneTransmitter
  /\ NoLostWakeup
  /\ UnloadedIsQuiet

\* The threads that took a packet and did not post it yet.
Posting == {t \in Threads : pc[t] \in {"send", "post"}}

\* What was accepted is what is on the wire, the packet taken, and the cache.
InStep ==
  LET n == Len(wire) + (IF Posting = {} THEN 0 ELSE 1) IN
  /\ Len(accepted) = n + Len(queue)
  /\ \A i \in 1..Len(queue) : queue[i] = accepted[n + i]
  /\ \A t \in Posting : next_packet[t] = accepted[Len(wire) + 1]

\* A transmission failed and its share of tcp_write_pending_ stays for ever.
Broken ==
  /\ stat # "normal"
  /\ ~Transmitting
  /\ pending = (IF Doubting THEN 2 ELSE 1)

FifoInv ==
  /\ Len(wire) <= Len(accepted)
  /\ \A i \in 1..Len(wire) : wire[i] = accepted[i]
  /\ InStep \/ Broken \/ stat = "unloaded"

\* Who holds packets: the cache, the system, and the threads.
Held == Elements(queue) \cup inflight
          \cup {packet[t] : t \in Threads} \cup {next_packet[t] : t \in Threads}

\* No packet is held twice.
Apart ==
  /\ \A i, j \in 1..Len(queue) : queue[i] = queue[j] => i = j
  /\ Elements(queue) \cap inflight = {}
  /\ \A t \in Threads :
       /\ packet[t] \notin Elements(queue) \cup inflight
       /\ next_packet[t] \notin Elements(queue) \cup inflight
       /\ \A u \in Threads :
            /\ packet[t] = packet[u] => t = u \/ packet[t] = NoPkt
            /\ next_packet[t] = next_packet[u] => t = u \/ next_packet[t] = NoPkt
            /\ packet[t] = next_packet[u] => packet[t] = NoPkt

LiveHeld == \A p \in Packets : heap[p] = "live" <=> p \in Held

EmptyHanded ==
  \A t \in Threads :
    /\ pc[t] \in {"idle", "check", "ioclose"} => packet[t] = NoPkt
    /\ next_packet[t] # NoPkt => pc[t] \in {"send", "post"}

\* A packet is accepted once and put on the wire once: what a writer brings is
\* in no history, what is cached or taken is not on the wire.
Remembered ==
  /\ \A p \in Elements(accepted) \cup Elements(wire) : heap[p] # "unallocated"
  /\ \A t \in Threads : pc[t] \in {"enter", "locked", "undo"} /\ t # IO =>
       packet[t] \notin Elements(accepted) \cup Elements(wire)
  /\ \A p \in Elements(queue) : p \notin Elements(wire)
  /\ \A t \in Threads : next_packet[t] \notin Elements(wire)
  /\ inflight \subseteq Elements(wire)
  /\ \A t \in Threads : pc[t] \in {"iodone", "iofail"} =>
       packet[t] \in Elements(wire)

\* Which party holds each packet; OneOwner and the refinement rest on it.
OwnInv ==
  /\ Apart
  /\ LiveHeld
  /\ EmptyHanded
  /\ Remembered
=============================================================================
