# Verification of nshost (swnet-win32)

nshost is a Windows library for asynchronous TCP and UDP. A program creates *links*,
hands them packets to send, and is told through a callback of data, accepted
connections, connects and closings. Underneath, every request is an overlapped Winsock
call whose completion is dispatched by a pool of I/O threads. This directory holds TLA+
models of the library, the TLC configurations that check them, and TLAPS proofs of
every safety property that the passing runs check, and of some more.

Line numbers are those of the files in `src/`. The exact correspondence of every
definition is in `PROJECT.json` under `map`.

## The system

| Component | State | Operations | Interacts with |
|---|---|---|---|
| TCP send path (`tcp.c`, `packet.c`) | per link: packet cache and its count, `tcp_write_pending_`, a critical section; the requests in flight | `tcp_write`, `tcp_try_write`, `asio_tcp_send`, completion, failed completion | object table (references), I/O thread, `tcp_unload` |
| TCP receive path (`tcp.c`, `ncb.c`) | per link: one receive packet, its buffer and offsets, the large block | `tcp_dispatch_io_recv`, `tcp_prase_logic_packet`, `tcp_lb_assemble`, `ncb_mark_lb`, `asio_tcp_recv` | template parser and callback of the program |
| Listening and accepting (`tcp.c`) | pending `AcceptEx` requests, each with a prepared link object | `tcp_listen`, `tcp_syn`, `asio_tcp_accept`, `tcp_dispatch_io_syn`, `tcp_syn_copy`, the `kSyn` branch of `tcp_shutdown_by_packet` | two threads work on one listener |
| Link life cycle (`tcp.c`, `ncb.c`) | object state, references, descriptor, requests | `tcp_create`, `tcp_connect`, `tcp_connect2`, `tcp_dispatch_io_connected`, `tcp_destroy`, `tcp_unload` | callback (`ncb_post_*`) |
| Start, end and I/O pool (`network.c`, `io.c`) | `__so_startup`, protocol marks, ports and threads | `so_init`, `so_uninit`, `ioinit`, `iouninit`, `ioatth`, `__iorun` | every link is bound to port `hld % divisions` |
| UDP (`udp.c`, `packet.c`) | per link: one receive packet that is posted again and again, the pseudo connection of group sends, multicast membership | `udp_create`, `udp_write`, `udp_raise_grp`, `udp_write_grp`, `udp_joingrp`, `udp_dropgrp`, `udp_destroy`, the completions | object table, I/O thread, locked pages |
| Pipe data (`tcp.c`, `udp.c`, `network.c`) | packets queued at a port, references | `tcp_awaken`, `udp_awaken`, `so_dispatch_pipe_event` | I/O thread |
| Locked pages (`os.c`) | the working set of the process | `os_lock_virtual_pages`, `os_unlock_and_free_virtual_pages` | receive packets of UDP |
| Contexts and templates (`mxx.c`, `tcp.c`) | per link: context pointer, size and contents; the template | `nis_setctx` and its readers, `nis_cntl`, `tcp_settst`, `tcp_settst_r` | unload frees the context; the receive path reads the template |
| ARP (`arp.c`) | an object with a raw socket that only its life touches | `arp_create`, `arp_nrequest`, `arp_destroy` | object table |
| Packet allocation (`packet.c`) | heap | `allocate_packet`, `freepkt` | everything |
| Options, addresses, host information, log | none of their own | one system call each | |

The object table (`objrefr`, `objreff`, `objdefr`, `objclos`), the intrusive lists and
the `posix__*` wrappers are not part of the repository. They are modelled from how the
code relies on them: a handle can be referenced while nobody has asked for its end;
`objreff` takes the last reference that can be taken; the unload routine runs once,
when a closing object loses its last reference.

What is hard here:

* **Interleavings.** The I/O thread decrements `tcp_write_pending_` outside the lock
  that every writer holds when it increments it; `tcp_listen` posts accept requests
  while completed ones are already renewed; links are destroyed from inside and outside
  callbacks; protocols are initialised and released by several threads; the working set
  of the process is read and then written by threads that know nothing of each other.
* **Requests hold no reference.** A completion may arrive long after its link was
  unloaded and must still free its packet, and nothing else.
* **References by hand.** Every exported function takes a reference and has several ways
  out; one that is kept keeps the link alive for ever.
* **Long legal sequences.** A context that is set, resized, cleared and set again; a
  pseudo connection that is raised, fails, and is raised for another host.
* **One step of several fails.** Sends that fail at once, receives that cannot be posted
  again, accept requests that cannot be renewed, ports or threads that are not created.
* **Boundaries.** Headers split between receives, messages that exactly fill the buffer,
  the smallest message that does not fit, the cache at its limit.
* **Things that must end.** The double check loop, the parsing loop, the retries of
  `tcp_syn`, the loop around `VirtualLock`, `iouninit` waiting for its threads, a connect
  that blocks for ever.

`hazards` in `PROJECT.json` lists each of them at its line, with the properties that
would catch it going wrong.

What makes each component correct:

* send path: one transmission at a time, posted in the order of acceptance; each packet owned
  by exactly one party until it is freed; a bounded cache that is never stranded; no use
  after the unload;
* receive path: every message delivered once, intact and in order, however the stream is
  cut; never an empty or overlong request; a refusal only for a really bad message;
* accepting: the number of pending requests is kept through every failure; no socket is
  shared by two requests, or forgotten;
* life cycle: data is not told without the connection, and nothing after the closing event;
* pool: one builder, one stopper, memory and ports released after the last user;
* UDP: the receive request never gets lost on an open link; the references are exactly
  those of the calls under way; groups are sent to the recorded host;
* locked pages: no race takes back all enlargements, and the loop ends;
* contexts: what is read is what was set last, in memory that is allocated, and nothing
  outlives the link.

## The modules

| Module | Models | Composition |
|---|---|---|
| `SendChannel` | abstract: a bounded FIFO in front of one transmit slot | implemented by `TcpSend` (`Channel`) |
| `TcpSend` | the send path and the closing of a link | |
| `FrameStream` | abstract: framed messages delivered as soon as complete | implemented by `TcpRecv` (`Frames`) |
| `TcpRecv` | the receive path, buffer and offsets | uses `Frames` for the peer's stream |
| `TcpAccept` | listening and accepting | |
| `TcpLink` | creation, connecting, destruction and the events | |
| `NetStack` | start and end of the library, I/O pool | |
| `Udp` | one UDP link, group sends and multicast, `udp_awaken` | |
| `LinkControl` | context of a link, references of the calls on its template, `tcp_awaken`, ARP requests | |
| `LockPages` | the locked blocks of the process | |
| `MC*` | the instances for TLC | extend the modules above |
| `*Proofs` | the theorems about the eight detailed modules | extend the modules above |

Each detailed module ends with the inductive invariant its theorems rest on.

Operators that start with "Mutant of" in their comment are plausible wrong versions of
the definition that follows them. They are in no specification; each shows that
some property would notice that mistake.

### TcpSend

`stat`, `refs` and `sockfd` are the link's object; `queue`, `list_size`, `pending` and
`locker` are `tcp_sender_cache_head_`, `tcp_sender_list_size_`, `tcp_write_pending_` and
`tcp_sender_locker_`. `packet[t]` is the packet thread `t` must free or hand over, and
`next_packet[t]` the one it took from the cache. `inflight` holds the packets the system
owns. `accepted` and `wire` are histories; `wire` is what `WSASend` took, which is not yet what
the peer gets. Each Interlocked operation, lock and system
call is a step; code in between that touches only private or locked data is part of one.

The reference that `asio_tcp_send` takes within its caller's own is the test of
`SendReferenced`: it never decides when the object is unloaded, so it is not counted.

### TcpRecv

A byte is its position in the peer's stream, so a buffer shows which bytes it holds
where. The template's parser recognises a header only where the bytes are one, so a parse at a wrong
offset is a refusal. One step is one return of the system or one turn of the parsing
loop. `fully` is `LINKATTR_TCP_FULLY_RECEIVE`, which is ignored for large blocks. In
`ParseLargeNoMemory` the length of the block is set and its memory is not, as in
`ncb_mark_lb`. `cb` is the template's `cb_`: `Header`, or 0 for a link without a template, whose data is
handed on as it comes (`RawBytes` bytes of it).

### TcpAccept, TcpLink, NetStack

`TcpAccept` follows a listener, the caller of `tcp_listen` and the I/O thread, with every
failure of `tcp_syn`. `TcpLink` follows three threads ("user" connects,
"io" dispatches, "killer" destroys) and records the events. In it a receive is one data
event; `TcpRecv` has the detail. `NetStack` models the counters, the marks and the
pool; `Links` are handles whose sockets are bound by `ioatth`.

### Udp

`Threads` are threads of the program inside some call on the link; `pc` is where, `arg` the
call's address or group. `packet` is where the only receive packet is: held by the
creator or the I/O thread, posted, freed, or lost to everyone. An address is a host and a
port. `connected_` and `mreq` are the link's fields, `peer` and `members` what the socket
really has; `peer` is a whole address, `connected_` only its host, as `udp_raise_grp` stores
it. No property is about `mreq` and `members`. Three histories
record what the code cannot undo: `leaked` (references of awakenings), `deaf` (the
request could not be posted), `overlap` (a raise or a detach during another group call,
`udp_write_grp` included, which nothing prevents).
`eintr` stands for the `errno` that `udp_write` tests although Winsock reports its errors
elsewhere: if it happens to be `EINTR`, the loop around `sendto` repeats every failure.

### LinkControl

`ncb_ctx_`, `size` and `data` are the context. No lock protects it and the model adds none:
every call may begin while others run. `raced` records that a `nis_setctx` overlapped another
one or a `nis_getctx`, `corrupt` memory that is freed twice, written when it is not there or
overrun, and `stale` a `nis_getctx` that copied freed memory while the heap was whole. No text
of the repository says that contexts may be set concurrently, so the properties about them
make no claim after a race; nor do they after a failed allocation (`oom`), which leaves the new
size with the freed block. Calls on the template are followed for their references only:
`NI_SETTST` and `NI_GETTST` take a second one inside that of `nis_cntl`, which is counted
(`Nested`).

### LockPages

All blocks have one size and the working set is counted in blocks. `GetWorkingSet` and
`SetWorkingSet` are two steps, so two threads can overwrite each other's enlargement.
`VirtualLock` succeeds if the working set has room for one more locked block.

## The runs

| Run | Checks | Shows |
|---|---|---|
| `tcpsend` | `OneTransmitter`, `CacheCounted`, `NoLostWakeup`, `OneOwner`, `UnloadedIsQuiet`, `PostedInOrder`, `ImplementsChannel`, `CallsBounded`, `CacheDrains`, `ClosingEnds` | two writers, four packets and a limit of three: the cache overflows while a packet is in flight; every step of the send path is a step or a stutter of `SendChannel`; `WSASend` takes a beginning of what was accepted, also when it refuses a packet; the double check ends, a cache that holds packets is emptied unless the system keeps a request for ever, a closing link is unloaded |
| `tcprecv` | `DeliveredIntact`, `BytesKept`, `BuffersFit`, `NothingWithheld`, `RefusesOnlyBad`, `ImplementsFrames`, `MemoryReturned`, `StreamConsumed` | streams of up to three messages and a raw stream, cut in every way; when a receive is pending every complete message was delivered; the parsing loop ends, closed links give back their memory |
| `tcpaccept` | `AcceptsKept`, `OneRequestEach`, `RetriesBounded`, `ListenerEnds` | two pending requests through every failure; retries end, a closed listener is unloaded with nothing pending |
| `tcplink` | `NothingAfterClosed`, `ConnectedFirst`, `ConnectedIsRead`, `DestroyInterrupts`, `PacketsReturned` | the order of the events, with data that overtakes the event of `tcp_connect`; `tcp_destroy` ends even a connect that blocks for ever |
| `netstack` | `OneAtATime`, `PoolFreedLast`, `WaitAnswered`, `UninitReturns` | two threads, four calls, two ports, all failures; who is waited for was asked to end, and `iouninit` returns if the ports could be created |
| `udp` | `RefsAccounted`, `KeepsReceiving`, `GroupTracked`, `UdpEnds` | two threads in every call while completions succeed, fail and are empty: no reference is lost except by awakening, the link goes on receiving, groups go to the recorded host, and the link ends |
| `control` | `ContextReadBack`, `NoStaleRead`, `ControlEnds` | two threads set, resize, clear and read contexts, set templates, awaken and destroy |
| `pages` | `EnlargementShared`, `LockEnds` | three threads race for the working set: enlargements get lost, but never all of them, and the loop ends |
| `tcpaccept_orphan`, `netstack_teardown`, `udp_block`, `control_ctx` | one property each, violated | see *Findings* |

Some properties are in no run because a theorem has them for all values of the constants: the
`TypeOK` of every module, which is a part of its inductive invariant, `DispatchEnds` of
`TcpRecv` and `NoContextLeak` of `LinkControl`. TLC checked each of them, and each inductive invariant, before
it was proved.

`AcceptsKept` has an exception, the history `lost`: `tcp_shutdown_by_packet` ignores
the result of `tcp_syn`, so a failed request whose successor finds no memory is not
renewed (`tcp.c:918`) and the open listener has one request less from then on. The property shows that
this is the only way to lose one: `tcp_dispatch_io_syn` closes the listener instead.

One observation from `tcpsend`: the double check of `tcp_write_pending_` in
`tcp_try_write` is not what keeps a cached packet from being stranded. The I/O thread
always calls `tcp_try_write` after its decrement, so a writer that simply left on a
count above one would still be covered. The double check only lets a writer
send without waiting for that call.

And one from `pages`. The comment at `os.c:153` says that a call which adjusted the working
set once and still cannot lock its block may fail directly, and that the open process handle
is the test for this. The code differs: the test only guards `OpenProcess`, and the working
set is enlarged in every turn. A thread whose enlargement was overwritten by another one
therefore tries again instead of failing. The price is that the working
set is not bounded by what the threads need: each turn adds to a size that may have been
enlarged for others meanwhile. With an original size of zero three threads never exceed
the three blocks they need, but four can reach five, five can reach nine, and six
fourteen or more. What does hold is `EnlargementShared`.

### Bounds, and why they are enough

* `TcpSend`: one packet in flight, two cached and one more at the limit is the smallest
  situation in which order, overflow and the double check all matter; two writers and
  four packets give it.
* `TcpRecv`: headers of 2 bytes in a buffer of 4. User data of 0 bytes is a message that
  is only a header, 2 fills the buffer, 3 is the smallest large block, 6 spans several
  receives and is the largest size allowed. All of them occur in streams of one and two
  messages, `FewSizes` in streams of three, which cover what comes before and behind a
  large block. A refused size is -1 or one above the largest.
* `TcpAccept`: two requests and one retry; the handles and packets bound how many
  connections are accepted. `EnoughPackets` stops taking completions when the packets
  run out, since the code never gives back the packet of a completed request.
  A rest state without a further connection is therefore expected and deadlock is not checked.
* `TcpLink`: data events bounded by `MaxData`.
* `NetStack`: two threads, since two of them can start, or release, at once with four
  calls; calls are bounded by `MaxCalls`, and afterwards the system rests, so deadlock is
  not checked.
* `Udp`: two threads are enough for a call that is overtaken by `udp_destroy` or by another group
  call; two hosts with two ports, since a pseudo connection is replaced by one to another
  host, or asked for another port of its own; one
  awakening, since each of them keeps a reference for ever. An unloaded link rests, so
  deadlock is not checked; the same holds for `LinkControl`.
* `LinkControl`: two contexts of one size and one of another are the cases that `nis_setctx`
  tells apart; two callers race; `MaxLeaks` bounds the calls that keep a
  reference.
* `LockPages`: three threads and a quota of one: two threads have to enlarge at once.

The safety properties do not depend on these bounds: *What is proved* has them for all
values of the constants. The bounds limit what is known about liveness. No symmetry is used.

### Fairness

Threads inside a call, and the I/O thread inside a dispatch, are scheduled (weak fairness per
thread). Where packets of closed links have to come back (`TcpLink`, `TcpRecv`,
`TcpAccept`), the system completes the requests of a closed socket, as `ncb.c:17` reports.
Apart from the peer of `StreamConsumed` (below) nothing else is assumed about the system. In
particular `TcpSend` does not assume that a send request
completes: `ncb.c:12` describes a peer that does not read, for which it never does.
`CacheDrains` has it as its premise instead: if again and again no request is
in flight, a cache that holds packets is emptied. `ClosingEnds` needs no such premise.
`TcpRecv` assumes that the peer goes on sending only for `StreamConsumed`. `TcpLink` assumes
nothing about the network: a connect may block, and a request may stay pending, for
ever. `Udp`, `LinkControl` and `LockPages` assume only that a thread inside a call, and the I/O
thread inside a dispatch, go on: no datagram has to arrive and no pipe packet to be
dispatched. Nothing is assumed about callers: no one is made to write, destroy or initialise.

## What is proved

Every invariant of the passing runs, every action property (`RefusesOnlyBad`,
`CallsBounded`, `DispatchEnds`, `RetriesBounded`), the further invariants named under *The
runs*, and both refinements, for all values of the constants that the named assumption of
each module allows. The assumptions say that sets of threads are finite, that counts are natural
numbers, that a header fits into the receive buffer, and the like.

Each proof module has the same shape: `...Inv` is the inductive invariant, one lemma shows
that it holds initially, one lemma per action (or per group of actions that change the
same variables) shows that the step preserves it, one step per conjunct; `NextInv` joins
them, and the properties follow from the invariant.

### TcpSendProofs

`SendInv`, for any finite set of writers, any set of packets and any positive limit;
from it `SendTypeOK`, `SendOneTransmitter`, `SendCacheCounted`, `SendNoLostWakeup` and
`SendUnloadedIsQuiet`. None of these properties is inductive alone:

* `RefsCounted`: the reference count is the number of threads inside a call, so the
  thread whose `objdefr` unloads is the last one (`UnloadedIsQuiet`).
* `LockHeld`: exactly the thread in the critical section owns the lock, so there is one.
* `Carried`: which thread carries a packet where, and that the cache is not empty
  between the test and the removal.
* `PendingCounted`: `tcp_write_pending_` is the transmitter plus the thread in doubt
  between its increment and its decrement. A thread that reads 1 after its increment is
  therefore the only transmitter (`OneTransmitter`), and one that reads more than 0 after its
  decrement leaves a transmitter behind (`NoLostWakeup`). A send that fails at
  once never gives its share back, but then the link is closing.

`OwnInv` adds where every packet is: no packet is held twice by the cache, the system and
the threads (`Apart`), a packet is allocated exactly while somebody holds it (`LiveHeld`),
a thread outside the send path holds nothing (`EmptyHanded`), and what is
cached or brought by a writer was never posted (`Remembered`). `SendOneOwner` follows:
no packet is freed twice, leaked, or used after it was freed.

`SendImplementsChannel` maps each step to `SendChannel`: caching a packet is `Accept`, taking
it from the cache is `Take`, `WSASend` is `Post`, the completion is `Release`, a failure is
`Fail`, the unload is `Discard`, and the rest stutters. The abstract slot holds one packet
because of `OneTransmitter`: it is the packet of the thread between the removal and
`WSASend`, of the system, or of the I/O thread that dispatches its completion. That a packet is
accepted once and posted once comes from `Remembered`.

`FifoInv` adds the order: what was accepted is what `WSASend` took (`wire`), then the packet that is on its way
(taken from the cache, not yet given to `WSASend`), then the cache. A send that fails
at once breaks this chain; the invariant then says that the link is closing and that nothing
is posted any more, because `tcp_write_pending_` keeps the share of the failed send.
`SendPostedInOrder` follows. It says more than the refinement: the code posts nothing after a
`WSASend` that failed, while `SendChannel` leaves that open. It does not say that the peer
gets what was posted (see *Findings*).

`SendCallsBounded` is the part of "every call returns" that needs no fairness. `StepsLeft`
gives every position the steps to the return. The only loop is the double check: from
"inc" a thread goes to "dec" if it read a count above zero, and back if its own decrement read
zero. It goes back with a count of zero, and while it holds the lock nobody can raise the count
(`LockHeld`, `PendingCounted`), so the next increment reads one and the loop is left.

### TcpRecvProofs

`RecvInv`, for every stream of messages, good or bad, every header length, every buffer
that holds a header, and every way the stream is cut into receives:

* `Requesting`: the request always covers the rest of the buffer, which is never empty, and
  the whole of it while a large block is assembled;
* `Delivered`: event k is message k;
* `Assembling` and `Filling`: the large block is the beginning of the message that is due,
  and what was received goes on where it ends;
* `Parsing`: the loop stands at the first byte of the message that is due, and what is left
  in the buffer is the stream from there to the last received byte;
* `Resting`: outside the loop the message that is due is not complete, and its beginning
  is kept at the front of the buffer or in the block;
* `Raw`: without a template the events joined together are the stream;
* `References`: a dispatch holds a reference, so the block is not freed under it.

From it `RecvDeliveredIntact`, `RecvBytesKept`, `RecvBuffersFit`, `RecvRefusesOnlyBad` and
`RecvImplementsFrames`. `RecvNothingWithheld` reads `Resting` together with the order of the
messages: with a receive pending the message that is due is incomplete, so every later one
is too. `RecvDispatchEnds` needs `Parsing`: a turn of the loop that goes on consumes at least a
header, which is not empty, so `TurnsLeft`, the unparsed bytes and a constant, falls.
Three facts about data carry the argument: where messages begin
(`StartNext`, `StartOrder`: each behind the one before, so two headers never look alike
and the parser recognises the right one, `HeaderSeen`), what a part of a run of bytes is
(`WindowPart`), and what `FlattenSeq` makes of one event more (`FlattenAppend`). They
are about recursive functions and need induction. The library's induction rules for an
arbitrary predicate cannot be used here, so `SetInduction` is proved for sets, from the
theorem that a well-founded relation has minimal elements.

### The others

* `UdpProofs`: `UdpInv`, any finite set of threads, any hosts and ports. `RefsAccounted` and
  `KeepsReceiving` are inductive with the state before the creation (`NotCreated`);
  `GroupTracked` needs `GroupCallAlone`: without an overlap a raise that is under
  way found the link unconnected, `connected_` is written after the system agreed, and no group is
  being transmitted meanwhile; and `RaiseArgs`, that a raise has an address.
* `TcpAcceptProofs`: `AcceptInv`, any finite sets of handles and packets, any number of requests
  and retries. `AcceptsKept` counts pending requests and needs to know which thread owes
  one (`Positions`); `OneRequestEach` needs that packets, the objects they name and
  the objects threads work on are kept apart (`PacketsApart`, `LinksApart`, `HoldsApart`).
  `RetriesBounded` is the part of "every completion is dealt with" that needs no fairness: a try of `tcp_syn` uses up one of
  its `TCP_SYN_REQ_TIMES`, and a request that `tcp_listen` posted one of its `block`.
* `TcpLinkProofs`: `LinkInv`, any number of data events. The order of the events rests on the
  competition of `tcp_connect` and `tcp_connect2` for one connection (`Connecting`), on what was
  told, or is still to be told by the caller of `tcp_connect`, when a receive can complete
  (`Telling`), and on references (`References`, `Lifetime`): the
  closing event comes with the last one.
* `NetStackProofs`: `NetInv`, any finite set of callers, any number of ports and calls.
  `StartCounted` is the key: `__so_startup` is the number of calls on their way through
  `so_init`, plus one for ever after the pool was built, so there is one builder;
  `AskedOnce` and `ThreadsEnd` say that `iouninit` leaves only ended threads behind.
  `PoolInv` goes on from there: an active port has its thread, which `iouninit` asks to
  end before it waits, and neither a completion behind the request nor one taken before it
  removes it (`WaitAnswered`).
* `LinkControlProofs`: `ControlInv`, any finite set of callers, any contexts.
  References are counted with those of nested calls (`RefsCounted`), so nobody is inside when the
  unload frees the context; until a race a writer of the context is alone with it (`WritersAlone`),
  and `ContextSteps` says what holds between its writers and between `free` and `malloc`.
  `NoStaleRead` follows: a reader that met no writer finds size zero or a live block.
* `LockPagesProofs`: `PagesInv`, any set of threads, any quota: nobody ever read
  less than the original size, so no one writes less than one above it.

### Only model-checked

Liveness (`CacheDrains`, `ClosingEnds`, `MemoryReturned`, `StreamConsumed`, `ListenerEnds`,
`DestroyInterrupts`, `PacketsReturned`, `UninitReturns`, `UdpEnds`, `ControlEnds`,
`LockEnds`): the rules for fairness and `ENABLED` are beyond the prover. Where such a property
rests on a loop or a wait that ends, the argument about the code is proved all the same:
`CallsBounded` for the calls of the send path, `DispatchEnds` for the parsing loop, `RetriesBounded` for
`tcp_syn`, `WaitAnswered` for `iouninit`. What is left to TLC is that a scheduled thread takes its next
step. The four violation runs are counterexamples and need no proof.

## Findings

Each is a violation run; `findings` in `PROJECT.json` quotes the lines.

1. `netstack_teardown`: `so_init` marks TCP only if it is already marked
   (`network.c:43`), so releasing UDP takes the library down while TCP is in use,
   against the comment at `network.c:63`.
2. `tcpaccept_orphan`: objects prepared for the pending requests of a closed listener are
   never closed, against point 2 of the comment at `tcp.c:909`.
3. `udp_block`: the receive request that `udp_destroy` aborts finds no object
   (`udp.c:100`, and `udp.c:55` for one that completes), so its packet and the pages locked for it are never released,
   which the comment at `os.c:21` demands.
4. `control_ctx`: `nis_setctx` with NULL frees the context and keeps the pointer
   (`mxx.c:39`), so the next `nis_setctx` frees it again, while the comment at `mxx.c:37`
   says that the call clears the context.

Met on the way, without a text of the repository that says otherwise and therefore without a run:

* `ioatth` does not look at `actived` (`io.c:144`): a link can be bound to a port without
  a thread;
* the packet of a completed accept request is never freed (`tcp.c:611`);
* `tcp_awaken`, `udp_awaken`, `so_dispatch_pipe_event` and the default branch of
  `nis_cntl` keep their reference, so that such a link is never unloaded (the histories
  `leaked`);
* `tcp_settst_r` exchanges each field of the template and assigns the old value back to it
  (`tcp.c:984`), so that `NI_SETTST` reports success and leaves the template as it was;
* a send request whose completion fails is freed and the next packet posted on the open link
  (`tcp.c:843`): an accepted packet is lost, and the peer sees a gap;
* `udp_raise_grp` for another port of the connected host returns 0 (`udp.c:684`), and groups
  still go to the old port;
* a start after a complete release returns 0 without a pool (`network.c:23`);
* `nis_setctx` that finds no memory leaves the new size with the freed block (`mxx.c:51`): the
  next `nis_getctx`, or `nis_setctx` of that size, uses freed memory.

The comment at `os.c:153` and the loop below it disagree, see *The runs*.

## Not modelled

* What packets contain: addresses, builder and serializer output.
* What `tcp_settst` and `tcp_settst_r` write into the template, and a change of the template
  while the link receives: `TcpRecv` keeps its template, and `LinkControl` follows the
  references of these calls only.
* The flags of `attr` (`tcp_setattr`, `nis_setmask`, `NI_SETATTR`); the pointer of `NI_SETCTX`.
* Socket options, address queries, the contents of ARP requests, `get_eth_MAC`, host
  information, the log callback: single system calls or formatting without state of their own.
* The memory of a UDP packet group, which is the caller's.
* A link whose socket could not be created: `tcp_entry` returns before the lock and the
  cache are initialised, and what `tcp_unload` then does depends on the memory.
* When the memory of an unloaded object is used again (`tcp.c:807` reads it after
  `objdefr`): this is up to the object table.
* Two `tcp_connect2` calls pending on one link, which the system refuses.

## Plan

In order of importance:

1. *done*: `TcpSend`, `SendChannel`, the inductive invariant and its proof;
2. *done*: `TcpRecv`, `FrameStream`, `TcpAccept`, `TcpLink`, `NetStack`;
3. *done*: `Udp`, `LockPages`, `LinkControl` with the pipes;
4. *done*: proofs of the safety properties of all of them, and of both refinements;
5. *done*: what the send and receive paths promise their users beyond the refinements: what
   is posted is a beginning of what was accepted, and a complete message is delivered before
   the next receive;
6. *done*: the safety part of the liveness arguments: bounds that fall with every step of a call;
7. open: a bound for the loop of `os_lock_virtual_pages`, whose turns depend on how often
   other threads overwrite an enlargement, and a template that changes while a link receives.
