----------------------------- MODULE TcpAccept -----------------------------
(***************************************************************************)
(* Listening and accepting: tcp_listen posts accept requests, each with a  *)
(* link object prepared for the connection to come (tcp_syn,               *)
(* tcp_allocate_object, asio_tcp_accept); the I/O thread turns a completed *)
(* request into an announced link with a receive request                   *)
(* (tcp_dispatch_io_syn, tcp_syn_copy) or drops a failed one               *)
(* (tcp_dispatch_io_exception, tcp_shutdown_by_packet), and posts the next *)
(* accept request either way.                                              *)
(*                                                                         *)
(* Two threads can be in tcp_syn for the same listener: the caller of      *)
(* tcp_listen and the listener's I/O thread.  Every call into the system   *)
(* and into the object table is a step.                                    *)
(***************************************************************************)
EXTENDS Naturals, FiniteSets

CONSTANTS Handles,      \* handles of link objects for connections to come
          SynPackets,   \* packets of accept requests (bounds a run)
          Block,        \* tcp_listen's block: the requests it posts
          SynTimes,     \* TCP_SYN_REQ_TIMES
          None          \* no packet, no handle

ASSUME TcpAcceptAssumption ==
  /\ IsFiniteSet(Handles)
  /\ IsFiniteSet(SynPackets)
  /\ None \notin Handles \cup SynPackets
  /\ Block \in Nat \ {0}
  /\ SynTimes \in Nat

Threads == {"user", "io"}

VARIABLES
  lstat,      \* of the listener: "normal", "closewait" or "unloaded"
  refs,       \* the threads that hold a reference to the listener
  link,       \* of each handle: "free", "fresh", "announced", "receiving",
              \*   "closed"
  heap,       \* of each packet: "free" or "live"
  posted,     \* the packets of pending AcceptEx requests
  accepted_link, \* of each packet, until nobody reads it any more
  pc,         \* of each thread
  packet,     \* per thread: the syn_packet it prepares
  tries,      \* per thread: i of tcp_syn (0 outside its loop)
  hold,       \* per thread: the accepted object it works on
  failed,     \* the packet tcp_shutdown_by_packet must free in the end
  listened,   \* history: the requests tcp_listen posted
  lost        \* history: the requests not renewed for want of memory

history == <<listened, lost>>
locals == <<packet, tries, hold, failed>>
vars == <<lstat, refs, link, heap, posted, accepted_link, pc, packet, tries,
          hold, failed, listened, lost>>

Init ==
  /\ lstat = "normal"
  /\ refs = {}
  /\ link = [h \in Handles |-> "free"]
  /\ heap = [p \in SynPackets |-> "free"]
  /\ posted = {}
  /\ accepted_link = [p \in SynPackets |-> None]
  /\ pc = [t \in Threads |-> "idle"]
  /\ packet = [t \in Threads |-> None]
  /\ tries = [t \in Threads |-> 0]
  /\ hold = [t \in Threads |-> None]
  /\ failed = None
  /\ listened = 0
  /\ lost = 0

Goto(t, step) == pc' = [pc EXCEPT ![t] = step]

\* objclos of an accepted object
Close(h) == link' = [link EXCEPT ![h] = "closed"]

-----------------------------------------------------------------------------
(* tcp_syn                                                                 *)

SynPacket(t) ==
  /\ pc[t] = "syn"
  /\ \E p \in SynPackets :
       /\ heap[p] = "free"
       /\ heap' = [heap EXCEPT ![p] = "live"]
       /\ packet' = [packet EXCEPT ![t] = p]
  /\ Goto(t, "object")
  /\ UNCHANGED <<lstat, refs, link, posted, accepted_link, tries, hold, failed,
                 history>>

\* allocate_packet fails: tcp_syn returns -1 at once.  tcp_dispatch_io_syn will
\* close the listener; tcp_shutdown_by_packet ignores it, and a request is lost.
SynNoPacket(t) ==
  /\ pc[t] = "syn"
  /\ lost' = (IF t = "io" /\ failed # None THEN lost + 1 ELSE lost)
  /\ Goto(t, "refused")
  /\ UNCHANGED <<lstat, refs, link, heap, posted, accepted_link, locals,
                 listened>>

\* Handles are not reused while somebody may still name them.
Unused(h) ==
  /\ \A t \in Threads : hold[t] # h
  /\ \A p \in SynPackets : accepted_link[p] # h

\* tcp_allocate_object and tcp_entry for a remote link
SynObject(t) ==
  /\ pc[t] = "object"
  /\ \E h \in Handles :
       /\ link[h] = "free" \/ (link[h] = "closed" /\ Unused(h))
       /\ link' = [link EXCEPT ![h] = "fresh"]
       /\ hold' = [hold EXCEPT ![t] = h]
       /\ accepted_link' = [accepted_link EXCEPT ![packet[t]] = h]
  /\ Goto(t, "accept")
  /\ UNCHANGED <<lstat, refs, heap, posted, packet, tries, failed, history>>

\* No object or no socket for it: the loop is left.
SynNoObject(t) ==
  /\ pc[t] = "object"
  /\ Goto(t, "giveup")
  /\ UNCHANGED <<lstat, refs, link, heap, posted, accepted_link, locals,
                 history>>

\* asio_tcp_accept: the request is pending.
SynPosted(t) ==
  /\ pc[t] = "accept"
  /\ lstat = "normal"
  /\ posted' = posted \cup {packet[t]}
  /\ packet' = [packet EXCEPT ![t] = None]
  /\ hold' = [hold EXCEPT ![t] = None]
  /\ Goto(t, "posted")
  /\ tries' = [tries EXCEPT ![t] = 0]
  /\ listened' = IF t = "user" THEN listened + 1 ELSE listened
  /\ UNCHANGED <<lstat, refs, link, heap, accepted_link, failed, lost>>

\* The offered object is closed, and another one tried or the loop left.
CloseAndTry(t, more) ==
  /\ pc[t] = "accept"
  /\ Close(hold[t])
  /\ hold' = [hold EXCEPT ![t] = None]
  /\ accepted_link' = [accepted_link EXCEPT ![packet[t]] = None]
  /\ Goto(t, IF more THEN "object" ELSE "giveup")
  /\ UNCHANGED <<lstat, refs, heap, posted, packet, failed, history>>

\* Mutant of SynRetry: the closed object is offered again.
SynRetryClosed(t) ==
  /\ pc[t] = "accept"
  /\ Close(hold[t])
  /\ tries' = [tries EXCEPT ![t] = @ + 1]
  /\ Goto(t, IF tries[t] < SynTimes THEN "accept" ELSE "giveup")
  /\ UNCHANGED <<lstat, refs, heap, posted, accepted_link, packet, hold, failed, history>>

\* Mutant of SynRetry: the tries are not counted.
SynRetryForever(t) == CloseAndTry(t, TRUE) /\ UNCHANGED tries

\* The listener cannot be referenced or the system refuses: the object is
\* closed, and another one is tried TCP_SYN_REQ_TIMES times.
SynRetry(t) ==
  /\ CloseAndTry(t, tries[t] < SynTimes)
  /\ tries' = [tries EXCEPT ![t] = @ + 1]

\* objclos(listener), return -1; the packet is not freed.
SynGiveUp(t) ==
  /\ pc[t] = "giveup"
  /\ lstat' = (IF lstat = "normal" THEN "closewait" ELSE lstat)
  /\ packet' = [packet EXCEPT ![t] = None]
  /\ tries' = [tries EXCEPT ![t] = 0]
  /\ Goto(t, "refused")
  /\ UNCHANGED <<refs, link, heap, posted, accepted_link, hold, failed, history>>

\* objdefr of the listener
Release(t) ==
  /\ refs' = refs \ {t}
  /\ lstat' = (IF lstat = "closewait" /\ refs' = {} THEN "unloaded" ELSE lstat)

-----------------------------------------------------------------------------
(* tcp_listen, on the caller's thread                                      *)

\* listen(2) succeeds (when it fails the call has no effect); the loop begins.
tcp_listen ==
  /\ pc["user"] = "idle"
  /\ listened = 0
  /\ lstat = "normal"
  /\ refs' = refs \cup {"user"}
  /\ Goto("user", "syn")
  /\ UNCHANGED <<lstat, link, heap, posted, accepted_link, locals, history>>

\* The loop goes on until `block' requests are pending.
ListenMore ==
  /\ pc["user"] = "posted"
  /\ listened < Block
  /\ Goto("user", "syn")
  /\ UNCHANGED <<lstat, refs, link, heap, posted, accepted_link, locals,
                 history>>

\* Mutant of ListenReturn: a failing tcp_listen does not drop its reference.
ListenKeepsReference ==
  /\ \/ pc["user"] = "posted" /\ listened >= Block
     \/ pc["user"] = "refused"
  /\ Goto("user", "over")
  /\ UNCHANGED <<lstat, refs, link, heap, posted, accepted_link, locals, history>>

ListenReturn ==
  /\ \/ pc["user"] = "posted" /\ listened >= Block
     \/ pc["user"] = "refused"
  /\ Release("user")
  /\ Goto("user", "over")
  /\ UNCHANGED <<link, heap, posted, accepted_link, locals, history>>

-----------------------------------------------------------------------------
(* Completions, on the I/O thread of the listener                          *)

\* Bound: packets are left for every thread that may still ask for one.
EnoughPackets == Cardinality({p \in SynPackets : heap[p] = "free"}) >= 2

\* tcp_dispatch_io_syn, listener referenced
Connected(p) ==
  /\ pc["io"] = "idle"
  /\ p \in posted
  /\ lstat = "normal"
  /\ EnoughPackets
  /\ posted' = posted \ {p}
  /\ refs' = refs \cup {"io"}
  /\ hold' = [hold EXCEPT !["io"] = accepted_link[p]]
  /\ accepted_link' = [accepted_link EXCEPT ![p] = None]
  /\ Goto("io", "copy")
  /\ UNCHANGED <<lstat, link, heap, packet, tries, failed, history>>

\* tcp_dispatch_io_syn, the listener is gone: it just returns.
ConnectedNoEntry(p) ==
  /\ pc["io"] = "idle"
  /\ p \in posted
  /\ lstat # "normal"
  /\ posted' = posted \ {p}
  /\ accepted_link' = [accepted_link EXCEPT ![p] = None]
  /\ UNCHANGED <<lstat, refs, link, heap, pc, locals, history>>

\* tcp_syn_copy: the link gets its context and its port, and the program is
\* told (EVT_TCP_ACCEPTED).
SynCopied ==
  /\ pc["io"] = "copy"
  /\ link' = [link EXCEPT ![hold["io"]] = "announced"]
  /\ Goto("io", "recv")
  /\ UNCHANGED <<lstat, refs, heap, posted, accepted_link, locals, history>>

NotCopied(step) ==
  /\ pc["io"] = "copy"
  /\ Close(hold["io"])
  /\ hold' = [hold EXCEPT !["io"] = None]
  /\ Goto("io", step)
  /\ UNCHANGED <<lstat, refs, heap, posted, accepted_link, packet, tries, failed, history>>

\* Mutant of SynNotCopied: a failed copy ends the handler.
SynNotCopiedReturns == NotCopied("posted")

\* tcp_syn_copy fails: the accepted object is closed.
SynNotCopied == NotCopied("syn")

\* The receive request of the accepted link, posted or not; the next accept
\* request does not depend on it.
SynRecv ==
  /\ pc["io"] = "recv"
  /\ \/ /\ link[hold["io"]] = "announced"
        /\ link' = [link EXCEPT ![hold["io"]] = "receiving"]
     \/ Close(hold["io"])
  /\ hold' = [hold EXCEPT !["io"] = None]
  /\ Goto("io", "syn")
  /\ UNCHANGED <<lstat, refs, heap, posted, accepted_link, packet, tries, failed,
                 history>>

\* A failed status: tcp_dispatch_io_exception references the listener.
SynException(p) ==
  /\ pc["io"] = "idle"
  /\ p \in posted
  /\ lstat = "normal"
  /\ EnoughPackets
  /\ posted' = posted \ {p}
  /\ refs' = refs \cup {"io"}
  /\ failed' = p
  /\ Goto("io", "shutdown")
  /\ UNCHANGED <<lstat, link, heap, accepted_link, packet, tries, hold, history>>

\* tcp_shutdown_by_packet references it again; when it began to close
\* meanwhile, no new request is posted.
ShutdownSyn ==
  /\ pc["io"] = "shutdown"
  /\ Goto("io", IF lstat = "normal" THEN "syn" ELSE "refused")
  /\ UNCHANGED <<lstat, refs, link, heap, posted, accepted_link, locals,
                 history>>

\* The listener is gone: only the packet is freed.
ExceptionNoEntry(p) ==
  /\ pc["io"] = "idle"
  /\ p \in posted
  /\ lstat # "normal"
  /\ posted' = posted \ {p}
  /\ heap' = [heap EXCEPT ![p] = "free"]
  /\ accepted_link' = [accepted_link EXCEPT ![p] = None]
  /\ UNCHANGED <<lstat, refs, link, pc, locals, history>>

\* The end of tcp_dispatch_io_syn: the listener is closed when no request
\* could be posted.
SynReturn ==
  /\ pc["io"] \in {"posted", "refused"}
  /\ failed = None
  /\ refs' = refs \ {"io"}
  /\ LET closing == pc["io"] = "refused" \/ lstat # "normal"
     IN  lstat' = (IF lstat = "unloaded" \/ ~closing THEN lstat
                   ELSE IF refs' = {} THEN "unloaded" ELSE "closewait")
  /\ Goto("io", "idle")
  /\ UNCHANGED <<link, heap, posted, accepted_link, locals, history>>

\* The end of tcp_shutdown_by_packet: whatever tcp_syn returned, the object of
\* the failed request is closed and its packet freed.
ShutdownReturn ==
  /\ pc["io"] \in {"posted", "refused"}
  /\ failed # None
  /\ Close(accepted_link[failed])
  /\ heap' = [heap EXCEPT ![failed] = "free"]
  /\ accepted_link' = [accepted_link EXCEPT ![failed] = None]
  /\ failed' = None
  /\ Release("io")
  /\ Goto("io", "idle")
  /\ UNCHANGED <<posted, packet, tries, hold, history>>

-----------------------------------------------------------------------------
(* The program                                                             *)

\* tcp_destroy of the listener
DestroyListener ==
  /\ lstat = "normal"
  /\ lstat' = (IF refs = {} THEN "unloaded" ELSE "closewait")
  /\ UNCHANGED <<refs, link, heap, posted, accepted_link, pc, locals, history>>

\* tcp_destroy of a link the program was told of
DestroyAccepted(h) ==
  /\ link[h] \in {"announced", "receiving"}
  /\ Close(h)
  /\ UNCHANGED <<lstat, refs, heap, posted, accepted_link, pc, locals, history>>

\* The steps inside a call
Step(t) ==
  \/ SynPacket(t) \/ SynNoPacket(t) \/ SynObject(t) \/ SynNoObject(t)
  \/ SynPosted(t) \/ SynRetry(t) \/ SynGiveUp(t)

Next ==
  \/ tcp_listen \/ ListenMore \/ ListenReturn
  \/ \E t \in Threads : Step(t)
  \/ \E p \in SynPackets :
       \/ Connected(p) \/ ConnectedNoEntry(p)
       \/ SynException(p) \/ ExceptionNoEntry(p)
  \/ SynCopied \/ SynNotCopied \/ SynRecv \/ SynReturn
  \/ ShutdownSyn \/ ShutdownReturn
  \/ DestroyListener
  \/ \E h \in Handles : DestroyAccepted(h)

Spec == Init /\ [][Next]_vars

\* Threads run on; the system completes the requests of a closed listener.
Fairness ==
  /\ \A t \in Threads : WF_vars(Step(t))
  /\ WF_vars(ListenMore \/ ListenReturn)
  /\ WF_vars(SynCopied \/ SynNotCopied \/ SynRecv \/ SynReturn)
  /\ WF_vars(ShutdownSyn \/ ShutdownReturn)
  /\ \A p \in SynPackets : WF_vars(ConnectedNoEntry(p) \/ ExceptionNoEntry(p))

FairSpec == Spec /\ Fairness
-----------------------------------------------------------------------------
(* Properties                                                              *)

TypeOK ==
  /\ lstat \in {"normal", "closewait", "unloaded"}
  /\ refs \subseteq Threads
  /\ link \in [Handles -> {"free", "fresh", "announced", "receiving", "closed"}]
  /\ heap \in [SynPackets -> {"free", "live"}]
  /\ posted \subseteq SynPackets
  /\ accepted_link \in [SynPackets -> Handles \cup {None}]
  /\ pc \in [Threads -> {"idle", "syn", "object", "accept", "posted", "giveup",
                         "refused", "shutdown", "copy", "recv", "over"}]
  /\ packet \in [Threads -> SynPackets \cup {None}]
  /\ tries \in [Threads -> 0..(SynTimes + 1)]
  /\ hold \in [Threads -> Handles \cup {None}]
  /\ failed \in SynPackets \cup {None}
  /\ listened \in 0..Block
  /\ lost \in Nat

\* The I/O thread owes the listener a new accept request.
Renewing ==
  \/ pc["io"] \in {"copy", "recv", "shutdown", "syn", "object", "accept", "giveup"}
  \/ pc["io"] = "refused" /\ failed = None

\* While the listener is open, as many accept requests are pending, or about
\* to be renewed, as tcp_listen posted: a failed request, a failed copy or a
\* failed receive never uses one up (the third point of the comment in
\* tcp_shutdown_by_packet, and the comment of tcp_dispatch_io_syn).  The one
\* exception is a failed request for whose successor there is no memory.
AcceptsKept ==
  lstat = "normal" =>
    Cardinality(posted) + (IF Renewing THEN 1 ELSE 0) + lost = listened

\* A prepared object that no request and no thread will ever hand to the
\* program or close.
Orphans ==
  {h \in Handles :
     /\ link[h] = "fresh"
     /\ \A t \in Threads : hold[t] # h
     /\ \A p \in posted \cup ({failed} \ {None}) : accepted_link[p] # h}

\* Two pending requests never wait for the same socket, no thread works on the
\* socket of a pending request, and no object prepared for a connection is
\* forgotten while the listener is open, whichever of its steps fail.
OneRequestEach ==
  /\ \A p \in posted :
       /\ link[accepted_link[p]] = "fresh"
       /\ \A q \in posted : accepted_link[p] = accepted_link[q] => p = q
       /\ \A t \in Threads : hold[t] # accepted_link[p]
  /\ lstat = "normal" => Orphans = {}

\* How many steps a thread can still make before it returns, or before it has
\* posted one more of the requests of tcp_listen.
StepsLeft(t) ==
  CASE pc[t] \in {"idle", "over"} -> 0
    [] pc[t] = "refused" -> 1
    [] pc[t] = "giveup" -> 2
    [] pc[t] = "accept" -> 2 * (SynTimes - tries[t]) + 3
    [] pc[t] = "object" -> 2 * (SynTimes - tries[t]) + 4
    [] pc[t] = "syn" -> 2 * SynTimes + 5
    [] pc[t] = "posted" -> IF t = "user" THEN 2 * SynTimes + 6 ELSE 1
    [] pc[t] = "copy" -> 2 * SynTimes + 7
    [] OTHER -> 2 * SynTimes + 6

\* tcp_syn cannot try for ever and no step of a handler or of tcp_listen is
\* undone by what the other thread, the program or the system does meanwhile:
\* every step of a thread inside a call brings it nearer to its end, and
\* tcp_listen, which starts over for each request, does so `block' times.
RetriesBounded ==
  [][\A t \in Threads : pc[t] \notin {"idle", "over"} =>
       \/ pc'[t] = pc[t] /\ StepsLeft(t)' = StepsLeft(t)
       \/ StepsLeft(t)' \in Nat /\ StepsLeft(t)' < StepsLeft(t)
       \/ t = "user" /\ listened' \in (listened + 1)..Block]_vars

\* A listener that is closed is unloaded, and no request stays pending.
ListenerEnds ==
  (lstat # "normal") ~> (lstat = "unloaded" /\ posted = {})

\* The comment of tcp_shutdown_by_packet (point 2): the object of a failed
\* accept request is closed.
NoOrphan == Orphans = {}
-----------------------------------------------------------------------------
(* The inductive invariant behind the theorems of TcpAcceptProofs          *)

\* What each position of tcp_syn, tcp_listen and the handlers implies.
Positions ==
  /\ pc["user"] \notin {"shutdown", "copy", "recv"}
  /\ pc["user"] \in {"syn", "object", "accept"} => listened < Block
  /\ \A t \in Threads : pc[t] # "giveup" => tries[t] <= SynTimes
  /\ pc["io"] \in {"idle", "copy", "recv"} => failed = None
  /\ pc["io"] = "shutdown" => failed # None

\* A packet is free, pending, prepared by one thread, or the failed one.
PacketsApart ==
  /\ \A t \in Threads :
       /\ packet[t] # None <=> pc[t] \in {"object", "accept", "giveup"}
       /\ packet[t] # None => packet[t] \notin posted /\ packet[t] # failed
  /\ packet["user"] # None => packet["user"] # packet["io"]
  /\ failed \notin posted
  /\ \A p \in SynPackets : heap[p] = "free" =>
       p \notin posted /\ p # failed /\ \A t \in Threads : packet[t] # p

\* A packet names an object exactly while it is offered or failed, the object
\* is untouched, and it is named once.
LinksApart ==
  /\ \A p \in SynPackets : accepted_link[p] # None <=>
       \/ p \in posted
       \/ p = failed
       \/ \E t \in Threads : packet[t] = p /\ pc[t] = "accept"
  /\ \A p \in SynPackets : accepted_link[p] # None =>
       /\ link[accepted_link[p]] = "fresh"
       /\ \A q \in SynPackets : accepted_link[q] = accepted_link[p] => q = p

\* A thread works on the object of its own packet, or on one that no packet
\* names any more.
HoldsApart ==
  /\ \A t \in Threads :
       /\ hold[t] # None <=> pc[t] \in {"accept", "copy", "recv"}
       /\ pc[t] = "accept" => hold[t] = accepted_link[packet[t]]
  /\ pc["io"] = "copy" => /\ link[hold["io"]] = "fresh"
                          /\ \A p \in SynPackets : accepted_link[p] # hold["io"]
  /\ pc["io"] = "recv" => link[hold["io"]] \notin {"free", "fresh"}

NoneForgotten ==
  lstat = "normal" => \A h \in Handles : link[h] = "fresh" =>
    \/ \E t \in Threads : hold[t] = h
    \/ \E p \in SynPackets : accepted_link[p] = h

AcceptInv ==
  /\ TypeOK
  /\ Positions
  /\ PacketsApart
  /\ LinksApart
  /\ HoldsApart
  /\ NoneForgotten
  /\ AcceptsKept
=============================================================================
