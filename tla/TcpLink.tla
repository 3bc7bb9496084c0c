------------------------------ MODULE TcpLink ------------------------------
(***************************************************************************)
(* The life of one TCP link and the events its program sees: tcp_create    *)
(* (tcp_allocate_object, tcp_entry), the blocking tcp_connect, the         *)
(* asynchronous tcp_connect2 with its completion                           *)
(* (tcp_dispatch_io_connected), data and disconnection on the I/O thread,  *)
(* tcp_destroy, and tcp_unload, which raises the closing events.           *)
(*                                                                         *)
(* Three threads use the link: "user" connects, "io" dispatches the        *)
(* completions of its socket, "killer" destroys it.  Each step ends at a   *)
(* call into the system, into the object table or into the callback.       *)
(***************************************************************************)
EXTENDS Naturals, Sequences, FiniteSets

CONSTANT MaxData     \* bound: how many data events a run may raise

ASSUME TcpLinkAssumption == MaxData \in Nat

Threads == {"user", "io", "killer"}

VARIABLES
  stat,       \* of the object: "none", "normal", "closewait", "unloaded"
  refs,       \* the threads that hold a reference
  sockfd,     \* "none", "open" or "closed"
  connected,  \* the TCP connection is established (the system's view)
  pc,         \* of each thread
  conn,       \* the packet of ConnectEx: "none", "held", "posted" or "freed"
  recv,       \* the packet of WSARecv: the same
  async,      \* the link was connected by tcp_connect2
  events      \* history: what the callback was told, in order

pkts == <<conn, recv, async>>
vars == <<stat, refs, sockfd, connected, pc, conn, recv, async, events>>

Init ==
  /\ stat = "none"
  /\ refs = {}
  /\ sockfd = "none"
  /\ connected = FALSE
  /\ pc = [t \in Threads |-> "idle"]
  /\ conn = "none"
  /\ recv = "none"
  /\ async = FALSE
  /\ events = <<>>

Goto(t, step) == pc' = [pc EXCEPT ![t] = step]

Raise(e) == events' = Append(events, e)

\* tcp_unload: EVT_PRE_CLOSE, the socket is closed, EVT_CLOSED.
tcp_unload ==
  /\ stat' = "unloaded"
  /\ sockfd' = "closed"
  /\ events' = events \o <<"preclose", "closed">>

\* objclos (external)
objclos ==
  \/ /\ stat = "normal"
     /\ refs = {}
     /\ tcp_unload
  \/ /\ stat = "normal"
     /\ refs # {}
     /\ stat' = "closewait"
     /\ UNCHANGED <<sockfd, events>>
  \/ /\ stat # "normal"
     /\ UNCHANGED <<stat, sockfd, events>>

\* objdefr of thread t (external), preceded by objclos if `closing'
objdefr(t, closing) ==
  LET ends == closing \/ stat = "closewait"
  IN  /\ refs' = refs \ {t}
      /\ \/ ends /\ refs' = {} /\ tcp_unload
         \/ /\ ends /\ refs' # {}
            /\ stat' = "closewait"
            /\ UNCHANGED <<sockfd, events>>
         \/ ~ends /\ UNCHANGED <<stat, sockfd, events>>

\* tcprefr
tcprefr(t) ==
  /\ stat = "normal"
  /\ refs' = refs \cup {t}

-----------------------------------------------------------------------------
(* tcp_create                                                              *)

tcp_create ==
  /\ stat = "none"
  /\ stat' = "normal"
  /\ sockfd' = "open"
  /\ UNCHANGED <<refs, connected, pc, pkts, events>>

\* tcp_entry fails behind the creation of the socket (bind, ioatth): ioclose,
\* then objclos, which runs tcp_unload; tcp_create returns INVALID_HTCPLINK.
CreateFailed ==
  /\ stat = "none"
  /\ tcp_unload
  /\ UNCHANGED <<refs, connected, pc, pkts>>

-----------------------------------------------------------------------------
(* tcp_connect                                                             *)

\* Mutant of tcp_connect: the link is looked up without a reference.
ConnectUnreferenced ==
  /\ pc["user"] = "idle"
  /\ stat = "normal"
  /\ Goto("user", "connecting")
  /\ UNCHANGED <<stat, refs, sockfd, connected, pkts, events>>

\* connect(2) is called and blocks.
tcp_connect ==
  /\ pc["user"] = "idle"
  /\ tcprefr("user")
  /\ Goto("user", "connecting")
  /\ UNCHANGED <<stat, sockfd, connected, pkts, events>>

ConnectSucceeds ==
  /\ pc["user"] = "connecting"
  /\ sockfd = "open"
  /\ ~connected
  /\ conn # "posted"
  /\ connected' = TRUE
  /\ recv' = "held"
  /\ Goto("user", "recv")
  /\ UNCHANGED <<stat, refs, sockfd, conn, async, events>>

\* connect(2) fails: the link stays as it is and may be tried again.
ConnectFails ==
  /\ pc["user"] = "connecting"
  /\ sockfd = "open"
  /\ Goto("user", "exit")
  /\ UNCHANGED <<stat, refs, sockfd, connected, pkts, events>>

\* connect(2) succeeds and no packet can be allocated: the call fails, and the
\* connection stays open with nobody reading from it.
ConnectNoMemory ==
  /\ pc["user"] = "connecting"
  /\ sockfd = "open"
  /\ ~connected
  /\ conn # "posted"
  /\ connected' = TRUE
  /\ Goto("user", "exit")
  /\ UNCHANGED <<stat, refs, sockfd, pkts, events>>

\* The descriptor was closed under the blocking call.
ConnectInterrupted ==
  /\ pc["user"] = "connecting"
  /\ sockfd = "closed"
  /\ Goto("user", "exit")
  /\ UNCHANGED <<stat, refs, sockfd, connected, pkts, events>>

\* asio_tcp_recv
ConnectRecv ==
  /\ pc["user"] = "recv"
  /\ \/ /\ stat = "normal"
        /\ recv' = "posted"
        /\ Goto("user", "event")
     \/ /\ recv' = "freed"
        /\ Goto("user", "exit")
  /\ UNCHANGED <<stat, refs, sockfd, connected, conn, async, events>>

\* Mutant of ConnectEvent: nothing is told of a link that began to close.
ConnectEventIfOpen ==
  /\ pc["user"] = "event"
  /\ IF stat = "normal" THEN Raise("connected") ELSE UNCHANGED events
  /\ Goto("user", "exit")
  /\ UNCHANGED <<stat, refs, sockfd, connected, pkts>>

\* ncb_post_connected, after the receive request is already pending
ConnectEvent ==
  /\ pc["user"] = "event"
  /\ Raise("connected")
  /\ Goto("user", "exit")
  /\ UNCHANGED <<stat, refs, sockfd, connected, pkts>>

-----------------------------------------------------------------------------
(* tcp_connect2                                                            *)

\* One ConnectEx packet is followed: the system refuses a second request on a
\* socket that is connecting, and such a call has no effect.
tcp_connect2 ==
  /\ pc["user"] = "idle"
  /\ conn # "posted"
  /\ tcprefr("user")
  /\ conn' = "held"
  /\ Goto("user", "connectex")
  /\ UNCHANGED <<stat, sockfd, connected, recv, async, events>>

\* asio_tcp_connect; ConnectEx refuses a socket that is already connected.
ConnectEx ==
  /\ pc["user"] = "connectex"
  /\ \/ /\ stat = "normal"
        /\ ~connected
        /\ conn' = "posted"
        /\ async' = TRUE
     \/ /\ conn' = "freed"
        /\ UNCHANGED async
  /\ Goto("user", "exit")
  /\ UNCHANGED <<stat, refs, sockfd, connected, recv, events>>

\* objdefr at the end of tcp_connect and tcp_connect2
Return(t) ==
  /\ pc[t] = "exit"
  /\ objdefr(t, FALSE)
  /\ Goto(t, "idle")
  /\ UNCHANGED <<connected, pkts>>

-----------------------------------------------------------------------------
(* The I/O thread                                                          *)

\* tcp_dispatch_io_connected: the packet is freed; the receive packet is
\* allocated or the link closed.
ConnectedOk ==
  /\ pc["io"] = "idle"
  /\ conn = "posted"
  /\ sockfd = "open"
  /\ tcprefr("io")
  /\ conn' = "freed"
  /\ connected' = TRUE
  /\ \/ recv' = "held" /\ Goto("io", "recv")
     \/ recv' = recv /\ Goto("io", "fail")
  /\ UNCHANGED <<stat, sockfd, async, events>>

\* asio_tcp_recv; on failure tcp_shutdown_by_packet closes the link and frees
\* the packet.
ConnectedRecv ==
  /\ pc["io"] = "recv"
  /\ \/ /\ stat = "normal"
        /\ recv' = "posted"
        /\ Goto("io", "event")
        /\ UNCHANGED <<stat, sockfd, events>>
     \/ /\ recv' = "freed"
        /\ objclos
        /\ Goto("io", "fail")
  /\ UNCHANGED <<refs, connected, conn, async>>

ConnectedEvent ==
  /\ pc["io"] = "event"
  /\ Raise("connected")
  /\ Goto("io", "exit")
  /\ UNCHANGED <<stat, refs, sockfd, connected, pkts>>

\* objdefr ...
ConnectedFail ==
  /\ pc["io"] = "fail"
  /\ objdefr("io", FALSE)
  /\ Goto("io", "close")
  /\ UNCHANGED <<connected, pkts>>

\* Mutant of ConnectedClose: the link is not closed when nothing can be received.
ConnectedStaysOpen ==
  /\ pc["io"] = "close"
  /\ Goto("io", "idle")
  /\ UNCHANGED <<stat, refs, sockfd, connected, pkts, events>>

\* ... and objclos behind it, with the handle read from the object
ConnectedClose ==
  /\ pc["io"] = "close"
  /\ objclos
  /\ Goto("io", "idle")
  /\ UNCHANGED <<refs, connected, pkts>>

\* The connection was refused or aborted, or the link is gone: the packet is
\* freed and the link, if it is still open, closed (tcp_dispatch_io_exception,
\* tcp_shutdown_by_packet).
ConnectExFailed ==
  /\ pc["io"] = "idle"
  /\ conn = "posted"
  /\ conn' = "freed"
  /\ objclos
  /\ UNCHANGED <<refs, connected, pc, recv, async>>

\* tcp_dispatch_io_recv: an event, then the request is posted again or the
\* link closed (TcpRecv has the details).
DataEvent ==
  /\ pc["io"] = "idle"
  /\ recv = "posted"
  /\ sockfd = "open"
  /\ Cardinality({i \in 1..Len(events) : events[i] = "data"}) < MaxData
  /\ tcprefr("io")
  /\ recv' = "held"
  /\ Raise("data")
  /\ Goto("io", "repost")
  /\ UNCHANGED <<stat, sockfd, connected, conn, async>>

DataReturn ==
  /\ pc["io"] = "repost"
  /\ \/ /\ stat = "normal"
        /\ recv' = "posted"
        /\ objdefr("io", FALSE)
     \/ /\ recv' = "freed"
        /\ objdefr("io", TRUE)
  /\ Goto("io", "idle")
  /\ UNCHANGED <<connected, conn, async>>

ReceiveEnds(state) ==
  /\ pc["io"] = "idle"
  /\ recv = "posted"
  /\ recv' = state
  /\ objclos
  /\ UNCHANGED <<refs, connected, pc, conn, async>>

\* Mutant of RecvFailed: the packet of an aborted receive is not freed.
RecvFailedKept == ReceiveEnds("held")

\* The peer disconnects, the request is aborted, or the link is gone.
RecvFailed == ReceiveEnds("freed")

-----------------------------------------------------------------------------
(* tcp_destroy                                                             *)

\* objreff: the last reference that can be taken
tcp_destroy ==
  /\ pc["killer"] = "idle"
  /\ tcprefr("killer")
  /\ stat' = "closewait"
  /\ Goto("killer", "ioclose")
  /\ UNCHANGED <<sockfd, connected, pkts, events>>

\* Mutant of ioclose: the descriptor is left to tcp_unload.
CloseLater ==
  /\ pc["killer"] = "ioclose"
  /\ Goto("killer", "exit")
  /\ UNCHANGED <<stat, refs, sockfd, connected, pkts, events>>

ioclose ==
  /\ pc["killer"] = "ioclose"
  /\ sockfd' = "closed"
  /\ Goto("killer", "exit")
  /\ UNCHANGED <<stat, refs, connected, pkts, events>>

-----------------------------------------------------------------------------
\* The steps inside a call that do not wait for the network, per thread
UserStep ==
  ConnectInterrupted \/ ConnectRecv \/ ConnectEvent \/ ConnectEx \/ Return("user")

IOStep ==
  \/ ConnectedRecv \/ ConnectedEvent \/ ConnectedFail \/ ConnectedClose
  \/ DataReturn \/ Return("io")

KillerStep == ioclose \/ Return("killer")

\* The pending requests of a socket that was closed
Aborted ==
  /\ sockfd = "closed"
  /\ ConnectExFailed \/ RecvFailed

\* The link does not exist any more and nobody uses it.
Gone ==
  /\ stat = "unloaded"
  /\ conn # "posted"
  /\ recv # "posted"
  /\ UNCHANGED vars

Next ==
  \/ tcp_create \/ CreateFailed
  \/ tcp_connect \/ ConnectSucceeds \/ ConnectFails \/ ConnectNoMemory
  \/ tcp_connect2
  \/ ConnectedOk \/ ConnectExFailed
  \/ DataEvent \/ RecvFailed
  \/ tcp_destroy
  \/ UserStep \/ IOStep \/ KillerStep
  \/ Gone

Spec == Init /\ [][Next]_vars

\* Threads run on and the system completes the requests of a closed socket.
\* The network may stay silent for ever: neither a blocking connect nor a
\* pending request ends by itself.
Fairness ==
  /\ WF_vars(UserStep)
  /\ WF_vars(IOStep)
  /\ WF_vars(KillerStep)
  /\ WF_vars(Aborted)

FairSpec == Spec /\ Fairness
-----------------------------------------------------------------------------
(* Properties                                                              *)

PacketStates == {"none", "held", "posted", "freed"}

TypeOK ==
  /\ stat \in {"none", "normal", "closewait", "unloaded"}
  /\ refs \in SUBSET Threads
  /\ sockfd \in {"none", "open", "closed"}
  /\ connected \in BOOLEAN
  /\ pc \in [Threads -> {"idle", "connecting", "connectex", "recv", "event",
                         "repost", "fail", "close", "ioclose", "exit"}]
  /\ conn \in PacketStates
  /\ recv \in PacketStates
  /\ async \in BOOLEAN
  /\ events \in Seq({"connected", "data", "preclose", "closed"})

\* EVT_CLOSED is the last the program hears of a link: no callback of a
\* connect, of a completion or of a second unload comes after it, whichever
\* thread drops the last reference.
NothingAfterClosed ==
  \A i \in 1..Len(events) : events[i] = "closed" => i = Len(events)

Told(e) == \E i \in 1..Len(events) : events[i] = e

\* EVT_TCP_CONNECTED is raised at most once, and behind ConnectEx before data.
EventOrder ==
  /\ \A i, j \in 1..Len(events) :
       events[i] = "connected" /\ events[j] = "connected" => i = j
  /\ async => \A i \in 1..Len(events) :
       events[i] = "data" => \E j \in 1..(i - 1) : events[j] = "connected"

\* A link that tells of data tells of its connection too, once, and first where
\* it can: behind tcp_connect2 both completions are handled by one I/O thread;
\* behind tcp_connect data may only overtake the event while the caller is
\* between asio_tcp_recv and ncb_post_connected, and the event is still raised
\* when the link closes meanwhile.
ConnectedFirst ==
  /\ EventOrder
  /\ Told("data") /\ ~Told("connected") => pc["user"] = "event"

\* Between two completions, an open link that ConnectEx connected has its
\* receive request pending: whatever fails in tcp_dispatch_io_connected or in
\* tcp_dispatch_io_recv also closes the link, so the disconnection of the peer
\* will be noticed.
ConnectedIsRead ==
  (async /\ connected /\ stat = "normal" /\ pc["io"] = "idle") => recv = "posted"

\* tcp_destroy interrupts a blocking connect (the comment above tcp_destroy):
\* the descriptor is closed although the connecting thread holds a reference.
DestroyInterrupts == (pc["killer"] = "ioclose") ~> (stat = "unloaded")

\* The packets of ConnectEx and WSARecv are freed once the link is gone.
PacketsReturned ==
  (stat = "unloaded") ~> (conn \in {"none", "freed"} /\ recv \in {"none", "freed"})
-----------------------------------------------------------------------------
(* The inductive invariant behind the theorems of TcpLinkProofs            *)

\* Who is inside a call holds a reference, except behind ConnectedFail.
References ==
  /\ \A t \in Threads : t \in refs <=> pc[t] \notin {"idle", "close"}
  /\ pc["user"] \in {"idle", "connecting", "connectex", "recv", "event", "exit"}
  /\ pc["io"] \in {"idle", "recv", "event", "repost", "fail", "close", "exit"}
  /\ pc["killer"] \in {"idle", "ioclose", "exit"}

Lifetime ==
  /\ stat \in {"none", "unloaded"} => refs = {}
  /\ stat = "none" => ~async
  /\ Told("closed") => stat = "unloaded"

\* tcp_connect and tcp_connect2 compete for one connection: a link connected
\* by tcp_connect2 is connected by the completion, or is closing.
Connecting ==
  /\ conn = "posted" => async /\ ~connected
  /\ pc["user"] = "connectex" => conn = "held"
  /\ pc["user"] \in {"recv", "event"} => connected
  /\ async /\ ~connected /\ stat = "normal" => conn = "posted"
  /\ async => pc["user"] # "event" /\ (pc["user"] = "recv" => stat # "normal")
  /\ pc["io"] \in {"recv", "event"} => async /\ connected

\* Who may receive is told of the connection, or is about to be.
Telling ==
  /\ ~connected => /\ ~Told("connected") /\ ~Told("data")
                   /\ recv # "posted" /\ pc["io"] = "idle"
  /\ pc["io"] \in {"recv", "event"} => ~Told("connected") /\ ~Told("data")
  /\ pc["user"] = "recv" => ~Told("data") /\ recv # "posted" /\ pc["io"] = "idle"
  /\ pc["user"] \in {"recv", "event"} => ~Told("connected")
  /\ (recv = "posted" \/ pc["io"] = "repost" \/ Told("data")) /\ ~Told("connected")
       => pc["user"] = "event" \/ pc["io"] = "event"

Reading ==
  (async /\ connected /\ stat = "normal" /\ pc["io"] \in {"idle", "event", "exit"})
    => recv = "posted"

LinkInv ==
  /\ TypeOK
  /\ References
  /\ Lifetime
  /\ Connecting
  /\ Telling
  /\ Reading
  /\ NothingAfterClosed
  /\ EventOrder
=============================================================================
