----------------------------- MODULE NetStack ------------------------------
(***************************************************************************)
(* The start and the end of the library: so_init and so_uninit             *)
(* (network.c), which tcp_init, udp_init, tcp_uninit and udp_uninit call,  *)
(* and the pool of completion ports and I/O threads behind them (io.c).    *)
(*                                                                         *)
(* Several threads of the program initialise and release the protocols at  *)
(* the same time.  Every Interlocked operation, every system call and      *)
(* every turn of the loops over the pool is a step.  A thread releases     *)
(* only a protocol that it initialised itself.                             *)
(***************************************************************************)
EXTENDS Integers, Sequences, FiniteSets

CONSTANTS Callers,    \* threads of the program
          Divisions,  \* posix__getnprocs(): ports, and threads, of the pool
          Links,      \* handles of link objects (hld)
          MaxCalls    \* bound: calls of so_init and so_uninit in a run

ASSUME NetStackAssumption ==
  /\ IsFiniteSet(Callers)
  /\ Divisions \in Nat \ {0}
  /\ Links \subseteq Nat
  /\ MaxCalls \in Nat

Protocols == {"TCP", "UDP"}
Ports == 0..(Divisions - 1)
NoPort == -1
Quit == -1      \* IOCP_INVALID_SIZE_TRANSFER

VARIABLES
  so_startup,   \* __so_startup
  initialized,  \* __so_protocol_initialized
  objects,      \* objinit was called and objuninit was not
  inited,       \* __inited__: "none", "busy", "passed" or "failed"
  epos,         \* epmgr.epos: "null" or "allocated"
  epfd,         \* of each port: "none", "null", "open" or "closed"
  actived,      \* of each port
  thread,       \* of each port: "none", "running" or "ended"
  cq,           \* what is queued at each port: links and Quit
  bound,        \* the port each link's socket is associated with
  pc,           \* of each caller
  arg,          \* the protocol of its call
  idx,          \* its position in the loop over the pool
  held,         \* history: the protocols each caller initialised
  calls         \* history: how many calls were made

sovars == <<so_startup, initialized, objects>>
iovars == <<inited, epos, epfd, actived, thread, cq, bound>>
vars == <<so_startup, initialized, objects, inited, epos, epfd, actived,
          thread, cq, bound, pc, arg, idx, held, calls>>

Init ==
  /\ so_startup = 0
  /\ initialized = [p \in Protocols |-> FALSE]
  /\ objects = FALSE
  /\ inited = "none"
  /\ epos = "null"
  /\ epfd = [i \in Ports |-> "none"]
  /\ actived = [i \in Ports |-> FALSE]
  /\ thread = [i \in Ports |-> "none"]
  /\ cq = [i \in Ports |-> <<>>]
  /\ bound = [l \in Links |-> NoPort]
  /\ pc = [c \in Callers |-> "idle"]
  /\ arg = [c \in Callers |-> "TCP"]
  /\ idx = [c \in Callers |-> 0]
  /\ held = [c \in Callers |-> {}]
  /\ calls = 0

Goto(c, step) == pc' = [pc EXCEPT ![c] = step]

-----------------------------------------------------------------------------
(* so_init                                                                 *)

Starts(c, p, first) ==
  /\ pc[c] = "idle"
  /\ p \notin held[c]
  /\ calls < MaxCalls
  /\ calls' = calls + 1
  /\ arg' = [arg EXCEPT ![c] = p]
  /\ so_startup' = so_startup + 1
  /\ Goto(c, IF first THEN "startup" ELSE "later")
  /\ UNCHANGED <<initialized, objects, iovars, idx, held>>

\* Mutant of so_init: the incremented count is not compared with one.
InitByEverybody(c, p) == Starts(c, p, TRUE)

\* InterlockedIncrement(__so_startup) == 1 ?
so_init(c, p) == Starts(c, p, so_startup = 0)

\* Not the first: the count is taken back and nothing else is done.
InitLater(c) ==
  /\ pc[c] = "later"
  /\ so_startup' = so_startup - 1
  /\ Goto(c, "flag")
  /\ UNCHANGED <<initialized, objects, iovars, arg, idx, held, calls>>

\* WSAStartup (its error codes are positive, the test for < 0 never holds),
\* then ioinit: posix__atomic_initial_try and the memory of the pool.
IoInit(c) ==
  /\ pc[c] = "startup"
  /\ inited = "none"
  /\ inited' = "busy"
  /\ epos' = "allocated"
  /\ idx' = [idx EXCEPT ![c] = 0]
  /\ Goto(c, "port")
  /\ UNCHANGED <<sovars, epfd, actived, thread, cq, bound, arg, held, calls>>

\* No memory for the pool.
IoInitFailed(c) ==
  /\ pc[c] = "startup"
  /\ inited \in {"none", "failed"}
  /\ inited' = "failed"
  /\ Goto(c, "undo")
  /\ UNCHANGED <<sovars, epos, epfd, actived, thread, cq, bound, arg, idx, held,
                 calls>>

\* so_init fails: -1
InitUndo(c) ==
  /\ pc[c] = "undo"
  /\ so_startup' = so_startup - 1
  /\ Goto(c, "idle")
  /\ UNCHANGED <<initialized, objects, iovars, arg, idx, held, calls>>

\* One turn of the loop of __ioinit: a port, then its thread.  A port that
\* could not be created is NULL, which the test for < 0 does not catch; a
\* thread that could not be created leaves the port inactive.
CreatePort(c) ==
  LET i == idx[c] IN
  /\ pc[c] = "port"
  /\ i < Divisions
  /\ \E fd \in {"open", "null"} : epfd' = [epfd EXCEPT ![i] = fd]
  /\ \E created \in BOOLEAN :
       /\ actived' = [actived EXCEPT ![i] = created]
       /\ thread' = [thread EXCEPT ![i] = IF created THEN "running" ELSE "none"]
  /\ idx' = [idx EXCEPT ![c] = i + 1]
  /\ UNCHANGED <<sovars, inited, epos, cq, bound, pc, arg, held, calls>>

\* posix__atomic_initial_complete: from now on another caller may stop the pool
IoReady(c) ==
  /\ pc[c] = "port"
  /\ idx[c] = Divisions
  /\ inited' = "passed"
  /\ Goto(c, "objinit")
  /\ UNCHANGED <<sovars, epos, epfd, actived, thread, cq, bound, arg, idx, held,
                 calls>>

objinit(c) ==
  /\ pc[c] = "objinit"
  /\ objects' = TRUE
  /\ Goto(c, "flag")
  /\ UNCHANGED <<so_startup, initialized, iovars, arg, idx, held, calls>>

\* The protocol is marked.  For TCP the condition tests that the mark is
\* already there.  The call returns 0.
MarkProtocol(c) ==
  /\ pc[c] = "flag"
  /\ initialized' =
       [initialized EXCEPT ![arg[c]] = IF arg[c] = "TCP" THEN @ ELSE TRUE]
  /\ held' = [held EXCEPT ![c] = @ \cup {arg[c]}]
  /\ Goto(c, "idle")
  /\ UNCHANGED <<so_startup, objects, iovars, arg, idx, calls>>

-----------------------------------------------------------------------------
(* so_uninit                                                               *)

\* The mark is removed; the library stays while another mark is set.
so_uninit(c, p) ==
  /\ pc[c] = "idle"
  /\ p \in held[c]
  /\ calls < MaxCalls
  /\ calls' = calls + 1
  /\ held' = [held EXCEPT ![c] = @ \ {p}]
  /\ initialized' = [initialized EXCEPT ![p] = FALSE]
  /\ Goto(c, IF \E q \in Protocols : initialized'[q] THEN "idle" ELSE "objuninit")
  /\ UNCHANGED <<so_startup, objects, iovars, arg, idx>>

objuninit(c) ==
  /\ pc[c] = "objuninit"
  /\ objects' = FALSE
  /\ Goto(c, "iouninit")
  /\ UNCHANGED <<so_startup, initialized, iovars, arg, idx, held, calls>>

\* iouninit, guarded by posix__atomic_initial_regress; WSACleanup, on return,
\* has no effect on this state.
iouninit(c) ==
  /\ pc[c] = "iouninit"
  /\ \/ /\ inited = "passed"
        /\ inited' = "none"
        /\ idx' = [idx EXCEPT ![c] = 0]
        /\ Goto(c, "stop")
     \/ /\ inited # "passed"
        /\ Goto(c, "idle")
        /\ UNCHANGED <<inited, idx>>
  /\ UNCHANGED <<sovars, epos, epfd, actived, thread, cq, bound, arg, held,
                 calls>>

\* Mutant of StopThread: the thread is not told to end.
StopUntold(c) ==
  LET i == idx[c] IN
  /\ pc[c] = "stop"
  /\ i < Divisions
  /\ actived' = [actived EXCEPT ![i] = FALSE]
  /\ Goto(c, IF actived[i] THEN "wait" ELSE "close")
  /\ UNCHANGED <<sovars, inited, epos, epfd, thread, cq, bound, arg, idx, held,
                 calls>>

\* One turn of the loop: ask the thread to end ...
StopThread(c) ==
  LET i == idx[c] IN
  /\ pc[c] = "stop"
  /\ i < Divisions
  /\ actived' = [actived EXCEPT ![i] = FALSE]
  /\ cq' = IF actived[i] /\ epfd[i] = "open"
           THEN [cq EXCEPT ![i] = Append(@, Quit)] ELSE cq
  /\ Goto(c, IF actived[i] THEN "wait" ELSE "close")
  /\ UNCHANGED <<sovars, inited, epos, epfd, thread, bound, arg, idx, held,
                 calls>>

\* ... wait for it without limit ...
WaitThread(c) ==
  /\ pc[c] = "wait"
  /\ thread[idx[c]] = "ended"
  /\ Goto(c, "close")
  /\ UNCHANGED <<sovars, iovars, arg, idx, held, calls>>

\* ... and close the port.
ClosePort(c) ==
  /\ pc[c] = "close"
  /\ epfd' = [epfd EXCEPT ![idx[c]] = IF @ = "open" THEN "closed" ELSE @]
  /\ idx' = [idx EXCEPT ![c] = @ + 1]
  /\ Goto(c, "stop")
  /\ UNCHANGED <<sovars, inited, epos, actived, thread, cq, bound, arg, held,
                 calls>>

FreeAt(c, i) ==
  /\ pc[c] = "stop"
  /\ idx[c] = i
  /\ epos' = "null"
  /\ Goto(c, "idle")
  /\ UNCHANGED <<sovars, inited, epfd, actived, thread, cq, bound, arg, idx, held, calls>>

\* Mutant of FreePool: the pool is freed inside the loop.
FreePoolEarly(c) == FreeAt(c, Divisions - 1)

FreePool(c) == FreeAt(c, Divisions)

-----------------------------------------------------------------------------
(* The pool at work                                                        *)

\* ioatth: the socket joins the port of its handle if the system agrees.
ioatth(l) ==
  LET i == l % Divisions IN
  /\ objects
  /\ inited = "passed"
  /\ bound[l] = NoPort
  /\ epfd[i] = "open"
  /\ bound' = [bound EXCEPT ![l] = i]
  /\ UNCHANGED <<sovars, inited, epos, epfd, actived, thread, cq, pc, arg, idx,
                 held, calls>>

\* A request of a link completes (external: the system).
Completion(l) ==
  LET i == bound[l] IN
  /\ i # NoPort
  /\ epfd[i] = "open"
  /\ \A k \in 1..Len(cq[i]) : cq[i][k] # l
  /\ cq' = [cq EXCEPT ![i] = Append(@, l)]
  /\ UNCHANGED <<sovars, inited, epos, epfd, actived, thread, bound, pc, arg,
                 idx, held, calls>>

\* One turn of __iorun: dispatch a completion, or end.
iorun(i) ==
  /\ thread[i] = "running"
  /\ epfd[i] = "open"
  /\ cq[i] # <<>>
  /\ cq' = [cq EXCEPT ![i] = Tail(@)]
  /\ thread' = [thread EXCEPT ![i] = IF Head(cq[i]) = Quit THEN "ended" ELSE @]
  /\ UNCHANGED <<sovars, inited, epos, epfd, actived, bound, pc, arg, idx, held,
                 calls>>

Step(c) ==
  \/ InitLater(c) \/ IoInit(c) \/ IoInitFailed(c) \/ InitUndo(c)
  \/ CreatePort(c) \/ IoReady(c) \/ objinit(c) \/ MarkProtocol(c)
  \/ objuninit(c) \/ iouninit(c) \/ StopThread(c) \/ WaitThread(c)
  \/ ClosePort(c) \/ FreePool(c)

Next ==
  \/ \E c \in Callers, p \in Protocols : so_init(c, p) \/ so_uninit(c, p)
  \/ \E c \in Callers : Step(c)
  \/ \E l \in Links : ioatth(l) \/ Completion(l)
  \/ \E i \in Ports : iorun(i)

Spec == Init /\ [][Next]_vars

\* Callers and I/O threads run; nothing forces a call, an attachment or a
\* completion.
Fairness ==
  /\ \A c \in Callers : WF_vars(Step(c))
  /\ \A i \in Ports : WF_vars(iorun(i))

FairSpec == Spec /\ Fairness
-----------------------------------------------------------------------------
(* Properties                                                              *)

TypeOK ==
  /\ so_startup \in Nat
  /\ initialized \in [Protocols -> BOOLEAN]
  /\ objects \in BOOLEAN
  /\ inited \in {"none", "busy", "passed", "failed"}
  /\ epos \in {"null", "allocated"}
  /\ epfd \in [Ports -> {"none", "null", "open", "closed"}]
  /\ actived \in [Ports -> BOOLEAN]
  /\ thread \in [Ports -> {"none", "running", "ended"}]
  /\ cq \in [Ports -> Seq(Links \cup {Quit})]
  /\ bound \in [Links -> Ports \cup {NoPort}]
  /\ pc \in [Callers -> {"idle", "startup", "later", "undo", "port", "objinit",
                         "flag", "objuninit", "iouninit", "stop", "wait", "close"}]
  /\ arg \in [Callers -> Protocols]
  /\ idx \in [Callers -> 0..Divisions]
  /\ held \in [Callers -> SUBSET Protocols]
  /\ calls \in 0..MaxCalls

Initializing == {c \in Callers : pc[c] \in {"startup", "port", "undo"}}
Stopping == {c \in Callers : pc[c] \in {"stop", "wait", "close"}}

\* The counter __so_startup lets one thread build the pool at a time, also
\* when an attempt fails and the next caller tries again, and never while the
\* pool of an earlier attempt exists or is being taken down.  One thread takes
\* the pool down, and each port gets at most one request to end.
OneAtATime ==
  /\ \A c, d \in Initializing : c = d
  /\ Initializing # {} => inited # "passed" /\ Stopping = {}
  /\ \A c, d \in Stopping : c = d
  /\ \A i \in Ports : Cardinality({k \in 1..Len(cq[i]) : cq[i][k] = Quit}) <= 1

\* A port is closed only when its thread cannot wait on it any more, and the
\* memory of the pool, which every I/O thread reads in each turn, is freed only
\* after the last of them ended.
PoolFreedLast ==
  /\ \A i \in Ports : epfd[i] = "closed" => thread[i] # "running"
  /\ epos = "null" => \A i \in Ports : thread[i] # "running"

\* iouninit, which waits without a limit, waits only for a thread that ended or
\* that is running and still has the request to end in its queue (if its port
\* could be created): the request is neither lost nor left unread.
WaitAnswered ==
  \A c \in Callers : pc[c] = "wait" =>
    LET i == idx[c] IN
    \/ thread[i] = "ended"
    \/ /\ thread[i] = "running"
       /\ epfd[i] = "open" => \E k \in 1..Len(cq[i]) : cq[i][k] = Quit

\* iouninit returns although it waits for each thread without a time limit,
\* provided that every port could be created.
UninitReturns ==
  \A c \in Callers :
    (pc[c] \in {"stop", "wait", "close"} /\ \A i \in Ports : epfd[i] # "null")
      ~> (pc[c] = "idle")

\* The comment of so_uninit: only when all protocols were released may the
\* library be taken down.
TeardownWhenAllReleased ==
  \A c \in Callers :
    pc[c] \in {"objuninit", "iouninit", "stop", "wait", "close"} =>
      \A d \in Callers : held[d] = {}
-----------------------------------------------------------------------------
(* The inductive invariant behind the theorems of NetStackProofs           *)

\* The calls of so_init that have not given their share of __so_startup back.
Starting == {c \in Callers : pc[c] \in {"startup", "port", "undo", "later"}}

\* No call has built the pool yet: the one that does keeps its share for ever.
NeverBuilt == so_startup = Cardinality(Starting)

StartCounted ==
  /\ NeverBuilt \/ so_startup = Cardinality(Starting) + 1
  /\ \A c, d \in Initializing : c = d
  /\ Initializing # {} => NeverBuilt
  /\ NeverBuilt => /\ inited # "passed" /\ Stopping = {}
                   /\ \A l \in Links : bound[l] = NoPort
                   /\ \A i \in Ports : cq[i] = <<>>

StopAlone ==
  /\ \A c, d \in Stopping : c = d
  /\ Stopping # {} => inited # "passed"

\* A port that is active was not asked to end, and no port is asked twice.
AskedOnce ==
  \A i \in Ports : \A j \in 1..Len(cq[i]) :
    cq[i][j] = Quit => /\ ~actived[i]
                       /\ \A k \in 1..Len(cq[i]) : cq[i][k] = Quit => k = j

\* A thread whose port is not active ended, or is waited for; the loops of
\* iouninit leave ended threads behind.
ThreadsEnd ==
  /\ \A i \in Ports : thread[i] = "running" =>
       actived[i] \/ \E c \in Callers : pc[c] = "wait" /\ idx[c] = i
  /\ \A c \in Callers :
       /\ pc[c] = "port" => epos = "allocated"
       /\ pc[c] \in {"wait", "close"} => idx[c] \in Ports
       /\ pc[c] = "close" => thread[idx[c]] # "running"
       /\ pc[c] \in {"stop", "wait", "close"} =>
            \A i \in Ports : i < idx[c] => thread[i] # "running"

NetInv ==
  /\ TypeOK
  /\ StartCounted
  /\ StopAlone
  /\ AskedOnce
  /\ ThreadsEnd
  /\ PoolFreedLast

\* An active port has its thread, and whoever waits for one that is not gets its
\* answer.
PoolInv ==
  /\ \A i \in Ports : actived[i] => thread[i] = "running"
  /\ WaitAnswered
=============================================================================
