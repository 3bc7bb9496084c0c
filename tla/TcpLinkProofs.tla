--------------------------- MODULE TcpLinkProofs ---------------------------
(***************************************************************************)
(* Theorems about TcpLink, for any number of data events.  LinkInv is the  *)
(* inductive invariant; each action preserves it by a lemma of its own.    *)
(***************************************************************************)
EXTENDS TcpLink, TLAPS

-----------------------------------------------------------------------------
(* What a step does to the history of events                               *)

Names == {"connected", "data", "preclose", "closed"}

\* tcp_unload raises its two events, or nothing happens.
UnloadOrNot ==
  \/ UNCHANGED events
  \/ /\ events' = events \o <<"preclose", "closed">>
     /\ stat # "unloaded" /\ stat' = "unloaded"

\* The callback is called once.
LEMMA RaiseTells ==
  ASSUME TypeOK, NEW e \in Names, Raise(e)
  PROVE  /\ events' \in Seq(Names)
         /\ Len(events') = Len(events) + 1
         /\ events'[Len(events) + 1] = e
         /\ \A i \in 1..Len(events) : events'[i] = events[i]
         /\ \A x \in Names : Told(x)' <=> (Told(x) \/ x = e)
<1>1. events \in Seq(Names)
  BY DEF TypeOK, Names
<1>2. /\ events' \in Seq(Names)
      /\ Len(events') = Len(events) + 1
      /\ events'[Len(events) + 1] = e
      /\ \A i \in 1..Len(events) : events'[i] = events[i]
  BY <1>1 DEF Raise
<1>3. Len(events) \in Nat
  BY <1>1
<1>4. 1..Len(events') = 1..Len(events) \cup {Len(events) + 1}
  BY <1>2, <1>3
<1>5. ASSUME NEW x \in Names PROVE Told(x)' <=> (Told(x) \/ x = e)
  BY <1>2, <1>4 DEF Told
<1> QED
  BY <1>2, <1>5

\* The two calls of tcp_unload.
LEMMA UnloadTells ==
  ASSUME TypeOK, events' = events \o <<"preclose", "closed">>
  PROVE  /\ events' \in Seq(Names)
         /\ Len(events) \in Nat
         /\ Len(events') = Len(events) + 2
         /\ events'[Len(events) + 1] = "preclose"
         /\ events'[Len(events) + 2] = "closed"
         /\ \A i \in 1..Len(events) : events'[i] = events[i]
         /\ \A x \in Names :
              Told(x)' <=> (Told(x) \/ x \in {"preclose", "closed"})
<1>1. events \in Seq(Names) /\ <<"preclose", "closed">> \in Seq(Names)
  BY DEF TypeOK, Names
<1>2. /\ events' \in Seq(Names)
      /\ Len(events) \in Nat
      /\ Len(events') = Len(events) + 2
      /\ events'[Len(events) + 1] = "preclose"
      /\ events'[Len(events) + 2] = "closed"
      /\ \A i \in 1..Len(events) : events'[i] = events[i]
  BY <1>1
<1>3. 1..Len(events') = 1..Len(events) \cup {Len(events) + 1, Len(events) + 2}
  BY <1>2
<1>4. ASSUME NEW x \in Names
      PROVE  Told(x)' <=> (Told(x) \/ x \in {"preclose", "closed"})
  BY <1>2, <1>3 DEF Told
<1> QED
  BY <1>2, <1>4

\* A step that may unload the link tells of no connection and no data, and
\* EVT_CLOSED stays the last event.
LEMMA UnloadStep ==
  ASSUME LinkInv, UnloadOrNot
  PROVE  /\ events' \in Seq(Names)
         /\ \A x \in {"connected", "data"} : Told(x)' <=> Told(x)
         /\ Told("closed")' => Told("closed") \/ stat' = "unloaded"
         /\ NothingAfterClosed'
         /\ async' = async => EventOrder'
         /\ ~Told("connected") /\ ~Told("data") => EventOrder'
<1>1. CASE UNCHANGED events
  BY <1>1 DEF LinkInv, TypeOK, Told, NothingAfterClosed, EventOrder, Names
<1>2. CASE /\ events' = events \o <<"preclose", "closed">>
           /\ stat # "unloaded" /\ stat' = "unloaded"
  <2>1. /\ events' \in Seq(Names)
        /\ \A x \in {"connected", "data"} : Told(x)' <=> Told(x)
    BY <1>2, UnloadTells DEF LinkInv, Names
  <2>2. ~Told("closed")
    BY <1>2 DEF LinkInv, Lifetime
  <2>3. NothingAfterClosed'
    BY <1>2, <2>2, UnloadTells DEF LinkInv, Told, NothingAfterClosed
  <2>4. async' = async => EventOrder'
    <3>1. /\ Len(events) \in Nat
          /\ \A i \in 1..Len(events) : events'[i] = events[i]
          /\ \A i \in 1..Len(events') :
               events'[i] \in {"connected", "data"} => i \in 1..Len(events)
      BY <1>2, UnloadTells DEF LinkInv
    <3>2. \A i, j \in 1..Len(events') :
             events'[i] = "connected" /\ events'[j] = "connected" => i = j
      BY <3>1 DEF LinkInv, EventOrder
    <3>3. ASSUME async, NEW i \in 1..Len(events'), events'[i] = "data"
          PROVE  \E j \in 1..(i - 1) : events'[j] = "connected"
      <4>1. PICK j \in 1..(i - 1) : events[j] = "connected"
        BY <3>1, <3>3 DEF LinkInv, EventOrder
      <4>2. j \in 1..Len(events)
        BY <3>1, <3>3
      <4> QED
        BY <3>1, <4>1, <4>2
    <3> QED
      BY <3>2, <3>3 DEF EventOrder
  <2>5. ~Told("connected") /\ ~Told("data") => EventOrder'
    BY <1>2, UnloadTells DEF LinkInv, Told, EventOrder
  <2> QED
    BY <1>2, <2>1, <2>3, <2>4, <2>5
<1> QED
  BY <1>1, <1>2 DEF UnloadOrNot

\* A callback before the end keeps EVT_CLOSED the last event.
LEMMA RaiseStep ==
  ASSUME LinkInv, stat # "unloaded", NEW e \in Names \ {"closed"}, Raise(e)
  PROVE  NothingAfterClosed'
<1>1. ~Told("closed")
  BY DEF LinkInv, Lifetime
<1> QED
  BY <1>1, RaiseTells DEF LinkInv, Told, NothingAfterClosed, Names

\* EVT_TCP_CONNECTED comes first when nothing was told before.
LEMMA RaiseConnected ==
  ASSUME LinkInv, Raise("connected"), ~Told("connected"), ~async' \/ ~Told("data")
  PROVE  EventOrder'
<1>1. "connected" \in Names
  BY DEF Names
<1>2. Len(events) \in Nat
  BY DEF LinkInv, TypeOK
<1>3. /\ Len(events') = Len(events) + 1
      /\ \A i \in 1..Len(events) : events'[i] = events[i]
      /\ events'[Len(events) + 1] = "connected"
  BY <1>1, RaiseTells DEF LinkInv
<1>4. \A i \in 1..Len(events') : events'[i] = "connected" => i = Len(events) + 1
  BY <1>2, <1>3 DEF Told
<1>5. async' => \A i \in 1..Len(events') : events'[i] # "data"
  BY <1>2, <1>3 DEF Told
<1> QED
  BY <1>4, <1>5 DEF EventOrder

\* Data may follow it.
LEMMA RaiseData ==
  ASSUME LinkInv, Raise("data"), async' => async /\ Told("connected")
  PROVE  EventOrder'
<1>1. "data" \in Names /\ "data" # "connected"
  BY DEF Names
<1>2. Len(events) \in Nat
  BY DEF LinkInv, TypeOK
<1>3. /\ Len(events') = Len(events) + 1
      /\ events'[Len(events) + 1] = "data"
      /\ \A i \in 1..Len(events) : events'[i] = events[i]
  BY <1>1, RaiseTells DEF LinkInv
<1>a. \A i, j \in 1..Len(events') :
        events'[i] = "connected" /\ events'[j] = "connected" => i = j
  BY <1>1, <1>2, <1>3 DEF LinkInv, EventOrder
<1> SUFFICES ASSUME async', NEW i \in 1..Len(events'), events'[i] = "data"
             PROVE  \E j \in 1..(i - 1) : events'[j] = "connected"
  BY <1>a DEF EventOrder
<1>4. CASE i \in 1..Len(events)
  BY <1>2, <1>3, <1>4 DEF LinkInv, EventOrder
<1>5. CASE i = Len(events) + 1
  BY <1>1, <1>2, <1>3, <1>5 DEF Told
<1> QED
  BY <1>2, <1>3, <1>4, <1>5

-----------------------------------------------------------------------------
(* One lemma per action                                                    *)

\* Before tcp_create there is nothing.
LEMMA InitInv == Init => LinkInv
<1> SUFFICES ASSUME Init PROVE LinkInv
  OBVIOUS
<1>1. TypeOK
  <2>1. events \in Seq({"connected", "data", "preclose", "closed"})
    BY DEF Init
  <2>2. refs \in SUBSET Threads
    BY DEF Init
  <2>3. /\ stat \in {"none", "normal", "closewait", "unloaded"}
        /\ sockfd \in {"none", "open", "closed"}
        /\ conn \in PacketStates /\ recv \in PacketStates
        /\ connected \in BOOLEAN /\ async \in BOOLEAN
    BY DEF Init, PacketStates
  <2>4. pc \in [Threads -> {"idle", "connecting", "connectex", "recv", "event",
                          "repost", "fail", "close", "ioclose", "exit"}]
    BY DEF Init
  <2> QED
    BY <2>1, <2>2, <2>3, <2>4 DEF TypeOK
<1>2. \A e : ~Told(e)
  BY DEF Init, Told
<1>3. NothingAfterClosed /\ EventOrder
  BY DEF Init, NothingAfterClosed, EventOrder
<1>4. References /\ Lifetime /\ Connecting /\ Telling /\ Reading
  BY <1>2 DEF Init, References, Lifetime, Connecting, Telling, Reading, Threads
<1> QED
  BY <1>1, <1>3, <1>4 DEF LinkInv

\* The link is created.
LEMMA Tcp_createInv ==
  ASSUME LinkInv, tcp_create
  PROVE  LinkInv'
<1>a. UnloadOrNot
  BY DEF LinkInv, TypeOK, References, Lifetime, Threads, UnloadOrNot,
     tcp_create, pkts
<1>b. /\ events' \in Seq(Names)
      /\ \A x \in {"connected", "data"} : Told(x)' <=> Told(x)
      /\ Told("closed")' => Told("closed") \/ stat' = "unloaded"
      /\ NothingAfterClosed' /\ EventOrder'
  BY <1>a, UnloadStep DEF LinkInv, Connecting, Telling, tcp_create, pkts
<1>1. TypeOK'
  BY <1>b DEF LinkInv, TypeOK, Threads, PacketStates, References, Names,
     tcp_create, pkts
<1>2. References'
  BY <1>b DEF LinkInv, TypeOK, References, Threads, Names, tcp_create, pkts
<1>3. Lifetime'
  BY <1>b DEF LinkInv, TypeOK, Lifetime, References, Threads, Names,
     tcp_create, pkts
<1>4. Connecting'
  BY <1>b DEF LinkInv, TypeOK, Connecting, References, Lifetime, Threads,
     Telling, Names, tcp_create, pkts
<1>5. Telling'
  BY <1>b DEF LinkInv, TypeOK, Telling, Connecting, References, Threads,
     Names, tcp_create, pkts
<1>6. Reading'
  BY <1>b DEF LinkInv, TypeOK, Reading, Connecting, Telling, References,
     Threads, Names, tcp_create, pkts, Lifetime
<1> QED
  BY <1>b, <1>1, <1>2, <1>3, <1>4, <1>5, <1>6 DEF LinkInv

\* The link is created in vain.
LEMMA CreateFailedInv ==
  ASSUME LinkInv, CreateFailed
  PROVE  LinkInv'
<1>a. UnloadOrNot
  BY DEF LinkInv, TypeOK, References, Lifetime, Threads, UnloadOrNot,
     CreateFailed, tcp_unload, pkts
<1>b. /\ events' \in Seq(Names)
      /\ \A x \in {"connected", "data"} : Told(x)' <=> Told(x)
      /\ Told("closed")' => Told("closed") \/ stat' = "unloaded"
      /\ NothingAfterClosed' /\ EventOrder'
  BY <1>a, UnloadStep DEF LinkInv, Connecting, Telling, CreateFailed,
     tcp_unload, pkts
<1>1. TypeOK'
  BY <1>b DEF LinkInv, TypeOK, Threads, PacketStates, References, Names,
     CreateFailed, tcp_unload, pkts
<1>2. References'
  BY <1>b DEF LinkInv, TypeOK, References, Threads, Names, CreateFailed,
     tcp_unload, pkts
<1>3. Lifetime'
  BY <1>b DEF LinkInv, TypeOK, Lifetime, References, Threads, Names,
     CreateFailed, tcp_unload, pkts
<1>4. Connecting'
  BY <1>b DEF LinkInv, TypeOK, Connecting, References, Lifetime, Threads,
     Telling, Names, CreateFailed, tcp_unload, pkts
<1>5. Telling'
  BY <1>b DEF LinkInv, TypeOK, Telling, Connecting, References, Threads,
     Names, CreateFailed, tcp_unload, pkts
<1>6. Reading'
  BY <1>b DEF LinkInv, TypeOK, Reading, Connecting, Telling, References,
     Threads, Names, CreateFailed, tcp_unload, pkts
<1> QED
  BY <1>b, <1>1, <1>2, <1>3, <1>4, <1>5, <1>6 DEF LinkInv

\* tcp_connect takes its reference.
LEMMA Tcp_connectInv ==
  ASSUME LinkInv, tcp_connect
  PROVE  LinkInv'
<1>a. UnloadOrNot
  BY DEF LinkInv, TypeOK, References, Lifetime, Threads, UnloadOrNot,
     tcp_connect, tcprefr, pkts, Goto
<1>b. /\ events' \in Seq(Names)
      /\ \A x \in {"connected", "data"} : Told(x)' <=> Told(x)
      /\ Told("closed")' => Told("closed") \/ stat' = "unloaded"
      /\ NothingAfterClosed' /\ EventOrder'
  BY <1>a, UnloadStep DEF LinkInv, Connecting, Telling, tcp_connect, tcprefr,
     pkts, Goto
<1>1. TypeOK'
  BY <1>b DEF LinkInv, TypeOK, Threads, PacketStates, References, Names,
     tcp_connect, tcprefr, pkts, Goto
<1>2. References'
  BY <1>b DEF LinkInv, TypeOK, References, Threads, Names, tcp_connect,
     tcprefr, pkts, Goto
<1>3. Lifetime'
  BY <1>b DEF LinkInv, TypeOK, Lifetime, References, Threads, Names,
     tcp_connect, tcprefr, pkts, Goto
<1>4. Connecting'
  BY <1>b DEF LinkInv, TypeOK, Connecting, References, Lifetime, Threads,
     Telling, Names, tcp_connect, tcprefr, pkts, Goto
<1>5. Telling'
  BY <1>b DEF LinkInv, TypeOK, Telling, Connecting, References, Threads,
     Names, tcp_connect, tcprefr, pkts, Goto
<1>6. Reading'
  BY <1>b DEF LinkInv, TypeOK, Reading, Connecting, Telling, References,
     Threads, Names, tcp_connect, tcprefr, pkts, Goto
<1> QED
  BY <1>b, <1>1, <1>2, <1>3, <1>4, <1>5, <1>6 DEF LinkInv

\* The blocking connect succeeds.
LEMMA ConnectSucceedsInv ==
  ASSUME LinkInv, ConnectSucceeds
  PROVE  LinkInv'
<1>a. UnloadOrNot
  BY DEF LinkInv, TypeOK, References, Lifetime, Threads, UnloadOrNot,
     ConnectSucceeds, pkts, Goto
<1>b. /\ events' \in Seq(Names)
      /\ \A x \in {"connected", "data"} : Told(x)' <=> Told(x)
      /\ Told("closed")' => Told("closed") \/ stat' = "unloaded"
      /\ NothingAfterClosed' /\ EventOrder'
  BY <1>a, UnloadStep DEF LinkInv, Connecting, Telling, ConnectSucceeds, pkts,
     Goto
<1>1. TypeOK'
  BY <1>b DEF LinkInv, TypeOK, Threads, PacketStates, References, Names,
     ConnectSucceeds, pkts, Goto
<1>2. References'
  BY <1>b DEF LinkInv, TypeOK, References, Threads, Names, ConnectSucceeds,
     pkts, Goto
<1>3. Lifetime'
  BY <1>b DEF LinkInv, TypeOK, Lifetime, References, Threads, Names,
     ConnectSucceeds, pkts, Goto
<1>4. Connecting'
  BY <1>b DEF LinkInv, TypeOK, Connecting, References, Lifetime, Threads,
     Telling, Names, ConnectSucceeds, pkts, Goto
<1>5. Telling'
  BY <1>b DEF LinkInv, TypeOK, Telling, Connecting, References, Threads,
     Names, ConnectSucceeds, pkts, Goto
<1>6. Reading'
  BY <1>b DEF LinkInv, TypeOK, Reading, Connecting, Telling, References,
     Threads, Names, ConnectSucceeds, pkts, Goto
<1> QED
  BY <1>b, <1>1, <1>2, <1>3, <1>4, <1>5, <1>6 DEF LinkInv

\* It fails.
LEMMA ConnectFailsInv ==
  ASSUME LinkInv, ConnectFails
  PROVE  LinkInv'
<1>a. UnloadOrNot
  BY DEF LinkInv, TypeOK, References, Lifetime, Threads, UnloadOrNot,
     ConnectFails, pkts, Goto
<1>b. /\ events' \in Seq(Names)
      /\ \A x \in {"connected", "data"} : Told(x)' <=> Told(x)
      /\ Told("closed")' => Told("closed") \/ stat' = "unloaded"
      /\ NothingAfterClosed' /\ EventOrder'
  BY <1>a, UnloadStep DEF LinkInv, Connecting, Telling, ConnectFails, pkts,
     Goto
<1>1. TypeOK'
  BY <1>b DEF LinkInv, TypeOK, Threads, PacketStates, References, Names,
     ConnectFails, pkts, Goto
<1>2. References'
  BY <1>b DEF LinkInv, TypeOK, References, Threads, Names, ConnectFails, pkts,
     Goto
<1>3. Lifetime'
  BY <1>b DEF LinkInv, TypeOK, Lifetime, References, Threads, Names,
     ConnectFails, pkts, Goto
<1>4. Connecting'
  BY <1>b DEF LinkInv, TypeOK, Connecting, References, Lifetime, Threads,
     Telling, Names, ConnectFails, pkts, Goto
<1>5. Telling'
  BY <1>b DEF LinkInv, TypeOK, Telling, Connecting, References, Threads,
     Names, ConnectFails, pkts, Goto
<1>6. Reading'
  BY <1>b DEF LinkInv, TypeOK, Reading, Connecting, Telling, References,
     Threads, Names, ConnectFails, pkts, Goto
<1> QED
  BY <1>b, <1>1, <1>2, <1>3, <1>4, <1>5, <1>6 DEF LinkInv

\* It succeeds in vain.
LEMMA ConnectNoMemoryInv ==
  ASSUME LinkInv, ConnectNoMemory
  PROVE  LinkInv'
<1>a. UnloadOrNot
  BY DEF LinkInv, TypeOK, References, Lifetime, Threads, UnloadOrNot,
     ConnectNoMemory, pkts, Goto
<1>b. /\ events' \in Seq(Names)
      /\ \A x \in {"connected", "data"} : Told(x)' <=> Told(x)
      /\ Told("closed")' => Told("closed") \/ stat' = "unloaded"
      /\ NothingAfterClosed' /\ EventOrder'
  BY <1>a, UnloadStep DEF LinkInv, Connecting, Telling, ConnectNoMemory, pkts,
     Goto
<1>1. TypeOK'
  BY <1>b DEF LinkInv, TypeOK, Threads, PacketStates, References, Names,
     ConnectNoMemory, pkts, Goto
<1>2. References'
  BY <1>b DEF LinkInv, TypeOK, References, Threads, Names, ConnectNoMemory,
     pkts, Goto
<1>3. Lifetime'
  BY <1>b DEF LinkInv, TypeOK, Lifetime, References, Threads, Names,
     ConnectNoMemory, pkts, Goto
<1>4. Connecting'
  BY <1>b DEF LinkInv, TypeOK, Connecting, References, Lifetime, Threads,
     Telling, Names, ConnectNoMemory, pkts, Goto
<1>5. Telling'
  BY <1>b DEF LinkInv, TypeOK, Telling, Connecting, References, Threads,
     Names, ConnectNoMemory, pkts, Goto
<1>6. Reading'
  BY <1>b DEF LinkInv, TypeOK, Reading, Connecting, Telling, References,
     Threads, Names, ConnectNoMemory, pkts, Goto
<1> QED
  BY <1>b, <1>1, <1>2, <1>3, <1>4, <1>5, <1>6 DEF LinkInv

\* It is interrupted.
LEMMA ConnectInterruptedInv ==
  ASSUME LinkInv, ConnectInterrupted
  PROVE  LinkInv'
<1>a. UnloadOrNot
  BY DEF LinkInv, TypeOK, References, Lifetime, Threads, UnloadOrNot,
     ConnectInterrupted, pkts, Goto
<1>b. /\ events' \in Seq(Names)
      /\ \A x \in {"connected", "data"} : Told(x)' <=> Told(x)
      /\ Told("closed")' => Told("closed") \/ stat' = "unloaded"
      /\ NothingAfterClosed' /\ EventOrder'
  BY <1>a, UnloadStep DEF LinkInv, Connecting, Telling, ConnectInterrupted,
     pkts, Goto
<1>1. TypeOK'
  BY <1>b DEF LinkInv, TypeOK, Threads, PacketStates, References, Names,
     ConnectInterrupted, pkts, Goto
<1>2. References'
  BY <1>b DEF LinkInv, TypeOK, References, Threads, Names, ConnectInterrupted,
     pkts, Goto
<1>3. Lifetime'
  BY <1>b DEF LinkInv, TypeOK, Lifetime, References, Threads, Names,
     ConnectInterrupted, pkts, Goto
<1>4. Connecting'
  BY <1>b DEF LinkInv, TypeOK, Connecting, References, Lifetime, Threads,
     Telling, Names, ConnectInterrupted, pkts, Goto
<1>5. Telling'
  BY <1>b DEF LinkInv, TypeOK, Telling, Connecting, References, Threads,
     Names, ConnectInterrupted, pkts, Goto
<1>6. Reading'
  BY <1>b DEF LinkInv, TypeOK, Reading, Connecting, Telling, References,
     Threads, Names, ConnectInterrupted, pkts, Goto
<1> QED
  BY <1>b, <1>1, <1>2, <1>3, <1>4, <1>5, <1>6 DEF LinkInv

\* The first receive request of tcp_connect.
LEMMA ConnectRecvInv ==
  ASSUME LinkInv, ConnectRecv
  PROVE  LinkInv'
<1>a. UnloadOrNot
  BY DEF LinkInv, TypeOK, References, Lifetime, Threads, UnloadOrNot,
     ConnectRecv, pkts, Goto
<1>b. /\ events' \in Seq(Names)
      /\ \A x \in {"connected", "data"} : Told(x)' <=> Told(x)
      /\ Told("closed")' => Told("closed") \/ stat' = "unloaded"
      /\ NothingAfterClosed' /\ EventOrder'
  BY <1>a, UnloadStep DEF LinkInv, Connecting, Telling, ConnectRecv, pkts,
     Goto
<1>1. TypeOK'
  BY <1>b DEF LinkInv, TypeOK, Threads, PacketStates, References, Names,
     ConnectRecv, pkts, Goto
<1>2. References'
  BY <1>b DEF LinkInv, TypeOK, References, Threads, Names, ConnectRecv, pkts,
     Goto
<1>3. Lifetime'
  BY <1>b DEF LinkInv, TypeOK, Lifetime, References, Threads, Names,
     ConnectRecv, pkts, Goto
<1>4. Connecting'
  BY <1>b DEF LinkInv, TypeOK, Connecting, References, Lifetime, Threads,
     Telling, Names, ConnectRecv, pkts, Goto
<1>5. Telling'
  BY <1>b DEF LinkInv, TypeOK, Telling, Connecting, References, Threads,
     Names, ConnectRecv, pkts, Goto
<1>6. Reading'
  BY <1>b DEF LinkInv, TypeOK, Reading, Connecting, Telling, References,
     Threads, Names, ConnectRecv, pkts, Goto
<1> QED
  BY <1>b, <1>1, <1>2, <1>3, <1>4, <1>5, <1>6 DEF LinkInv

\* tcp_connect tells of the connection.
LEMMA ConnectEventInv ==
  ASSUME LinkInv, ConnectEvent
  PROVE  LinkInv'
<1>a. "connected" \in Names \ {"closed"} /\ stat # "unloaded" /\ Raise("connected")
  BY DEF LinkInv, References, Lifetime, Threads, Names, ConnectEvent, pkts,
     Goto
<1>b. /\ events' \in Seq(Names)
      /\ \A x \in Names : Told(x)' <=> (Told(x) \/ x = "connected")
  BY <1>a, RaiseTells DEF LinkInv
<1>c. NothingAfterClosed'
  BY <1>a, RaiseStep
<1>d. EventOrder'
  BY <1>a, RaiseConnected DEF LinkInv, Connecting, Telling, ConnectEvent,
     pkts, Goto
<1>1. TypeOK'
  BY <1>b DEF LinkInv, TypeOK, Threads, PacketStates, References, Names,
     ConnectEvent, pkts, Goto
<1>2. References'
  BY <1>b DEF LinkInv, TypeOK, References, Threads, Names, ConnectEvent, pkts,
     Goto
<1>3. Lifetime'
  BY <1>b DEF LinkInv, TypeOK, Lifetime, References, Threads, Names,
     ConnectEvent, pkts, Goto
<1>4. Connecting'
  BY <1>b DEF LinkInv, TypeOK, Connecting, References, Lifetime, Threads,
     Telling, Names, ConnectEvent, pkts, Goto
<1>5. Telling'
  BY <1>b DEF LinkInv, TypeOK, Telling, Connecting, References, Threads,
     Names, ConnectEvent, pkts, Goto
<1>6. Reading'
  BY <1>b DEF LinkInv, TypeOK, Reading, Connecting, Telling, References,
     Threads, Names, ConnectEvent, pkts, Goto
<1> QED
  BY <1>c, <1>d, <1>1, <1>2, <1>3, <1>4, <1>5, <1>6 DEF LinkInv

\* tcp_connect2 takes its reference.
LEMMA Tcp_connect2Inv ==
  ASSUME LinkInv, tcp_connect2
  PROVE  LinkInv'
<1>a. UnloadOrNot
  BY DEF LinkInv, TypeOK, References, Lifetime, Threads, UnloadOrNot,
     tcp_connect2, tcprefr, pkts, Goto
<1>b. /\ events' \in Seq(Names)
      /\ \A x \in {"connected", "data"} : Told(x)' <=> Told(x)
      /\ Told("closed")' => Told("closed") \/ stat' = "unloaded"
      /\ NothingAfterClosed' /\ EventOrder'
  BY <1>a, UnloadStep DEF LinkInv, Connecting, Telling, tcp_connect2, tcprefr,
     pkts, Goto
<1>1. TypeOK'
  BY <1>b DEF LinkInv, TypeOK, Threads, PacketStates, References, Names,
     tcp_connect2, tcprefr, pkts, Goto
<1>2. References'
  BY <1>b DEF LinkInv, TypeOK, References, Threads, Names, tcp_connect2,
     tcprefr, pkts, Goto
<1>3. Lifetime'
  BY <1>b DEF LinkInv, TypeOK, Lifetime, References, Threads, Names,
     tcp_connect2, tcprefr, pkts, Goto
<1>4. Connecting'
  BY <1>b DEF LinkInv, TypeOK, Connecting, References, Lifetime, Threads,
     Telling, Names, tcp_connect2, tcprefr, pkts, Goto
<1>5. Telling'
  BY <1>b DEF LinkInv, TypeOK, Telling, Connecting, References, Threads,
     Names, tcp_connect2, tcprefr, pkts, Goto
<1>6. Reading'
  BY <1>b DEF LinkInv, TypeOK, Reading, Connecting, Telling, References,
     Threads, Names, tcp_connect2, tcprefr, pkts, Goto
<1> QED
  BY <1>b, <1>1, <1>2, <1>3, <1>4, <1>5, <1>6 DEF LinkInv

\* ConnectEx refuses a connected socket, so nothing was told yet.
LEMMA ConnectExInv ==
  ASSUME LinkInv, ConnectEx
  PROVE  LinkInv'
<1>a. UnloadOrNot
  BY DEF LinkInv, TypeOK, References, Lifetime, Threads, UnloadOrNot,
     ConnectEx, pkts, Goto
<1>b. /\ events' \in Seq(Names)
      /\ \A x \in {"connected", "data"} : Told(x)' <=> Told(x)
      /\ Told("closed")' => Told("closed") \/ stat' = "unloaded"
      /\ NothingAfterClosed' /\ EventOrder'
  BY <1>a, UnloadStep DEF LinkInv, Connecting, Telling, ConnectEx, pkts, Goto
<1>1. TypeOK'
  BY <1>b DEF LinkInv, TypeOK, Threads, PacketStates, References, Names,
     ConnectEx, pkts, Goto
<1>2. References'
  BY <1>b DEF LinkInv, TypeOK, References, Threads, Names, ConnectEx, pkts,
     Goto
<1>3. Lifetime'
  BY <1>b DEF LinkInv, TypeOK, Lifetime, References, Threads, Names,
     ConnectEx, pkts, Goto
<1>4. Connecting'
  BY <1>b DEF LinkInv, TypeOK, Connecting, References, Lifetime, Threads,
     Telling, Names, ConnectEx, pkts, Goto
<1>5. Telling'
  BY <1>b DEF LinkInv, TypeOK, Telling, Connecting, References, Threads,
     Names, ConnectEx, pkts, Goto
<1>6. Reading'
  BY <1>b DEF LinkInv, TypeOK, Reading, Connecting, Telling, References,
     Threads, Names, ConnectEx, pkts, Goto
<1> QED
  BY <1>b, <1>1, <1>2, <1>3, <1>4, <1>5, <1>6 DEF LinkInv

\* A call ends and may unload the link.
LEMMA ReturnInv ==
  ASSUME LinkInv, NEW t \in Threads, Return(t)
  PROVE  LinkInv'
<1>a. UnloadOrNot
  BY DEF LinkInv, TypeOK, References, Lifetime, Threads, UnloadOrNot, Return,
     objdefr, tcp_unload, pkts, Goto
<1>b. /\ events' \in Seq(Names)
      /\ \A x \in {"connected", "data"} : Told(x)' <=> Told(x)
      /\ Told("closed")' => Told("closed") \/ stat' = "unloaded"
      /\ NothingAfterClosed' /\ EventOrder'
  BY <1>a, UnloadStep DEF LinkInv, Connecting, Telling, Return, objdefr,
     tcp_unload, pkts, Goto
<1>1. TypeOK'
  BY <1>b DEF LinkInv, TypeOK, Threads, PacketStates, References, Names,
     Return, objdefr, tcp_unload, pkts, Goto
<1>2. References'
  BY <1>b DEF LinkInv, TypeOK, References, Threads, Names, Return, objdefr,
     tcp_unload, pkts, Goto
<1>3. Lifetime'
  BY <1>b DEF LinkInv, TypeOK, Lifetime, References, Threads, Names, Return,
     objdefr, tcp_unload, pkts, Goto
<1>4. Connecting'
  BY <1>b DEF LinkInv, TypeOK, Connecting, References, Lifetime, Threads,
     Telling, Names, Return, objdefr, tcp_unload, pkts, Goto
<1>5. Telling'
  BY <1>b DEF LinkInv, TypeOK, Telling, Connecting, References, Threads,
     Names, Return, objdefr, tcp_unload, pkts, Goto
<1>6. Reading'
  BY <1>b DEF LinkInv, TypeOK, Reading, Connecting, Telling, References,
     Threads, Names, Return, objdefr, tcp_unload, pkts, Goto
<1> QED
  BY <1>b, <1>1, <1>2, <1>3, <1>4, <1>5, <1>6 DEF LinkInv

\* The completion of ConnectEx.
LEMMA ConnectedOkInv ==
  ASSUME LinkInv, ConnectedOk
  PROVE  LinkInv'
<1>a. UnloadOrNot
  BY DEF LinkInv, TypeOK, References, Lifetime, Threads, UnloadOrNot,
     ConnectedOk, tcprefr, pkts, Goto
<1>b. /\ events' \in Seq(Names)
      /\ \A x \in {"connected", "data"} : Told(x)' <=> Told(x)
      /\ Told("closed")' => Told("closed") \/ stat' = "unloaded"
      /\ NothingAfterClosed' /\ EventOrder'
  BY <1>a, UnloadStep DEF LinkInv, Connecting, Telling, ConnectedOk, tcprefr,
     pkts, Goto
<1>1. TypeOK'
  BY <1>b DEF LinkInv, TypeOK, Threads, PacketStates, References, Names,
     ConnectedOk, tcprefr, pkts, Goto
<1>2. References'
  BY <1>b DEF LinkInv, TypeOK, References, Threads, Names, ConnectedOk,
     tcprefr, pkts, Goto
<1>3. Lifetime'
  BY <1>b DEF LinkInv, TypeOK, Lifetime, References, Threads, Names,
     ConnectedOk, tcprefr, pkts, Goto
<1>4. Connecting'
  BY <1>b DEF LinkInv, TypeOK, Connecting, References, Lifetime, Threads,
     Telling, Names, ConnectedOk, tcprefr, pkts, Goto
<1>5. Telling'
  BY <1>b DEF LinkInv, TypeOK, Telling, Connecting, References, Threads,
     Names, ConnectedOk, tcprefr, pkts, Goto
<1>6. Reading'
  BY <1>b DEF LinkInv, TypeOK, Reading, Connecting, Telling, References,
     Threads, Names, ConnectedOk, tcprefr, pkts, Goto
<1> QED
  BY <1>b, <1>1, <1>2, <1>3, <1>4, <1>5, <1>6 DEF LinkInv

\* The first receive request of tcp_connect2.
LEMMA ConnectedRecvInv ==
  ASSUME LinkInv, ConnectedRecv
  PROVE  LinkInv'
<1>a. UnloadOrNot
  BY DEF LinkInv, TypeOK, References, Lifetime, Threads, UnloadOrNot,
     ConnectedRecv, objclos, tcp_unload, pkts, Goto
<1>b. /\ events' \in Seq(Names)
      /\ \A x \in {"connected", "data"} : Told(x)' <=> Told(x)
      /\ Told("closed")' => Told("closed") \/ stat' = "unloaded"
      /\ NothingAfterClosed' /\ EventOrder'
  BY <1>a, UnloadStep DEF LinkInv, Connecting, Telling, ConnectedRecv,
     objclos, tcp_unload, pkts, Goto
<1>1. TypeOK'
  BY <1>b DEF LinkInv, TypeOK, Threads, PacketStates, References, Names,
     ConnectedRecv, objclos, tcp_unload, pkts, Goto
<1>2. References'
  BY <1>b DEF LinkInv, TypeOK, References, Threads, Names, ConnectedRecv,
     objclos, tcp_unload, pkts, Goto
<1>3. Lifetime'
  BY <1>b DEF LinkInv, TypeOK, Lifetime, References, Threads, Names,
     ConnectedRecv, objclos, tcp_unload, pkts, Goto
<1>4. Connecting'
  BY <1>b DEF LinkInv, TypeOK, Connecting, References, Lifetime, Threads,
     Telling, Names, ConnectedRecv, objclos, tcp_unload, pkts, Goto
<1>5. Telling'
  BY <1>b DEF LinkInv, TypeOK, Telling, Connecting, References, Threads,
     Names, ConnectedRecv, objclos, tcp_unload, pkts, Goto
<1>6. Reading'
  BY <1>b DEF LinkInv, TypeOK, Reading, Connecting, Telling, References,
     Threads, Names, ConnectedRecv, objclos, tcp_unload, pkts, Goto
<1> QED
  BY <1>b, <1>1, <1>2, <1>3, <1>4, <1>5, <1>6 DEF LinkInv

\* tcp_connect2 tells of the connection.
LEMMA ConnectedEventInv ==
  ASSUME LinkInv, ConnectedEvent
  PROVE  LinkInv'
<1>a. "connected" \in Names \ {"closed"} /\ stat # "unloaded" /\ Raise("connected")
  BY DEF LinkInv, References, Lifetime, Threads, Names, ConnectedEvent, pkts,
     Goto
<1>b. /\ events' \in Seq(Names)
      /\ \A x \in Names : Told(x)' <=> (Told(x) \/ x = "connected")
  BY <1>a, RaiseTells DEF LinkInv
<1>c. NothingAfterClosed'
  BY <1>a, RaiseStep
<1>d. EventOrder'
  BY <1>a, RaiseConnected DEF LinkInv, Connecting, Telling, ConnectedEvent,
     pkts, Goto
<1>1. TypeOK'
  BY <1>b DEF LinkInv, TypeOK, Threads, PacketStates, References, Names,
     ConnectedEvent, pkts, Goto
<1>2. References'
  BY <1>b DEF LinkInv, TypeOK, References, Threads, Names, ConnectedEvent,
     pkts, Goto
<1>3. Lifetime'
  BY <1>b DEF LinkInv, TypeOK, Lifetime, References, Threads, Names,
     ConnectedEvent, pkts, Goto
<1>4. Connecting'
  BY <1>b DEF LinkInv, TypeOK, Connecting, References, Lifetime, Threads,
     Telling, Names, ConnectedEvent, pkts, Goto
<1>5. Telling'
  BY <1>b DEF LinkInv, TypeOK, Telling, Connecting, References, Threads,
     Names, ConnectedEvent, pkts, Goto
<1>6. Reading'
  BY <1>b DEF LinkInv, TypeOK, Reading, Connecting, Telling, References,
     Threads, Names, ConnectedEvent, pkts, Goto
<1> QED
  BY <1>c, <1>d, <1>1, <1>2, <1>3, <1>4, <1>5, <1>6 DEF LinkInv

\* The completion gives its reference back ...
LEMMA ConnectedFailInv ==
  ASSUME LinkInv, ConnectedFail
  PROVE  LinkInv'
<1>a. UnloadOrNot
  BY DEF LinkInv, TypeOK, References, Lifetime, Threads, UnloadOrNot,
     ConnectedFail, objdefr, tcp_unload, pkts, Goto
<1>b. /\ events' \in Seq(Names)
      /\ \A x \in {"connected", "data"} : Told(x)' <=> Told(x)
      /\ Told("closed")' => Told("closed") \/ stat' = "unloaded"
      /\ NothingAfterClosed' /\ EventOrder'
  BY <1>a, UnloadStep DEF LinkInv, Connecting, Telling, ConnectedFail,
     objdefr, tcp_unload, pkts, Goto
<1>1. TypeOK'
  BY <1>b DEF LinkInv, TypeOK, Threads, PacketStates, References, Names,
     ConnectedFail, objdefr, tcp_unload, pkts, Goto
<1>2. References'
  BY <1>b DEF LinkInv, TypeOK, References, Threads, Names, ConnectedFail,
     objdefr, tcp_unload, pkts, Goto
<1>3. Lifetime'
  BY <1>b DEF LinkInv, TypeOK, Lifetime, References, Threads, Names,
     ConnectedFail, objdefr, tcp_unload, pkts, Goto
<1>4. Connecting'
  BY <1>b DEF LinkInv, TypeOK, Connecting, References, Lifetime, Threads,
     Telling, Names, ConnectedFail, objdefr, tcp_unload, pkts, Goto
<1>5. Telling'
  BY <1>b DEF LinkInv, TypeOK, Telling, Connecting, References, Threads,
     Names, ConnectedFail, objdefr, tcp_unload, pkts, Goto
<1>6. Reading'
  BY <1>b DEF LinkInv, TypeOK, Reading, Connecting, Telling, References,
     Threads, Names, ConnectedFail, objdefr, tcp_unload, pkts, Goto
<1> QED
  BY <1>b, <1>1, <1>2, <1>3, <1>4, <1>5, <1>6 DEF LinkInv

\* ... and closes the link.
LEMMA ConnectedCloseInv ==
  ASSUME LinkInv, ConnectedClose
  PROVE  LinkInv'
<1>a. UnloadOrNot
  BY DEF LinkInv, TypeOK, References, Lifetime, Threads, UnloadOrNot,
     ConnectedClose, objclos, tcp_unload, pkts, Goto
<1>b. /\ events' \in Seq(Names)
      /\ \A x \in {"connected", "data"} : Told(x)' <=> Told(x)
      /\ Told("closed")' => Told("closed") \/ stat' = "unloaded"
      /\ NothingAfterClosed' /\ EventOrder'
  BY <1>a, UnloadStep DEF LinkInv, Connecting, Telling, ConnectedClose,
     objclos, tcp_unload, pkts, Goto
<1>1. TypeOK'
  BY <1>b DEF LinkInv, TypeOK, Threads, PacketStates, References, Names,
     ConnectedClose, objclos, tcp_unload, pkts, Goto
<1>2. References'
  BY <1>b DEF LinkInv, TypeOK, References, Threads, Names, ConnectedClose,
     objclos, tcp_unload, pkts, Goto
<1>3. Lifetime'
  BY <1>b DEF LinkInv, TypeOK, Lifetime, References, Threads, Names,
     ConnectedClose, objclos, tcp_unload, pkts, Goto
<1>4. Connecting'
  BY <1>b DEF LinkInv, TypeOK, Connecting, References, Lifetime, Threads,
     Telling, Names, ConnectedClose, objclos, tcp_unload, pkts, Goto
<1>5. Telling'
  BY <1>b DEF LinkInv, TypeOK, Telling, Connecting, References, Threads,
     Names, ConnectedClose, objclos, tcp_unload, pkts, Goto
<1>6. Reading'
  BY <1>b DEF LinkInv, TypeOK, Reading, Connecting, Telling, References,
     Threads, Names, ConnectedClose, objclos, tcp_unload, pkts, Goto
<1> QED
  BY <1>b, <1>1, <1>2, <1>3, <1>4, <1>5, <1>6 DEF LinkInv

\* A refused connection closes the link.
LEMMA ConnectExFailedInv ==
  ASSUME LinkInv, ConnectExFailed
  PROVE  LinkInv'
<1>a. UnloadOrNot
  BY DEF LinkInv, TypeOK, References, Lifetime, Threads, UnloadOrNot,
     ConnectExFailed, objclos, tcp_unload, pkts
<1>b. /\ events' \in Seq(Names)
      /\ \A x \in {"connected", "data"} : Told(x)' <=> Told(x)
      /\ Told("closed")' => Told("closed") \/ stat' = "unloaded"
      /\ NothingAfterClosed' /\ EventOrder'
  BY <1>a, UnloadStep DEF LinkInv, Connecting, Telling, ConnectExFailed,
     objclos, tcp_unload, pkts
<1>1. TypeOK'
  BY <1>b DEF LinkInv, TypeOK, Threads, PacketStates, References, Names,
     ConnectExFailed, objclos, tcp_unload, pkts
<1>2. References'
  BY <1>b DEF LinkInv, TypeOK, References, Threads, Names, ConnectExFailed,
     objclos, tcp_unload, pkts
<1>3. Lifetime'
  BY <1>b DEF LinkInv, TypeOK, Lifetime, References, Threads, Names,
     ConnectExFailed, objclos, tcp_unload, pkts
<1>4. Connecting'
  BY <1>b DEF LinkInv, TypeOK, Connecting, References, Lifetime, Threads,
     Telling, Names, ConnectExFailed, objclos, tcp_unload, pkts
<1>5. Telling'
  BY <1>b DEF LinkInv, TypeOK, Telling, Connecting, References, Threads,
     Names, ConnectExFailed, objclos, tcp_unload, pkts
<1>6. Reading'
  BY <1>b DEF LinkInv, TypeOK, Reading, Connecting, Telling, References,
     Threads, Names, ConnectExFailed, objclos, tcp_unload, pkts
<1> QED
  BY <1>b, <1>1, <1>2, <1>3, <1>4, <1>5, <1>6 DEF LinkInv

\* Data arrive.
LEMMA DataEventInv ==
  ASSUME LinkInv, DataEvent
  PROVE  LinkInv'
<1>a. "data" \in Names \ {"closed"} /\ stat # "unloaded" /\ Raise("data")
  BY DEF LinkInv, References, Lifetime, Threads, Names, DataEvent, tcprefr,
     pkts, Goto
<1>b. /\ events' \in Seq(Names)
      /\ \A x \in Names : Told(x)' <=> (Told(x) \/ x = "data")
  BY <1>a, RaiseTells DEF LinkInv
<1>c. NothingAfterClosed'
  BY <1>a, RaiseStep
<1>d. EventOrder'
  BY <1>a, RaiseData DEF LinkInv, Connecting, Telling, DataEvent, tcprefr,
     pkts, Goto
<1>1. TypeOK'
  BY <1>b DEF LinkInv, TypeOK, Threads, PacketStates, References, Names,
     DataEvent, tcprefr, pkts, Goto
<1>2. References'
  BY <1>b DEF LinkInv, TypeOK, References, Threads, Names, DataEvent, tcprefr,
     pkts, Goto
<1>3. Lifetime'
  BY <1>b DEF LinkInv, TypeOK, Lifetime, References, Threads, Names,
     DataEvent, tcprefr, pkts, Goto
<1>4. Connecting'
  BY <1>b DEF LinkInv, TypeOK, Connecting, References, Lifetime, Threads,
     Telling, Names, DataEvent, tcprefr, pkts, Goto
<1>5. Telling'
  BY <1>b DEF LinkInv, TypeOK, Telling, Connecting, References, Threads,
     Names, DataEvent, tcprefr, pkts, Goto
<1>6. Reading'
  BY <1>b DEF LinkInv, TypeOK, Reading, Connecting, Telling, References,
     Threads, Names, DataEvent, tcprefr, pkts, Goto
<1> QED
  BY <1>c, <1>d, <1>1, <1>2, <1>3, <1>4, <1>5, <1>6 DEF LinkInv

\* The receive request is posted again or the link closed.
LEMMA DataReturnInv ==
  ASSUME LinkInv, DataReturn
  PROVE  LinkInv'
<1>a. UnloadOrNot
  BY DEF LinkInv, TypeOK, References, Lifetime, Threads, UnloadOrNot,
     DataReturn, objdefr, tcp_unload, pkts, Goto
<1>b. /\ events' \in Seq(Names)
      /\ \A x \in {"connected", "data"} : Told(x)' <=> Told(x)
      /\ Told("closed")' => Told("closed") \/ stat' = "unloaded"
      /\ NothingAfterClosed' /\ EventOrder'
  BY <1>a, UnloadStep DEF LinkInv, Connecting, Telling, DataReturn, objdefr,
     tcp_unload, pkts, Goto
<1>1. TypeOK'
  BY <1>b DEF LinkInv, TypeOK, Threads, PacketStates, References, Names,
     DataReturn, objdefr, tcp_unload, pkts, Goto
<1>2. References'
  BY <1>b DEF LinkInv, TypeOK, References, Threads, Names, DataReturn,
     objdefr, tcp_unload, pkts, Goto
<1>3. Lifetime'
  BY <1>b DEF LinkInv, TypeOK, Lifetime, References, Threads, Names,
     DataReturn, objdefr, tcp_unload, pkts, Goto
<1>4. Connecting'
  BY <1>b DEF LinkInv, TypeOK, Connecting, References, Lifetime, Threads,
     Telling, Names, DataReturn, objdefr, tcp_unload, pkts, Goto
<1>5. Telling'
  BY <1>b DEF LinkInv, TypeOK, Telling, Connecting, References, Threads,
     Names, DataReturn, objdefr, tcp_unload, pkts, Goto
<1>6. Reading'
  BY <1>b DEF LinkInv, TypeOK, Reading, Connecting, Telling, References,
     Threads, Names, DataReturn, objdefr, tcp_unload, pkts, Goto
<1> QED
  BY <1>b, <1>1, <1>2, <1>3, <1>4, <1>5, <1>6 DEF LinkInv

\* A failed receive request closes the link.
LEMMA RecvFailedInv ==
  ASSUME LinkInv, RecvFailed
  PROVE  LinkInv'
<1>a. UnloadOrNot
  BY DEF LinkInv, TypeOK, References, Lifetime, Threads, UnloadOrNot,
     RecvFailed, ReceiveEnds, objclos, tcp_unload, pkts
<1>b. /\ events' \in Seq(Names)
      /\ \A x \in {"connected", "data"} : Told(x)' <=> Told(x)
      /\ Told("closed")' => Told("closed") \/ stat' = "unloaded"
      /\ NothingAfterClosed' /\ EventOrder'
  BY <1>a, UnloadStep DEF LinkInv, Connecting, Telling, RecvFailed,
     ReceiveEnds, objclos, tcp_unload, pkts
<1>1. TypeOK'
  BY <1>b DEF LinkInv, TypeOK, Threads, PacketStates, References, Names,
     RecvFailed, ReceiveEnds, objclos, tcp_unload, pkts
<1>2. References'
  BY <1>b DEF LinkInv, TypeOK, References, Threads, Names, RecvFailed,
     ReceiveEnds, objclos, tcp_unload, pkts
<1>3. Lifetime'
  BY <1>b DEF LinkInv, TypeOK, Lifetime, References, Threads, Names,
     RecvFailed, ReceiveEnds, objclos, tcp_unload, pkts
<1>4. Connecting'
  BY <1>b DEF LinkInv, TypeOK, Connecting, References, Lifetime, Threads,
     Telling, Names, RecvFailed, ReceiveEnds, objclos, tcp_unload, pkts
<1>5. Telling'
  BY <1>b DEF LinkInv, TypeOK, Telling, Connecting, References, Threads,
     Names, RecvFailed, ReceiveEnds, objclos, tcp_unload, pkts
<1>6. Reading'
  BY <1>b DEF LinkInv, TypeOK, Reading, Connecting, Telling, References,
     Threads, Names, RecvFailed, ReceiveEnds, objclos, tcp_unload, pkts
<1> QED
  BY <1>b, <1>1, <1>2, <1>3, <1>4, <1>5, <1>6 DEF LinkInv

\* tcp_destroy takes the last reference.
LEMMA Tcp_destroyInv ==
  ASSUME LinkInv, tcp_destroy
  PROVE  LinkInv'
<1>a. UnloadOrNot
  BY DEF LinkInv, TypeOK, References, Lifetime, Threads, UnloadOrNot,
     tcp_destroy, tcprefr, pkts, Goto
<1>b. /\ events' \in Seq(Names)
      /\ \A x \in {"connected", "data"} : Told(x)' <=> Told(x)
      /\ Told("closed")' => Told("closed") \/ stat' = "unloaded"
      /\ NothingAfterClosed' /\ EventOrder'
  BY <1>a, UnloadStep DEF LinkInv, Connecting, Telling, tcp_destroy, tcprefr,
     pkts, Goto
<1>1. TypeOK'
  BY <1>b DEF LinkInv, TypeOK, Threads, PacketStates, References, Names,
     tcp_destroy, tcprefr, pkts, Goto
<1>2. References'
  BY <1>b DEF LinkInv, TypeOK, References, Threads, Names, tcp_destroy,
     tcprefr, pkts, Goto
<1>3. Lifetime'
  BY <1>b DEF LinkInv, TypeOK, Lifetime, References, Threads, Names,
     tcp_destroy, tcprefr, pkts, Goto
<1>4. Connecting'
  BY <1>b DEF LinkInv, TypeOK, Connecting, References, Lifetime, Threads,
     Telling, Names, tcp_destroy, tcprefr, pkts, Goto
<1>5. Telling'
  BY <1>b DEF LinkInv, TypeOK, Telling, Connecting, References, Threads,
     Names, tcp_destroy, tcprefr, pkts, Goto
<1>6. Reading'
  BY <1>b DEF LinkInv, TypeOK, Reading, Connecting, Telling, References,
     Threads, Names, tcp_destroy, tcprefr, pkts, Goto
<1> QED
  BY <1>b, <1>1, <1>2, <1>3, <1>4, <1>5, <1>6 DEF LinkInv

\* The descriptor is closed.
LEMMA IocloseInv ==
  ASSUME LinkInv, ioclose
  PROVE  LinkInv'
<1>a. UnloadOrNot
  BY DEF LinkInv, TypeOK, References, Lifetime, Threads, UnloadOrNot, ioclose,
     pkts, Goto
<1>b. /\ events' \in Seq(Names)
      /\ \A x \in {"connected", "data"} : Told(x)' <=> Told(x)
      /\ Told("closed")' => Told("closed") \/ stat' = "unloaded"
      /\ NothingAfterClosed' /\ EventOrder'
  BY <1>a, UnloadStep DEF LinkInv, Connecting, Telling, ioclose, pkts, Goto
<1>1. TypeOK'
  BY <1>b DEF LinkInv, TypeOK, Threads, PacketStates, References, Names,
     ioclose, pkts, Goto
<1>2. References'
  BY <1>b DEF LinkInv, TypeOK, References, Threads, Names, ioclose, pkts, Goto
<1>3. Lifetime'
  BY <1>b DEF LinkInv, TypeOK, Lifetime, References, Threads, Names, ioclose,
     pkts, Goto
<1>4. Connecting'
  BY <1>b DEF LinkInv, TypeOK, Connecting, References, Lifetime, Threads,
     Telling, Names, ioclose, pkts, Goto
<1>5. Telling'
  BY <1>b DEF LinkInv, TypeOK, Telling, Connecting, References, Threads,
     Names, ioclose, pkts, Goto
<1>6. Reading'
  BY <1>b DEF LinkInv, TypeOK, Reading, Connecting, Telling, References,
     Threads, Names, ioclose, pkts, Goto
<1> QED
  BY <1>b, <1>1, <1>2, <1>3, <1>4, <1>5, <1>6 DEF LinkInv

-----------------------------------------------------------------------------
(* The theorems                                                            *)

\* Every step of the specification preserves the invariant.
LEMMA NextInv == LinkInv /\ [Next]_vars => LinkInv'
<1> SUFFICES ASSUME LinkInv, [Next]_vars PROVE LinkInv'
  OBVIOUS
<1>1. "user" \in Threads /\ "io" \in Threads /\ "killer" \in Threads
  BY DEF Threads
<1>2. CASE \/ tcp_create \/ CreateFailed
           \/ tcp_connect \/ ConnectSucceeds \/ ConnectFails \/ ConnectNoMemory
           \/ tcp_connect2
  BY <1>2, Tcp_createInv, CreateFailedInv, Tcp_connectInv, ConnectSucceedsInv,
     ConnectFailsInv, ConnectNoMemoryInv, Tcp_connect2Inv
<1>3. CASE ConnectedOk \/ ConnectExFailed \/ DataEvent \/ RecvFailed
  BY <1>3, ConnectedOkInv, ConnectExFailedInv, DataEventInv, RecvFailedInv
<1>4. CASE UserStep
  BY <1>1, <1>4, ConnectInterruptedInv, ConnectRecvInv, ConnectEventInv,
     ConnectExInv, ReturnInv DEF UserStep
<1>5. CASE IOStep
  BY <1>1, <1>5, ConnectedRecvInv, ConnectedEventInv, ConnectedFailInv,
     ConnectedCloseInv, DataReturnInv, ReturnInv DEF IOStep
<1>6. CASE tcp_destroy \/ KillerStep
  BY <1>1, <1>6, Tcp_destroyInv, IocloseInv, ReturnInv DEF KillerStep
<1>7. CASE Gone \/ UNCHANGED vars
  BY <1>7 DEF Gone, LinkInv, TypeOK, References, Lifetime, Connecting, Telling,
     Reading, NothingAfterClosed, EventOrder, Told, vars
<1> QED
  BY <1>2, <1>3, <1>4, <1>5, <1>6, <1>7 DEF Next

\* The invariant holds in every reachable state.
THEOREM LinkInvariant == Spec => []LinkInv
<1>1. Init => LinkInv
  BY InitInv
<1>2. LinkInv /\ [Next]_vars => LinkInv'
  BY NextInv
<1> QED
  BY <1>1, <1>2, PTL DEF Spec

\* Whichever thread drops the last reference, no callback of a connect or of a
\* completion follows the EVT_CLOSED of tcp_unload.
THEOREM LinkNothingAfterClosed == Spec => []NothingAfterClosed
<1>1. LinkInv => NothingAfterClosed
  BY DEF LinkInv
<1> QED
  BY <1>1, LinkInvariant, PTL

\* A link tells of its connection at most once; behind tcp_connect2 before any
\* data, behind tcp_connect at the latest when the call returns, however many data
\* arrive and whoever closes the link.
THEOREM LinkConnectedFirst == Spec => []ConnectedFirst
<1>1. LinkInv => ConnectedFirst
  BY DEF LinkInv, Telling, ConnectedFirst
<1> QED
  BY <1>1, LinkInvariant, PTL

\* An open link that tcp_connect2 connected is being read from between two
\* completions.
THEOREM LinkConnectedIsRead == Spec => []ConnectedIsRead
<1>1. LinkInv => ConnectedIsRead
  BY DEF LinkInv, Reading, ConnectedIsRead
<1> QED
  BY <1>1, LinkInvariant, PTL
=============================================================================
