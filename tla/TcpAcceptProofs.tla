-------------------------- MODULE TcpAcceptProofs --------------------------
(***************************************************************************)
(* Theorems about TcpAccept, for any finite sets of handles and packets,   *)
(* any number of requests and any number of retries.  AcceptInv is the     *)
(* inductive invariant; each action preserves it by a lemma of its own.    *)
(***************************************************************************)
EXTENDS TcpAccept, TLAPS, FiniteSetTheorems

\* Pending requests can be counted.
LEMMA PostedFinite ==
  ASSUME TypeOK
  PROVE  IsFiniteSet(posted) /\ Cardinality(posted) \in Nat
BY TcpAcceptAssumption, FS_Subset, FS_CardinalityType DEF TypeOK

\* AcceptEx: one more request is pending.
LEMMA Posting ==
  ASSUME TypeOK, NEW p \in SynPackets, p \notin posted, posted' = posted \cup {p}
  PROVE  Cardinality(posted') = Cardinality(posted) + 1
BY PostedFinite, FS_AddElement

\* A completion: one less.
LEMMA Completing ==
  ASSUME TypeOK, NEW p \in posted, posted' = posted \ {p}
  PROVE  Cardinality(posted') = Cardinality(posted) - 1
BY PostedFinite, FS_RemoveElement

-----------------------------------------------------------------------------
(* One lemma per action                                                    *)

\* Nothing is pending and nobody listens.
LEMMA InitInv == Init => AcceptInv
<1> SUFFICES ASSUME Init PROVE AcceptInv
  OBVIOUS
<1>1. TypeOK
  BY TcpAcceptAssumption DEF Init, TypeOK, Threads
<1>2. Positions /\ PacketsApart /\ LinksApart /\ HoldsApart /\ NoneForgotten
  BY TcpAcceptAssumption DEF Init, Positions, PacketsApart, LinksApart,
     HoldsApart, NoneForgotten, Threads
<1>3. AcceptsKept
  BY FS_EmptySet DEF Init, AcceptsKept, Renewing, Threads
<1> QED
  BY <1>1, <1>2, <1>3 DEF AcceptInv

\* A packet is taken from the free ones.
LEMMA SynPacketInv ==
  ASSUME AcceptInv, NEW t \in Threads, SynPacket(t)
  PROVE  AcceptInv'
<1>1. TypeOK'
  BY TcpAcceptAssumption DEF AcceptInv, TypeOK, Threads, SynPacket, Goto,
     locals, history
<1>2. Positions'
  BY TcpAcceptAssumption DEF AcceptInv, TypeOK, Positions, Threads, SynPacket,
     Goto, locals, history
<1>3. PacketsApart'
  BY TcpAcceptAssumption DEF AcceptInv, TypeOK, PacketsApart, Positions,
     Threads, SynPacket, Goto, locals, history
<1>4. LinksApart'
  BY TcpAcceptAssumption DEF AcceptInv, TypeOK, LinksApart, PacketsApart,
     HoldsApart, Positions, Threads, SynPacket, Goto, locals, history
<1>5. HoldsApart'
  BY TcpAcceptAssumption DEF AcceptInv, TypeOK, HoldsApart, LinksApart,
     PacketsApart, Positions, Threads, SynPacket, Goto, locals, history
<1>6. NoneForgotten'
  BY TcpAcceptAssumption DEF AcceptInv, TypeOK, NoneForgotten, LinksApart,
     HoldsApart, Positions, Threads, SynPacket, Goto, locals, history
<1>7. AcceptsKept'
  BY TcpAcceptAssumption, PostedFinite DEF AcceptInv, TypeOK, AcceptsKept,
     Renewing, Positions, PacketsApart, Threads, SynPacket, Goto, locals,
     history
<1> QED
  BY <1>1, <1>2, <1>3, <1>4, <1>5, <1>6, <1>7 DEF AcceptInv

\* Without a packet the request is owed, or counted as lost.
LEMMA SynNoPacketInv ==
  ASSUME AcceptInv, NEW t \in Threads, SynNoPacket(t)
  PROVE  AcceptInv'
<1>1. TypeOK'
  BY TcpAcceptAssumption DEF AcceptInv, TypeOK, Threads, SynNoPacket, Goto,
     locals, history
<1>2. Positions'
  BY TcpAcceptAssumption DEF AcceptInv, TypeOK, Positions, Threads,
     SynNoPacket, Goto, locals, history
<1>3. PacketsApart'
  BY TcpAcceptAssumption DEF AcceptInv, TypeOK, PacketsApart, Positions,
     Threads, SynNoPacket, Goto, locals, history
<1>4. LinksApart'
  BY TcpAcceptAssumption DEF AcceptInv, TypeOK, LinksApart, PacketsApart,
     HoldsApart, Positions, Threads, SynNoPacket, Goto, locals, history
<1>5. HoldsApart'
  BY TcpAcceptAssumption DEF AcceptInv, TypeOK, HoldsApart, LinksApart,
     PacketsApart, Positions, Threads, SynNoPacket, Goto, locals, history
<1>6. NoneForgotten'
  BY TcpAcceptAssumption DEF AcceptInv, TypeOK, NoneForgotten, LinksApart,
     HoldsApart, Positions, Threads, SynNoPacket, Goto, locals, history
<1>7. AcceptsKept'
  BY TcpAcceptAssumption, PostedFinite DEF AcceptInv, TypeOK, AcceptsKept,
     Renewing, Positions, PacketsApart, Threads, SynNoPacket, Goto, locals,
     history
<1> QED
  BY <1>1, <1>2, <1>3, <1>4, <1>5, <1>6, <1>7 DEF AcceptInv

\* An object nobody names is prepared.
LEMMA SynObjectInv ==
  ASSUME AcceptInv, NEW t \in Threads, SynObject(t)
  PROVE  AcceptInv'
<1>a. PICK h \in Handles : /\ link' = [link EXCEPT ![h] = "fresh"]
                           /\ hold' = [hold EXCEPT ![t] = h]
                           /\ accepted_link' =
                                [accepted_link EXCEPT ![packet[t]] = h]
  BY DEF SynObject
<1>1. TypeOK'
  <2>1. hold' \in [Threads -> Handles \cup {None}]
    BY <1>a DEF AcceptInv, TypeOK
  <2>2. accepted_link' \in [SynPackets -> Handles \cup {None}]
    BY <1>a DEF AcceptInv, TypeOK
  <2>3. link' \in [Handles -> {"free", "fresh", "announced", "receiving", "closed"}]
    BY <1>a DEF AcceptInv, TypeOK
  <2> QED
    BY <2>1, <2>2, <2>3 DEF AcceptInv, TypeOK, SynObject, Goto, history
<1>2. Positions'
  BY TcpAcceptAssumption DEF AcceptInv, TypeOK, Positions, Threads, SynObject,
     Unused, Goto, locals, history
<1>3. PacketsApart'
  BY TcpAcceptAssumption DEF AcceptInv, TypeOK, PacketsApart, Positions,
     Threads, SynObject, Unused, Goto, locals, history
<1>4. LinksApart'
  BY TcpAcceptAssumption DEF AcceptInv, TypeOK, LinksApart, PacketsApart,
     HoldsApart, Positions, Threads, SynObject, Unused, Goto, locals, history
<1>5. HoldsApart'
  BY TcpAcceptAssumption DEF AcceptInv, TypeOK, HoldsApart, LinksApart,
     PacketsApart, Positions, Threads, SynObject, Unused, Goto, locals,
     history
<1>6. NoneForgotten'
  <2>1. hold[t] = None
    BY DEF AcceptInv, HoldsApart, SynObject
  <2>2. packet[t] \in SynPackets
    BY DEF AcceptInv, TypeOK, PacketsApart, SynObject
  <2>3. accepted_link[packet[t]] = None
    BY <2>2 DEF AcceptInv, TypeOK, PacketsApart, LinksApart, SynObject, Threads
  <2>4. lstat' = lstat
    BY DEF SynObject
  <2> QED
    BY <1>a, <2>1, <2>2, <2>3, <2>4, TcpAcceptAssumption DEF AcceptInv, TypeOK,
       NoneForgotten
<1>7. AcceptsKept'
  BY TcpAcceptAssumption, PostedFinite DEF AcceptInv, TypeOK, AcceptsKept,
     Renewing, Positions, PacketsApart, Threads, SynObject, Unused, Goto,
     locals, history
<1> QED
  BY <1>1, <1>2, <1>3, <1>4, <1>5, <1>6, <1>7 DEF AcceptInv

\* Without an object the loop is left.
LEMMA SynNoObjectInv ==
  ASSUME AcceptInv, NEW t \in Threads, SynNoObject(t)
  PROVE  AcceptInv'
<1>1. TypeOK'
  BY TcpAcceptAssumption DEF AcceptInv, TypeOK, Threads, SynNoObject, Goto,
     locals, history
<1>2. Positions'
  BY TcpAcceptAssumption DEF AcceptInv, TypeOK, Positions, Threads,
     SynNoObject, Goto, locals, history
<1>3. PacketsApart'
  BY TcpAcceptAssumption DEF AcceptInv, TypeOK, PacketsApart, Positions,
     Threads, SynNoObject, Goto, locals, history
<1>4. LinksApart'
  BY TcpAcceptAssumption DEF AcceptInv, TypeOK, LinksApart, PacketsApart,
     HoldsApart, Positions, Threads, SynNoObject, Goto, locals, history
<1>5. HoldsApart'
  BY TcpAcceptAssumption DEF AcceptInv, TypeOK, HoldsApart, LinksApart,
     PacketsApart, Positions, Threads, SynNoObject, Goto, locals, history
<1>6. NoneForgotten'
  BY TcpAcceptAssumption DEF AcceptInv, TypeOK, NoneForgotten, LinksApart,
     HoldsApart, Positions, Threads, SynNoObject, Goto, locals, history
<1>7. AcceptsKept'
  BY TcpAcceptAssumption, PostedFinite DEF AcceptInv, TypeOK, AcceptsKept,
     Renewing, Positions, PacketsApart, Threads, SynNoObject, Goto, locals,
     history
<1> QED
  BY <1>1, <1>2, <1>3, <1>4, <1>5, <1>6, <1>7 DEF AcceptInv

\* The prepared packet becomes pending.
LEMMA SynPostedInv ==
  ASSUME AcceptInv, NEW t \in Threads, SynPosted(t)
  PROVE  AcceptInv'
<1>1. TypeOK'
  <2>1. packet[t] \in SynPackets /\ 0 \in 0..(SynTimes + 1)
    BY TcpAcceptAssumption DEF AcceptInv, TypeOK, PacketsApart, SynPosted
  <2>2. listened' \in 0..Block
    BY TcpAcceptAssumption DEF AcceptInv, TypeOK, Positions, SynPosted
  <2> QED
    BY <2>1, <2>2 DEF AcceptInv, TypeOK, SynPosted, Goto
<1>2. Positions'
  BY TcpAcceptAssumption DEF AcceptInv, TypeOK, Positions, Threads, SynPosted,
     Goto, locals, history
<1>3. PacketsApart'
  BY TcpAcceptAssumption DEF AcceptInv, TypeOK, PacketsApart, Positions,
     Threads, SynPosted, Goto, locals, history
<1>4. LinksApart'
  BY TcpAcceptAssumption DEF AcceptInv, TypeOK, LinksApart, PacketsApart,
     HoldsApart, Positions, Threads, SynPosted, Goto, locals, history
<1>5. HoldsApart'
  BY TcpAcceptAssumption DEF AcceptInv, TypeOK, HoldsApart, LinksApart,
     PacketsApart, Positions, Threads, SynPosted, Goto, locals, history
<1>6. NoneForgotten'
  <2>1. hold[t] = accepted_link[packet[t]] /\ packet[t] \in SynPackets
    BY DEF AcceptInv, TypeOK, PacketsApart, HoldsApart, SynPosted
  <2> QED
    BY <2>1, TcpAcceptAssumption DEF AcceptInv, TypeOK, NoneForgotten, SynPosted
<1>7. AcceptsKept'
  <2>1. packet[t] \in SynPackets /\ packet[t] \notin posted
    BY DEF AcceptInv, TypeOK, PacketsApart, SynPosted
  <2>2. Cardinality(posted') = Cardinality(posted) + 1
    BY <2>1, Posting DEF AcceptInv, SynPosted
  <2> QED
    BY <2>2, PostedFinite DEF AcceptInv, TypeOK, AcceptsKept, Renewing,
       Positions, Threads, SynPosted, Goto
<1> QED
  BY <1>1, <1>2, <1>3, <1>4, <1>5, <1>6, <1>7 DEF AcceptInv

\* The refused object is closed and named by nobody.
LEMMA SynRetryInv ==
  ASSUME AcceptInv, NEW t \in Threads, SynRetry(t)
  PROVE  AcceptInv'
<1>1. TypeOK'
  <2>1. tries[t] + 1 \in 0..(SynTimes + 1)
    BY TcpAcceptAssumption DEF AcceptInv, TypeOK, Positions, SynRetry,
       CloseAndTry
  <2> QED
    BY <2>1 DEF AcceptInv, TypeOK, SynRetry, CloseAndTry, Close, Goto, history
<1>2. Positions'
  BY TcpAcceptAssumption DEF AcceptInv, TypeOK, Positions, Threads, SynRetry,
     CloseAndTry, Close, Goto, locals, history
<1>3. PacketsApart'
  BY TcpAcceptAssumption DEF AcceptInv, TypeOK, PacketsApart, Positions,
     Threads, SynRetry, CloseAndTry, Close, Goto, locals, history
<1>4. LinksApart'
  BY TcpAcceptAssumption DEF AcceptInv, TypeOK, LinksApart, PacketsApart,
     HoldsApart, Positions, Threads, SynRetry, CloseAndTry, Close, Goto,
     locals, history
<1>5. HoldsApart'
  BY TcpAcceptAssumption DEF AcceptInv, TypeOK, HoldsApart, LinksApart,
     PacketsApart, Positions, Threads, SynRetry, CloseAndTry, Close, Goto,
     locals, history
<1>6. NoneForgotten'
  BY TcpAcceptAssumption DEF AcceptInv, TypeOK, NoneForgotten, LinksApart,
     HoldsApart, Positions, Threads, SynRetry, CloseAndTry, Close, Goto,
     locals, history
<1>7. AcceptsKept'
  BY TcpAcceptAssumption, PostedFinite DEF AcceptInv, TypeOK, AcceptsKept,
     Renewing, Positions, PacketsApart, Threads, SynRetry, CloseAndTry, Close,
     Goto, locals, history
<1> QED
  BY <1>1, <1>2, <1>3, <1>4, <1>5, <1>6, <1>7 DEF AcceptInv

\* The listener closes.
LEMMA SynGiveUpInv ==
  ASSUME AcceptInv, NEW t \in Threads, SynGiveUp(t)
  PROVE  AcceptInv'
<1>1. TypeOK'
  BY TcpAcceptAssumption DEF AcceptInv, TypeOK, Threads, SynGiveUp, Goto,
     locals, history
<1>2. Positions'
  BY TcpAcceptAssumption DEF AcceptInv, TypeOK, Positions, Threads, SynGiveUp,
     Goto, locals, history
<1>3. PacketsApart'
  BY TcpAcceptAssumption DEF AcceptInv, TypeOK, PacketsApart, Positions,
     Threads, SynGiveUp, Goto, locals, history
<1>4. LinksApart'
  BY TcpAcceptAssumption DEF AcceptInv, TypeOK, LinksApart, PacketsApart,
     HoldsApart, Positions, Threads, SynGiveUp, Goto, locals, history
<1>5. HoldsApart'
  BY TcpAcceptAssumption DEF AcceptInv, TypeOK, HoldsApart, LinksApart,
     PacketsApart, Positions, Threads, SynGiveUp, Goto, locals, history
<1>6. NoneForgotten'
  BY TcpAcceptAssumption DEF AcceptInv, TypeOK, NoneForgotten, LinksApart,
     HoldsApart, Positions, Threads, SynGiveUp, Goto, locals, history
<1>7. AcceptsKept'
  BY TcpAcceptAssumption, PostedFinite DEF AcceptInv, TypeOK, AcceptsKept,
     Renewing, Positions, PacketsApart, Threads, SynGiveUp, Goto, locals,
     history
<1> QED
  BY <1>1, <1>2, <1>3, <1>4, <1>5, <1>6, <1>7 DEF AcceptInv

\* tcp_listen begins.
LEMMA Tcp_listenInv ==
  ASSUME AcceptInv, tcp_listen
  PROVE  AcceptInv'
<1>1. TypeOK'
  BY TcpAcceptAssumption DEF AcceptInv, TypeOK, Threads, tcp_listen, Goto,
     locals, history
<1>2. Positions'
  BY TcpAcceptAssumption DEF AcceptInv, TypeOK, Positions, Threads,
     tcp_listen, Goto, locals, history
<1>3. PacketsApart'
  BY TcpAcceptAssumption DEF AcceptInv, TypeOK, PacketsApart, Positions,
     Threads, tcp_listen, Goto, locals, history
<1>4. LinksApart'
  BY TcpAcceptAssumption DEF AcceptInv, TypeOK, LinksApart, PacketsApart,
     HoldsApart, Positions, Threads, tcp_listen, Goto, locals, history
<1>5. HoldsApart'
  BY TcpAcceptAssumption DEF AcceptInv, TypeOK, HoldsApart, LinksApart,
     PacketsApart, Positions, Threads, tcp_listen, Goto, locals, history
<1>6. NoneForgotten'
  BY TcpAcceptAssumption DEF AcceptInv, TypeOK, NoneForgotten, LinksApart,
     HoldsApart, Positions, Threads, tcp_listen, Goto, locals, history
<1>7. AcceptsKept'
  BY TcpAcceptAssumption, PostedFinite DEF AcceptInv, TypeOK, AcceptsKept,
     Renewing, Positions, PacketsApart, Threads, tcp_listen, Goto, locals,
     history
<1> QED
  BY <1>1, <1>2, <1>3, <1>4, <1>5, <1>6, <1>7 DEF AcceptInv

\* tcp_listen goes on.
LEMMA ListenMoreInv ==
  ASSUME AcceptInv, ListenMore
  PROVE  AcceptInv'
<1>1. TypeOK'
  BY TcpAcceptAssumption DEF AcceptInv, TypeOK, Threads, ListenMore, Goto,
     locals, history
<1>2. Positions'
  BY TcpAcceptAssumption DEF AcceptInv, TypeOK, Positions, Threads,
     ListenMore, Goto, locals, history
<1>3. PacketsApart'
  BY TcpAcceptAssumption DEF AcceptInv, TypeOK, PacketsApart, Positions,
     Threads, ListenMore, Goto, locals, history
<1>4. LinksApart'
  BY TcpAcceptAssumption DEF AcceptInv, TypeOK, LinksApart, PacketsApart,
     HoldsApart, Positions, Threads, ListenMore, Goto, locals, history
<1>5. HoldsApart'
  BY TcpAcceptAssumption DEF AcceptInv, TypeOK, HoldsApart, LinksApart,
     PacketsApart, Positions, Threads, ListenMore, Goto, locals, history
<1>6. NoneForgotten'
  BY TcpAcceptAssumption DEF AcceptInv, TypeOK, NoneForgotten, LinksApart,
     HoldsApart, Positions, Threads, ListenMore, Goto, locals, history
<1>7. AcceptsKept'
  BY TcpAcceptAssumption, PostedFinite DEF AcceptInv, TypeOK, AcceptsKept,
     Renewing, Positions, PacketsApart, Threads, ListenMore, Goto, locals,
     history
<1> QED
  BY <1>1, <1>2, <1>3, <1>4, <1>5, <1>6, <1>7 DEF AcceptInv

\* tcp_listen returns.
LEMMA ListenReturnInv ==
  ASSUME AcceptInv, ListenReturn
  PROVE  AcceptInv'
<1>1. TypeOK'
  BY TcpAcceptAssumption DEF AcceptInv, TypeOK, Threads, ListenReturn,
     Release, Goto, locals, history
<1>2. Positions'
  BY TcpAcceptAssumption DEF AcceptInv, TypeOK, Positions, Threads,
     ListenReturn, Release, Goto, locals, history
<1>3. PacketsApart'
  BY TcpAcceptAssumption DEF AcceptInv, TypeOK, PacketsApart, Positions,
     Threads, ListenReturn, Release, Goto, locals, history
<1>4. LinksApart'
  BY TcpAcceptAssumption DEF AcceptInv, TypeOK, LinksApart, PacketsApart,
     HoldsApart, Positions, Threads, ListenReturn, Release, Goto, locals,
     history
<1>5. HoldsApart'
  BY TcpAcceptAssumption DEF AcceptInv, TypeOK, HoldsApart, LinksApart,
     PacketsApart, Positions, Threads, ListenReturn, Release, Goto, locals,
     history
<1>6. NoneForgotten'
  BY TcpAcceptAssumption DEF AcceptInv, TypeOK, NoneForgotten, LinksApart,
     HoldsApart, Positions, Threads, ListenReturn, Release, Goto, locals,
     history
<1>7. AcceptsKept'
  BY TcpAcceptAssumption, PostedFinite DEF AcceptInv, TypeOK, AcceptsKept,
     Renewing, Positions, PacketsApart, Threads, ListenReturn, Release, Goto,
     locals, history
<1> QED
  BY <1>1, <1>2, <1>3, <1>4, <1>5, <1>6, <1>7 DEF AcceptInv

\* A completed request is taken over by the I/O thread.
LEMMA ConnectedInv ==
  ASSUME AcceptInv, NEW p \in SynPackets, Connected(p)
  PROVE  AcceptInv'
<1>1. TypeOK'
  BY TcpAcceptAssumption DEF AcceptInv, TypeOK, Threads, Connected, Goto,
     locals, history
<1>2. Positions'
  BY TcpAcceptAssumption DEF AcceptInv, TypeOK, Positions, Threads, Connected,
     Goto, locals, history
<1>3. PacketsApart'
  BY TcpAcceptAssumption DEF AcceptInv, TypeOK, PacketsApart, Positions,
     Threads, Connected, Goto, locals, history
<1>4. LinksApart'
  BY TcpAcceptAssumption DEF AcceptInv, TypeOK, LinksApart, PacketsApart,
     HoldsApart, Positions, Threads, Connected, Goto, locals, history
<1>5. HoldsApart'
  BY TcpAcceptAssumption DEF AcceptInv, TypeOK, HoldsApart, LinksApart,
     PacketsApart, Positions, Threads, Connected, Goto, locals, history
<1>6. NoneForgotten'
  BY TcpAcceptAssumption DEF AcceptInv, TypeOK, NoneForgotten, LinksApart,
     HoldsApart, Positions, Threads, Connected, Goto, locals, history
<1>7. AcceptsKept'
  <2>1. Cardinality(posted') = Cardinality(posted) - 1
    BY Completing DEF AcceptInv, Connected
  <2> QED
    BY <2>1, PostedFinite DEF AcceptInv, TypeOK, AcceptsKept, Renewing,
       Positions, Threads, Connected, Goto, locals, history
<1> QED
  BY <1>1, <1>2, <1>3, <1>4, <1>5, <1>6, <1>7 DEF AcceptInv

\* A completion behind a closed listener is dropped.
LEMMA ConnectedNoEntryInv ==
  ASSUME AcceptInv, NEW p \in SynPackets, ConnectedNoEntry(p)
  PROVE  AcceptInv'
<1>1. TypeOK'
  BY TcpAcceptAssumption DEF AcceptInv, TypeOK, Threads, ConnectedNoEntry,
     locals, history
<1>2. Positions'
  BY TcpAcceptAssumption DEF AcceptInv, TypeOK, Positions, Threads,
     ConnectedNoEntry, locals, history
<1>3. PacketsApart'
  BY TcpAcceptAssumption DEF AcceptInv, TypeOK, PacketsApart, Positions,
     Threads, ConnectedNoEntry, locals, history
<1>4. LinksApart'
  BY TcpAcceptAssumption DEF AcceptInv, TypeOK, LinksApart, PacketsApart,
     HoldsApart, Positions, Threads, ConnectedNoEntry, locals, history
<1>5. HoldsApart'
  BY TcpAcceptAssumption DEF AcceptInv, TypeOK, HoldsApart, LinksApart,
     PacketsApart, Positions, Threads, ConnectedNoEntry, locals, history
<1>6. NoneForgotten'
  BY TcpAcceptAssumption DEF AcceptInv, TypeOK, NoneForgotten, LinksApart,
     HoldsApart, Positions, Threads, ConnectedNoEntry, locals, history
<1>7. AcceptsKept'
  BY DEF AcceptsKept, ConnectedNoEntry
<1> QED
  BY <1>1, <1>2, <1>3, <1>4, <1>5, <1>6, <1>7 DEF AcceptInv

\* The link is announced.
LEMMA SynCopiedInv ==
  ASSUME AcceptInv, SynCopied
  PROVE  AcceptInv'
<1>1. TypeOK'
  BY TcpAcceptAssumption DEF AcceptInv, TypeOK, Threads, SynCopied, Goto,
     locals, history
<1>2. Positions'
  BY TcpAcceptAssumption DEF AcceptInv, TypeOK, Positions, Threads, SynCopied,
     Goto, locals, history
<1>3. PacketsApart'
  BY TcpAcceptAssumption DEF AcceptInv, TypeOK, PacketsApart, Positions,
     Threads, SynCopied, Goto, locals, history
<1>4. LinksApart'
  BY TcpAcceptAssumption DEF AcceptInv, TypeOK, LinksApart, PacketsApart,
     HoldsApart, Positions, Threads, SynCopied, Goto, locals, history
<1>5. HoldsApart'
  BY TcpAcceptAssumption DEF AcceptInv, TypeOK, HoldsApart, LinksApart,
     PacketsApart, Positions, Threads, SynCopied, Goto, locals, history
<1>6. NoneForgotten'
  BY TcpAcceptAssumption DEF AcceptInv, TypeOK, NoneForgotten, LinksApart,
     HoldsApart, Positions, Threads, SynCopied, Goto, locals, history
<1>7. AcceptsKept'
  BY TcpAcceptAssumption, PostedFinite DEF AcceptInv, TypeOK, AcceptsKept,
     Renewing, Positions, PacketsApart, Threads, SynCopied, Goto, locals,
     history
<1> QED
  BY <1>1, <1>2, <1>3, <1>4, <1>5, <1>6, <1>7 DEF AcceptInv

\* A link that cannot be set up is closed.
LEMMA SynNotCopiedInv ==
  ASSUME AcceptInv, SynNotCopied
  PROVE  AcceptInv'
<1>1. TypeOK'
  BY TcpAcceptAssumption DEF AcceptInv, TypeOK, Threads, SynNotCopied,
     NotCopied, Close, Goto, locals, history
<1>2. Positions'
  BY TcpAcceptAssumption DEF AcceptInv, TypeOK, Positions, Threads,
     SynNotCopied, NotCopied, Close, Goto, locals, history
<1>3. PacketsApart'
  BY TcpAcceptAssumption DEF AcceptInv, TypeOK, PacketsApart, Positions,
     Threads, SynNotCopied, NotCopied, Close, Goto, locals, history
<1>4. LinksApart'
  BY TcpAcceptAssumption DEF AcceptInv, TypeOK, LinksApart, PacketsApart,
     HoldsApart, Positions, Threads, SynNotCopied, NotCopied, Close, Goto,
     locals, history
<1>5. HoldsApart'
  BY TcpAcceptAssumption DEF AcceptInv, TypeOK, HoldsApart, LinksApart,
     PacketsApart, Positions, Threads, SynNotCopied, NotCopied, Close, Goto,
     locals, history
<1>6. NoneForgotten'
  BY TcpAcceptAssumption DEF AcceptInv, TypeOK, NoneForgotten, LinksApart,
     HoldsApart, Positions, Threads, SynNotCopied, NotCopied, Close, Goto,
     locals, history
<1>7. AcceptsKept'
  BY TcpAcceptAssumption, PostedFinite DEF AcceptInv, TypeOK, AcceptsKept,
     Renewing, Positions, PacketsApart, Threads, SynNotCopied, NotCopied,
     Close, Goto, locals, history
<1> QED
  BY <1>1, <1>2, <1>3, <1>4, <1>5, <1>6, <1>7 DEF AcceptInv

\* The link receives, or is closed.
LEMMA SynRecvInv ==
  ASSUME AcceptInv, SynRecv
  PROVE  AcceptInv'
<1>1. TypeOK'
  BY TcpAcceptAssumption DEF AcceptInv, TypeOK, Threads, SynRecv, Close, Goto,
     locals, history
<1>2. Positions'
  BY TcpAcceptAssumption DEF AcceptInv, TypeOK, Positions, Threads, SynRecv,
     Close, Goto, locals, history
<1>3. PacketsApart'
  BY TcpAcceptAssumption DEF AcceptInv, TypeOK, PacketsApart, Positions,
     Threads, SynRecv, Close, Goto, locals, history
<1>4. LinksApart'
  BY TcpAcceptAssumption DEF AcceptInv, TypeOK, LinksApart, PacketsApart,
     HoldsApart, Positions, Threads, SynRecv, Close, Goto, locals, history
<1>5. HoldsApart'
  BY TcpAcceptAssumption DEF AcceptInv, TypeOK, HoldsApart, LinksApart,
     PacketsApart, Positions, Threads, SynRecv, Close, Goto, locals, history
<1>6. NoneForgotten'
  BY TcpAcceptAssumption DEF AcceptInv, TypeOK, NoneForgotten, LinksApart,
     HoldsApart, Positions, Threads, SynRecv, Close, Goto, locals, history
<1>7. AcceptsKept'
  BY TcpAcceptAssumption, PostedFinite DEF AcceptInv, TypeOK, AcceptsKept,
     Renewing, Positions, PacketsApart, Threads, SynRecv, Close, Goto, locals,
     history
<1> QED
  BY <1>1, <1>2, <1>3, <1>4, <1>5, <1>6, <1>7 DEF AcceptInv

\* A failed request is taken over by the I/O thread.
LEMMA SynExceptionInv ==
  ASSUME AcceptInv, NEW p \in SynPackets, SynException(p)
  PROVE  AcceptInv'
<1>1. TypeOK'
  BY TcpAcceptAssumption DEF AcceptInv, TypeOK, Threads, SynException, Goto,
     locals, history
<1>2. Positions'
  BY TcpAcceptAssumption DEF AcceptInv, TypeOK, Positions, Threads,
     SynException, Goto, locals, history
<1>3. PacketsApart'
  BY TcpAcceptAssumption DEF AcceptInv, TypeOK, PacketsApart, Positions,
     Threads, SynException, Goto, locals, history
<1>4. LinksApart'
  BY TcpAcceptAssumption DEF AcceptInv, TypeOK, LinksApart, PacketsApart,
     HoldsApart, Positions, Threads, SynException, Goto, locals, history
<1>5. HoldsApart'
  BY TcpAcceptAssumption DEF AcceptInv, TypeOK, HoldsApart, LinksApart,
     PacketsApart, Positions, Threads, SynException, Goto, locals, history
<1>6. NoneForgotten'
  BY TcpAcceptAssumption DEF AcceptInv, TypeOK, NoneForgotten, LinksApart,
     HoldsApart, Positions, Threads, SynException, Goto, locals, history
<1>7. AcceptsKept'
  <2>1. Cardinality(posted') = Cardinality(posted) - 1
    BY Completing DEF AcceptInv, SynException
  <2> QED
    BY <2>1, PostedFinite DEF AcceptInv, TypeOK, AcceptsKept, Renewing,
       Positions, Threads, SynException, Goto, locals, history
<1> QED
  BY <1>1, <1>2, <1>3, <1>4, <1>5, <1>6, <1>7 DEF AcceptInv

\* tcp_shutdown_by_packet renews the request of an open listener.
LEMMA ShutdownSynInv ==
  ASSUME AcceptInv, ShutdownSyn
  PROVE  AcceptInv'
<1>1. TypeOK'
  BY TcpAcceptAssumption DEF AcceptInv, TypeOK, Threads, ShutdownSyn, Goto,
     locals, history
<1>2. Positions'
  BY TcpAcceptAssumption DEF AcceptInv, TypeOK, Positions, Threads,
     ShutdownSyn, Goto, locals, history
<1>3. PacketsApart'
  BY TcpAcceptAssumption DEF AcceptInv, TypeOK, PacketsApart, Positions,
     Threads, ShutdownSyn, Goto, locals, history
<1>4. LinksApart'
  BY TcpAcceptAssumption DEF AcceptInv, TypeOK, LinksApart, PacketsApart,
     HoldsApart, Positions, Threads, ShutdownSyn, Goto, locals, history
<1>5. HoldsApart'
  BY TcpAcceptAssumption DEF AcceptInv, TypeOK, HoldsApart, LinksApart,
     PacketsApart, Positions, Threads, ShutdownSyn, Goto, locals, history
<1>6. NoneForgotten'
  BY TcpAcceptAssumption DEF AcceptInv, TypeOK, NoneForgotten, LinksApart,
     HoldsApart, Positions, Threads, ShutdownSyn, Goto, locals, history
<1>7. AcceptsKept'
  BY TcpAcceptAssumption, PostedFinite DEF AcceptInv, TypeOK, AcceptsKept,
     Renewing, Positions, PacketsApart, Threads, ShutdownSyn, Goto, locals,
     history
<1> QED
  BY <1>1, <1>2, <1>3, <1>4, <1>5, <1>6, <1>7 DEF AcceptInv

\* A failure behind a closed listener frees the packet.
LEMMA ExceptionNoEntryInv ==
  ASSUME AcceptInv, NEW p \in SynPackets, ExceptionNoEntry(p)
  PROVE  AcceptInv'
<1>1. TypeOK'
  BY TcpAcceptAssumption DEF AcceptInv, TypeOK, Threads, ExceptionNoEntry,
     locals, history
<1>2. Positions'
  BY TcpAcceptAssumption DEF AcceptInv, TypeOK, Positions, Threads,
     ExceptionNoEntry, locals, history
<1>3. PacketsApart'
  BY TcpAcceptAssumption DEF AcceptInv, TypeOK, PacketsApart, Positions,
     Threads, ExceptionNoEntry, locals, history
<1>4. LinksApart'
  BY TcpAcceptAssumption DEF AcceptInv, TypeOK, LinksApart, PacketsApart,
     HoldsApart, Positions, Threads, ExceptionNoEntry, locals, history
<1>5. HoldsApart'
  BY TcpAcceptAssumption DEF AcceptInv, TypeOK, HoldsApart, LinksApart,
     PacketsApart, Positions, Threads, ExceptionNoEntry, locals, history
<1>6. NoneForgotten'
  BY TcpAcceptAssumption DEF AcceptInv, TypeOK, NoneForgotten, LinksApart,
     HoldsApart, Positions, Threads, ExceptionNoEntry, locals, history
<1>7. AcceptsKept'
  BY DEF AcceptsKept, ExceptionNoEntry
<1> QED
  BY <1>1, <1>2, <1>3, <1>4, <1>5, <1>6, <1>7 DEF AcceptInv

\* tcp_dispatch_io_syn returns.
LEMMA SynReturnInv ==
  ASSUME AcceptInv, SynReturn
  PROVE  AcceptInv'
<1>1. TypeOK'
  BY TcpAcceptAssumption DEF AcceptInv, TypeOK, Threads, SynReturn, Goto,
     locals, history
<1>2. Positions'
  BY TcpAcceptAssumption DEF AcceptInv, TypeOK, Positions, Threads, SynReturn,
     Goto, locals, history
<1>3. PacketsApart'
  BY TcpAcceptAssumption DEF AcceptInv, TypeOK, PacketsApart, Positions,
     Threads, SynReturn, Goto, locals, history
<1>4. LinksApart'
  BY TcpAcceptAssumption DEF AcceptInv, TypeOK, LinksApart, PacketsApart,
     HoldsApart, Positions, Threads, SynReturn, Goto, locals, history
<1>5. HoldsApart'
  BY TcpAcceptAssumption DEF AcceptInv, TypeOK, HoldsApart, LinksApart,
     PacketsApart, Positions, Threads, SynReturn, Goto, locals, history
<1>6. NoneForgotten'
  BY TcpAcceptAssumption DEF AcceptInv, TypeOK, NoneForgotten, LinksApart,
     HoldsApart, Positions, Threads, SynReturn, Goto, locals, history
<1>7. AcceptsKept'
  BY TcpAcceptAssumption, PostedFinite DEF AcceptInv, TypeOK, AcceptsKept,
     Renewing, Positions, PacketsApart, Threads, SynReturn, Goto, locals,
     history
<1> QED
  BY <1>1, <1>2, <1>3, <1>4, <1>5, <1>6, <1>7 DEF AcceptInv

\* tcp_shutdown_by_packet closes the failed object and returns.
LEMMA ShutdownReturnInv ==
  ASSUME AcceptInv, ShutdownReturn
  PROVE  AcceptInv'
<1>1. TypeOK'
  BY TcpAcceptAssumption DEF AcceptInv, TypeOK, Threads, ShutdownReturn,
     Release, Close, Goto, locals, history
<1>2. Positions'
  BY TcpAcceptAssumption DEF AcceptInv, TypeOK, Positions, Threads,
     ShutdownReturn, Release, Close, Goto, locals, history
<1>3. PacketsApart'
  BY TcpAcceptAssumption DEF AcceptInv, TypeOK, PacketsApart, Positions,
     Threads, ShutdownReturn, Release, Close, Goto, locals, history
<1>4. LinksApart'
  BY TcpAcceptAssumption DEF AcceptInv, TypeOK, LinksApart, PacketsApart,
     HoldsApart, Positions, Threads, ShutdownReturn, Release, Close, Goto,
     locals, history
<1>5. HoldsApart'
  BY TcpAcceptAssumption DEF AcceptInv, TypeOK, HoldsApart, LinksApart,
     PacketsApart, Positions, Threads, ShutdownReturn, Release, Close, Goto,
     locals, history
<1>6. NoneForgotten'
  BY TcpAcceptAssumption DEF AcceptInv, TypeOK, NoneForgotten, LinksApart,
     HoldsApart, Positions, Threads, ShutdownReturn, Release, Close, Goto,
     locals, history
<1>7. AcceptsKept'
  BY TcpAcceptAssumption, PostedFinite DEF AcceptInv, TypeOK, AcceptsKept,
     Renewing, Positions, PacketsApart, Threads, ShutdownReturn, Release,
     Close, Goto, locals, history
<1> QED
  BY <1>1, <1>2, <1>3, <1>4, <1>5, <1>6, <1>7 DEF AcceptInv

\* The program closes the listener.
LEMMA DestroyListenerInv ==
  ASSUME AcceptInv, DestroyListener
  PROVE  AcceptInv'
<1>1. TypeOK'
  BY TcpAcceptAssumption DEF AcceptInv, TypeOK, Threads, DestroyListener,
     locals, history
<1>2. Positions'
  BY TcpAcceptAssumption DEF AcceptInv, TypeOK, Positions, Threads,
     DestroyListener, locals, history
<1>3. PacketsApart'
  BY TcpAcceptAssumption DEF AcceptInv, TypeOK, PacketsApart, Positions,
     Threads, DestroyListener, locals, history
<1>4. LinksApart'
  BY TcpAcceptAssumption DEF AcceptInv, TypeOK, LinksApart, PacketsApart,
     HoldsApart, Positions, Threads, DestroyListener, locals, history
<1>5. HoldsApart'
  BY TcpAcceptAssumption DEF AcceptInv, TypeOK, HoldsApart, LinksApart,
     PacketsApart, Positions, Threads, DestroyListener, locals, history
<1>6. NoneForgotten'
  BY TcpAcceptAssumption DEF AcceptInv, TypeOK, NoneForgotten, LinksApart,
     HoldsApart, Positions, Threads, DestroyListener, locals, history
<1>7. AcceptsKept'
  BY TcpAcceptAssumption, PostedFinite DEF AcceptInv, TypeOK, AcceptsKept,
     Renewing, Positions, PacketsApart, Threads, DestroyListener, locals,
     history
<1> QED
  BY <1>1, <1>2, <1>3, <1>4, <1>5, <1>6, <1>7 DEF AcceptInv

\* The program closes a link it was told of.
LEMMA DestroyAcceptedInv ==
  ASSUME AcceptInv, NEW h \in Handles, DestroyAccepted(h)
  PROVE  AcceptInv'
<1>1. TypeOK'
  BY TcpAcceptAssumption DEF AcceptInv, TypeOK, Threads, DestroyAccepted,
     Close, locals, history
<1>2. Positions'
  BY TcpAcceptAssumption DEF AcceptInv, TypeOK, Positions, Threads,
     DestroyAccepted, Close, locals, history
<1>3. PacketsApart'
  BY TcpAcceptAssumption DEF AcceptInv, TypeOK, PacketsApart, Positions,
     Threads, DestroyAccepted, Close, locals, history
<1>4. LinksApart'
  BY TcpAcceptAssumption DEF AcceptInv, TypeOK, LinksApart, PacketsApart,
     HoldsApart, Positions, Threads, DestroyAccepted, Close, locals, history
<1>5. HoldsApart'
  BY TcpAcceptAssumption DEF AcceptInv, TypeOK, HoldsApart, LinksApart,
     PacketsApart, Positions, Threads, DestroyAccepted, Close, locals, history
<1>6. NoneForgotten'
  BY TcpAcceptAssumption DEF AcceptInv, TypeOK, NoneForgotten, LinksApart,
     HoldsApart, Positions, Threads, DestroyAccepted, Close, locals, history
<1>7. AcceptsKept'
  BY TcpAcceptAssumption, PostedFinite DEF AcceptInv, TypeOK, AcceptsKept,
     Renewing, Positions, PacketsApart, Threads, DestroyAccepted, Close,
     locals, history
<1> QED
  BY <1>1, <1>2, <1>3, <1>4, <1>5, <1>6, <1>7 DEF AcceptInv

-----------------------------------------------------------------------------
(* The theorems                                                            *)

\* Every step of the specification preserves the invariant.
LEMMA NextInv == AcceptInv /\ [Next]_vars => AcceptInv'
<1> SUFFICES ASSUME AcceptInv, [Next]_vars PROVE AcceptInv'
  OBVIOUS
<1>1. CASE tcp_listen \/ ListenMore \/ ListenReturn
  BY <1>1, Tcp_listenInv, ListenMoreInv, ListenReturnInv
<1>2. ASSUME NEW t \in Threads, Step(t) PROVE AcceptInv'
  BY <1>2, SynPacketInv, SynNoPacketInv, SynObjectInv, SynNoObjectInv,
     SynPostedInv, SynRetryInv, SynGiveUpInv DEF Step
<1>3. ASSUME NEW p \in SynPackets,
             \/ Connected(p) \/ ConnectedNoEntry(p)
             \/ SynException(p) \/ ExceptionNoEntry(p)
      PROVE  AcceptInv'
  BY <1>3, ConnectedInv, ConnectedNoEntryInv, SynExceptionInv,
     ExceptionNoEntryInv
<1>4. CASE \/ SynCopied \/ SynNotCopied \/ SynRecv \/ SynReturn
           \/ ShutdownSyn \/ ShutdownReturn
  BY <1>4, SynCopiedInv, SynNotCopiedInv, SynRecvInv, SynReturnInv,
     ShutdownSynInv, ShutdownReturnInv
<1>5. CASE DestroyListener \/ \E h \in Handles : DestroyAccepted(h)
  BY <1>5, DestroyListenerInv, DestroyAcceptedInv
<1>6. CASE UNCHANGED vars
  BY <1>6 DEF AcceptInv, TypeOK, Positions, PacketsApart, LinksApart,
     HoldsApart, NoneForgotten, AcceptsKept, Renewing, vars
<1> QED
  BY <1>1, <1>2, <1>3, <1>4, <1>5, <1>6 DEF Next

\* The invariant holds in every reachable state: every packet and every object
\* prepared for a connection has one owner.
THEOREM AcceptInvariant == Spec => []AcceptInv
<1>1. Init => AcceptInv
  BY InitInv
<1>2. AcceptInv /\ [Next]_vars => AcceptInv'
  BY NextInv
<1> QED
  BY <1>1, <1>2, PTL DEF Spec

\* The number of pending and owed accept requests of an open listener is the
\* number tcp_listen posted, less the ones lost for want of memory.
THEOREM AcceptsAreKept == Spec => []AcceptsKept
<1>1. AcceptInv => AcceptsKept
  BY DEF AcceptInv
<1> QED
  BY <1>1, AcceptInvariant, PTL

\* Two requests never wait for the same socket, and tcp_syn, tcp_syn_copy and
\* tcp_shutdown_by_packet forget no prepared object while the listener is open.
THEOREM AcceptOneRequestEach == Spec => []OneRequestEach
<1>1. AcceptInv => OneRequestEach
  <2> SUFFICES ASSUME AcceptInv PROVE OneRequestEach
    OBVIOUS
  <2>1. ASSUME NEW p \in posted
        PROVE  /\ link[accepted_link[p]] = "fresh"
               /\ \A q \in posted : accepted_link[p] = accepted_link[q] => p = q
    BY <2>1 DEF AcceptInv, TypeOK, LinksApart
  <2>2. ASSUME NEW p \in posted, NEW t \in Threads
        PROVE  hold[t] # accepted_link[p]
    BY <2>1, <2>2 DEF AcceptInv, TypeOK, LinksApart, HoldsApart, PacketsApart,
       Positions, Threads
  <2>3. ASSUME lstat = "normal" PROVE Orphans = {}
    <3>1. ASSUME NEW h \in Handles, link[h] = "fresh",
                 \A t \in Threads : hold[t] # h
          PROVE  \E p \in posted \cup ({failed} \ {None}) : accepted_link[p] = h
      BY <2>3, <3>1, TcpAcceptAssumption DEF AcceptInv, TypeOK, NoneForgotten,
         LinksApart, HoldsApart
    <3> QED
      BY <3>1 DEF Orphans
  <2> QED
    BY <2>1, <2>2, <2>3 DEF OneRequestEach
<1> QED
  BY <1>1, AcceptInvariant, PTL

-----------------------------------------------------------------------------
(* The retries end: every step of a call lowers StepsLeft.                 *)

\* The bound at each position ...
LEMMA StepsLeftAt ==
  ASSUME NEW t \in Threads
  PROVE  /\ pc[t] = "refused" => StepsLeft(t) = 1
         /\ pc[t] = "giveup" => StepsLeft(t) = 2
         /\ pc[t] = "accept" => StepsLeft(t) = 2 * (SynTimes - tries[t]) + 3
         /\ pc[t] = "object" => StepsLeft(t) = 2 * (SynTimes - tries[t]) + 4
         /\ pc[t] = "syn" => StepsLeft(t) = 2 * SynTimes + 5
         /\ pc[t] = "posted" =>
              StepsLeft(t) = IF t = "user" THEN 2 * SynTimes + 6 ELSE 1
         /\ pc[t] = "copy" => StepsLeft(t) = 2 * SynTimes + 7
         /\ pc[t] \in {"recv", "shutdown"} => StepsLeft(t) = 2 * SynTimes + 6
BY DEF StepsLeft

\* ... and at the next one.
LEMMA StepsLeftNext ==
  ASSUME NEW t \in Threads
  PROVE  /\ pc'[t] \in {"idle", "over"} => StepsLeft(t)' = 0
         /\ pc'[t] = "refused" => StepsLeft(t)' = 1
         /\ pc'[t] = "giveup" => StepsLeft(t)' = 2
         /\ pc'[t] = "accept" => StepsLeft(t)' = 2 * (SynTimes - tries'[t]) + 3
         /\ pc'[t] = "object" => StepsLeft(t)' = 2 * (SynTimes - tries'[t]) + 4
         /\ pc'[t] = "syn" => StepsLeft(t)' = 2 * SynTimes + 5
         /\ pc'[t] = "posted" =>
              StepsLeft(t)' = IF t = "user" THEN 2 * SynTimes + 6 ELSE 1
         /\ pc'[t] = "recv" => StepsLeft(t)' = 2 * SynTimes + 6
BY DEF StepsLeft

\* What a step may do to a thread inside a call.
Nearer(t) ==
  \/ pc'[t] = pc[t] /\ StepsLeft(t)' = StepsLeft(t)
  \/ StepsLeft(t)' \in Nat /\ StepsLeft(t)' < StepsLeft(t)
  \/ t = "user" /\ listened' \in (listened + 1)..Block

\* A thread that stays where it is has as many steps before it as it had.
LEMMA NearerOther ==
  ASSUME NEW t \in Threads, pc'[t] = pc[t], tries'[t] = tries[t]
  PROVE  Nearer(t)
<1>1. StepsLeft(t)' = StepsLeft(t)
  BY DEF StepsLeft
<1> QED
  BY <1>1 DEF Nearer

\* The steps of one thread leave the other one alone.
LEMMA NearerAlone ==
  ASSUME AcceptInv, NEW u \in Threads, NEW s, NEW n, Goto(u, s),
         tries' = tries \/ tries' = [tries EXCEPT ![u] = n],
         NEW t \in Threads, t # u
  PROVE  Nearer(t)
<1>1. pc'[t] = pc[t] /\ tries'[t] = tries[t]
  BY DEF AcceptInv, TypeOK, Goto
<1> QED
  BY <1>1, NearerOther

\* The steps of the thread itself, outside the loop of tcp_syn.
LEMMA NearerMove ==
  ASSUME AcceptInv, NEW t \in Threads, NEW s, Goto(t, s), tries' = tries,
         \/ pc[t] = "copy" /\ s \in {"recv", "syn"}
         \/ pc[t] = "recv" /\ s = "syn"
         \/ pc[t] = "shutdown" /\ s \in {"syn", "refused"}
         \/ pc[t] = "posted" /\ t = "user" /\ s \in {"syn", "over"}
         \/ pc[t] = "syn" /\ s \in {"object", "refused"}
         \/ pc[t] \in {"posted", "refused"} /\ s \in {"idle", "over"}
  PROVE  Nearer(t)
<1>1. pc'[t] = s
  BY DEF AcceptInv, TypeOK, Goto
<1>2. SynTimes \in Nat /\ tries[t] \in 0..(SynTimes + 1)
  BY TcpAcceptAssumption DEF AcceptInv, TypeOK
<1>3. pc[t] = "syn" => tries[t] <= SynTimes
  BY DEF AcceptInv, Positions
<1>4. tries'[t] = tries[t]
  OBVIOUS
<1>5. StepsLeft(t)' \in Nat /\ StepsLeft(t)' < StepsLeft(t)
  <2>1. CASE pc[t] = "syn" /\ s = "object"
    <3>1. StepsLeft(t) = 2 * SynTimes + 5
      BY <2>1, StepsLeftAt
    <3>2. StepsLeft(t)' = 2 * (SynTimes - tries[t]) + 4
      BY <1>1, <1>4, <2>1, StepsLeftNext
    <3>3. \A a \in Nat : \A b \in 0..(a + 1) : b <= a =>
            2 * (a - b) + 4 \in Nat /\ 2 * (a - b) + 4 < 2 * a + 5
      OBVIOUS
    <3> QED
      BY <1>2, <1>3, <2>1, <3>1, <3>2, <3>3
  <2>2. CASE ~ (pc[t] = "syn" /\ s = "object")
    BY <1>1, <1>2, <2>2, StepsLeftAt, StepsLeftNext
  <2> QED
    BY <2>1, <2>2
<1> QED
  BY <1>5 DEF Nearer

\* The turns of tcp_syn: each try uses up one of TCP_SYN_REQ_TIMES.
LEMMA NearerSyn ==
  ASSUME AcceptInv, NEW t \in Threads,
         SynObject(t) \/ SynNoObject(t) \/ SynRetry(t) \/ SynGiveUp(t)
  PROVE  Nearer(t)
<1>1. SynTimes \in Nat /\ tries[t] \in 0..(SynTimes + 1)
  BY TcpAcceptAssumption DEF AcceptInv, TypeOK
<1>2. pc[t] # "giveup" => tries[t] <= SynTimes
  BY DEF AcceptInv, Positions
<1>a. \A a \in Nat : \A b \in 0..(a + 1) : b <= a =>
        /\ 2 * (a - b) + 3 \in Nat
        /\ 2 * (a - b) + 3 < 2 * (a - b) + 4
        /\ 2 < 2 * (a - b) + 3 /\ 2 < 2 * (a - b) + 4
        /\ b < a => /\ 2 * (a - (b + 1)) + 4 \in Nat
                    /\ 2 * (a - (b + 1)) + 4 < 2 * (a - b) + 3
  OBVIOUS
<1>3. CASE SynObject(t)
  <2>1. pc[t] = "object" /\ pc'[t] = "accept" /\ tries'[t] = tries[t]
    BY <1>3 DEF AcceptInv, TypeOK, SynObject, Goto
  <2>2. /\ StepsLeft(t) = 2 * (SynTimes - tries[t]) + 4
        /\ StepsLeft(t)' = 2 * (SynTimes - tries[t]) + 3
    BY <2>1, StepsLeftAt, StepsLeftNext
  <2> QED
    BY <1>1, <1>2, <1>a, <2>1, <2>2 DEF Nearer
<1>4. CASE SynNoObject(t)
  <2>1. pc[t] = "object" /\ pc'[t] = "giveup"
    BY <1>4 DEF AcceptInv, TypeOK, SynNoObject, Goto
  <2>2. StepsLeft(t) = 2 * (SynTimes - tries[t]) + 4 /\ StepsLeft(t)' = 2
    BY <2>1, StepsLeftAt, StepsLeftNext
  <2> QED
    BY <1>1, <1>2, <1>a, <2>1, <2>2 DEF Nearer
<1>5. CASE SynRetry(t) /\ tries[t] < SynTimes
  <2>1. pc[t] = "accept" /\ pc'[t] = "object" /\ tries'[t] = tries[t] + 1
    BY <1>5 DEF AcceptInv, TypeOK, SynRetry, CloseAndTry, Goto
  <2>2. /\ StepsLeft(t) = 2 * (SynTimes - tries[t]) + 3
        /\ StepsLeft(t)' = 2 * (SynTimes - (tries[t] + 1)) + 4
    BY <2>1, StepsLeftAt, StepsLeftNext
  <2> QED
    BY <1>1, <1>2, <1>5, <1>a, <2>1, <2>2 DEF Nearer
<1>6. CASE SynRetry(t) /\ ~ (tries[t] < SynTimes)
  <2>1. pc[t] = "accept" /\ pc'[t] = "giveup"
    BY <1>6 DEF AcceptInv, TypeOK, SynRetry, CloseAndTry, Goto
  <2>2. StepsLeft(t) = 2 * (SynTimes - tries[t]) + 3 /\ StepsLeft(t)' = 2
    BY <2>1, StepsLeftAt, StepsLeftNext
  <2> QED
    BY <1>1, <1>2, <1>a, <2>1, <2>2 DEF Nearer
<1>7. CASE SynGiveUp(t)
  <2>1. pc[t] = "giveup" /\ pc'[t] = "refused"
    BY <1>7 DEF AcceptInv, TypeOK, SynGiveUp, Goto
  <2>2. StepsLeft(t) = 2 /\ StepsLeft(t)' = 1
    BY <2>1, StepsLeftAt, StepsLeftNext
  <2> QED
    BY <2>2 DEF Nearer
<1> QED
  BY <1>3, <1>4, <1>5, <1>6, <1>7

\* The posted request: the last step of the I/O thread but one, and one of the
\* `block' requests of tcp_listen.
LEMMA NearerPosted ==
  ASSUME AcceptInv, NEW t \in Threads, SynPosted(t)
  PROVE  Nearer(t)
<1>1. pc[t] = "accept" /\ pc'[t] = "posted"
  BY DEF AcceptInv, TypeOK, SynPosted, Goto
<1>2. CASE t = "user"
  <2>1. listened \in 0..Block /\ listened < Block /\ listened' = listened + 1
    BY <1>1, <1>2 DEF AcceptInv, TypeOK, Positions, SynPosted
  <2>2. listened' \in (listened + 1)..Block
    BY <2>1, TcpAcceptAssumption
  <2> QED
    BY <1>2, <2>2 DEF Nearer
<1>3. CASE t # "user"
  <2>1. SynTimes \in Nat /\ tries[t] \in 0..(SynTimes + 1) /\ tries[t] <= SynTimes
    BY <1>1, TcpAcceptAssumption DEF AcceptInv, TypeOK, Positions
  <2>2. StepsLeft(t) = 2 * (SynTimes - tries[t]) + 3 /\ StepsLeft(t)' = 1
    BY <1>1, <1>3, StepsLeftAt, StepsLeftNext
  <2>3. \A a \in Nat : \A b \in 0..(a + 1) : b <= a => 1 < 2 * (a - b) + 3
    OBVIOUS
  <2> QED
    BY <2>1, <2>2, <2>3 DEF Nearer
<1> QED
  BY <1>2, <1>3

\* Every step inside tcp_syn, for both threads.
LEMMA NearerStep ==
  ASSUME AcceptInv, NEW u \in Threads, Step(u), NEW t \in Threads
  PROVE  Nearer(t)
<1>1. CASE t # u
  <2>1. \E s : Goto(u, s)
    BY DEF Step, SynPacket, SynNoPacket, SynObject, SynNoObject, SynPosted,
       SynRetry, CloseAndTry, SynGiveUp
  <2>2. tries' = tries \/ \E n : tries' = [tries EXCEPT ![u] = n]
    BY DEF Step, SynPacket, SynNoPacket, SynObject, SynNoObject, SynPosted,
       SynRetry, SynGiveUp, locals
  <2> QED
    BY <1>1, <2>1, <2>2, NearerAlone
<1>2. CASE t = u
  <2>1. CASE SynPacket(t) \/ SynNoPacket(t)
    <3>1. /\ tries' = tries /\ pc[t] = "syn"
          /\ Goto(t, "object") \/ Goto(t, "refused")
      BY <2>1 DEF SynPacket, SynNoPacket, locals
    <3> QED
      BY <3>1, NearerMove
  <2> QED
    BY <1>2, <2>1, NearerSyn, NearerPosted DEF Step
<1> QED
  BY <1>1, <1>2

\* Every step, for every thread inside a call.
LEMMA NearerNext ==
  ASSUME AcceptInv, [Next]_vars, NEW t \in Threads, pc[t] \notin {"idle", "over"}
  PROVE  Nearer(t)
<1>a. "user" \in Threads /\ "io" \in Threads
  BY DEF Threads
<1>1. CASE tcp_listen \/ ListenMore \/ ListenReturn
  <2>1. tries' = tries
    BY <1>1 DEF tcp_listen, ListenMore, ListenReturn, locals
  <2>2. \/ pc["user"] = "idle" /\ Goto("user", "syn")
        \/ pc["user"] = "posted" /\ Goto("user", "syn")
        \/ pc["user"] \in {"posted", "refused"} /\ Goto("user", "over")
    BY <1>1 DEF tcp_listen, ListenMore, ListenReturn
  <2> QED
    BY <1>a, <2>1, <2>2, NearerAlone, NearerMove
<1>2. ASSUME NEW u \in Threads, Step(u) PROVE Nearer(t)
  BY <1>2, NearerStep
<1>3. ASSUME NEW p \in SynPackets,
             \/ Connected(p) \/ ConnectedNoEntry(p)
             \/ SynException(p) \/ ExceptionNoEntry(p)
      PROVE  Nearer(t)
  <2>1. pc["io"] = "idle" /\ tries' = tries
    BY <1>3 DEF Connected, ConnectedNoEntry, SynException, ExceptionNoEntry,
       locals
  <2>2. pc' = pc \/ \E s : Goto("io", s)
    BY <1>3 DEF Connected, ConnectedNoEntry, SynException, ExceptionNoEntry
  <2>3. CASE pc' = pc
    BY <2>1, <2>3, NearerOther
  <2>4. CASE \E s : Goto("io", s)
    BY <1>a, <2>1, <2>4, NearerAlone
  <2> QED
    BY <2>2, <2>3, <2>4
<1>4. CASE \/ SynCopied \/ SynNotCopied \/ SynRecv \/ SynReturn
           \/ ShutdownSyn \/ ShutdownReturn
  <2>1. tries' = tries
    BY <1>4 DEF SynCopied, SynNotCopied, NotCopied, SynRecv, SynReturn,
       ShutdownSyn, ShutdownReturn, locals
  <2>2. \/ pc["io"] = "copy" /\ (Goto("io", "recv") \/ Goto("io", "syn"))
        \/ pc["io"] = "recv" /\ Goto("io", "syn")
        \/ pc["io"] = "shutdown" /\ (Goto("io", "syn") \/ Goto("io", "refused"))
        \/ pc["io"] \in {"posted", "refused"} /\ Goto("io", "idle")
    BY <1>4 DEF SynCopied, SynNotCopied, NotCopied, SynRecv, SynReturn,
       ShutdownSyn, ShutdownReturn
  <2> QED
    BY <1>a, <2>1, <2>2, NearerAlone, NearerMove
<1>5. CASE DestroyListener \/ (\E h \in Handles : DestroyAccepted(h))
           \/ UNCHANGED vars
  <2>1. pc' = pc /\ tries' = tries
    BY <1>5 DEF DestroyListener, DestroyAccepted, locals, vars
  <2> QED
    BY <2>1, NearerOther
<1> QED
  BY <1>1, <1>2, <1>3, <1>4, <1>5 DEF Next

\* tcp_syn ends after TCP_SYN_REQ_TIMES retries, and every handler and
\* tcp_listen with it, for any number of requests and retries and whatever the
\* other thread, the program and the system do.  (That the steps are made is a
\* matter of fairness.)
THEOREM AcceptRetriesBounded == Spec => RetriesBounded
<1>1. AcceptInv /\ [Next]_vars =>
        [\A t \in Threads : pc[t] \notin {"idle", "over"} =>
           \/ pc'[t] = pc[t] /\ StepsLeft(t)' = StepsLeft(t)
           \/ StepsLeft(t)' \in Nat /\ StepsLeft(t)' < StepsLeft(t)
           \/ t = "user" /\ listened' \in (listened + 1)..Block]_vars
  BY NearerNext DEF Nearer
<1> QED
  BY <1>1, AcceptInvariant, PTL DEF Spec, RetriesBounded
=============================================================================
