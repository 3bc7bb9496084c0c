--------------------------- MODULE TcpSendProofs ---------------------------
(***************************************************************************)
(* Theorems about TcpSend, for any set of writers, any set of packets and  *)
(* any positive cache limit.  SendInv is the inductive invariant; each     *)
(* action of the specification preserves it by a lemma of its own.  OwnInv *)
(* adds where every packet is, and with both each step is shown to be one  *)
(* of SendChannel.                                                         *)
(***************************************************************************)
EXTENDS TcpSend, TLAPS, FiniteSetTheorems, SequenceTheorems

-----------------------------------------------------------------------------
(* Facts about the threads inside a call and the references they hold.     *)

\* The threads in a call on the link are finitely many, so their count is a
\* natural number.
LEMMA BusyFinite ==
  ASSUME TypeOK
  PROVE  /\ IsFiniteSet(Threads)
         /\ IsFiniteSet(Busy)
         /\ Cardinality(Busy) \in Nat
<1>1. IsFiniteSet(Threads)
  BY TcpSendAssumption, FS_Singleton, FS_Union DEF Threads
<1>2. Busy \subseteq Threads
  BY DEF Busy
<1> QED
  BY <1>1, <1>2, FS_Subset, FS_CardinalityType

\* A thread that enters a call (tcprefr, objreff) adds one to the count.
LEMMA EnterCall ==
  ASSUME TypeOK, NEW t \in Threads, NEW s \in Steps \ {"idle"},
         pc[t] = "idle", Goto(t, s), RefsCounted, refs' = refs + 1
  PROVE  RefsCounted'
<1>1. Busy' = Busy \cup {t} /\ t \notin Busy
  BY DEF TypeOK, Busy, Goto
<1> QED
  BY <1>1, BusyFinite, FS_AddElement DEF RefsCounted

\* A thread that leaves its call (objdefr) takes one off, and the count is
\* positive before.
LEMMA LeaveCall ==
  ASSUME TypeOK, NEW t \in Threads,
         pc[t] # "idle", Goto(t, "idle"), RefsCounted, refs' = refs - 1
  PROVE  /\ RefsCounted'
         /\ refs > 0
         /\ refs' \in Nat
         /\ refs = 1 => Busy = {t}
<1>1. Busy' = Busy \ {t} /\ t \in Busy
  BY DEF TypeOK, Busy, Goto
<1>2. IsFiniteSet(Busy') /\ Cardinality(Busy') \in Nat
  BY <1>1, BusyFinite, FS_RemoveElement, FS_CardinalityType
<1>3. Cardinality(Busy') = Cardinality(Busy) - 1
  BY <1>1, BusyFinite, FS_RemoveElement
<1>4. ASSUME refs = 1 PROVE Busy = {t}
  <2>1. Cardinality(Busy') = 0
    BY <1>2, <1>3, <1>4 DEF RefsCounted
  <2>2. Busy' = {}
    BY <2>1, <1>2, FS_EmptySet
  <2> QED
    BY <2>2, <1>1
<1> QED
  BY <1>2, <1>3, <1>4, BusyFinite DEF RefsCounted

\* A step inside a call, or outside any, keeps the count.
LEMMA StayInCall ==
  ASSUME TypeOK, NEW t \in Threads, NEW s \in Steps \ {"idle"},
         pc[t] # "idle", Goto(t, s), RefsCounted, UNCHANGED refs
  PROVE  RefsCounted'
<1>1. Busy' = Busy
  BY DEF TypeOK, Busy, Goto
<1> QED
  BY <1>1 DEF RefsCounted

\* Nobody is in a call when the reference count is zero.
LEMMA NoRefs ==
  ASSUME TypeOK, RefsCounted, refs = 0
  PROVE  \A t \in Threads : pc[t] = "idle"
<1>1. Busy = {}
  BY BusyFinite, FS_EmptySet DEF RefsCounted
<1> QED
  BY <1>1 DEF Busy

-----------------------------------------------------------------------------
(* One lemma per action.                                                   *)

\* A link that tcp_entry just set up satisfies the invariant.
LEMMA InitInv == Init => SendInv
<1> SUFFICES ASSUME Init PROVE SendInv
  OBVIOUS
<1>1. TypeOK
  BY TcpSendAssumption DEF Init, TypeOK, Threads, Steps
<1>2. RefsCounted
  <2>1. Busy = {}
    BY DEF Init, Busy
  <2> QED
    BY <2>1, FS_EmptySet DEF Init, RefsCounted
<1>3. LockHeld /\ Carried /\ CacheCounted
  BY TcpSendAssumption DEF Init, LockHeld, Carried, CacheCounted, Threads
<1>4. PendingCounted /\ OneTransmitter
  BY DEF Init, PendingCounted, Doubting, Transmitting, Transmitters,
     OneTransmitter
<1>5. NoLostWakeup /\ UnloadedIsQuiet
  BY DEF Init, NoLostWakeup, UnloadedIsQuiet
<1> QED
  BY <1>1, <1>2, <1>3, <1>4, <1>5 DEF SendInv



\* tcp_write keeps the invariant.
LEMMA Tcp_writeInv ==
  ASSUME NEW t \in Writers, SendInv, tcp_write(t)
  PROVE  SendInv'
<1> t \in Threads
  BY DEF Threads
<1>1. TypeOK'
  BY DEF SendInv, TypeOK, Steps, Carried, tcp_write, Goto, objrefr, objvars,
     listvars
<1>2. RefsCounted'
  BY EnterCall DEF SendInv, Steps, tcp_write, objrefr, objvars, listvars
<1>3. LockHeld'
  BY TcpSendAssumption DEF SendInv, TypeOK, LockHeld, Threads, tcp_write,
     Goto, objrefr, objvars, listvars
<1>4. Carried'
  BY TcpSendAssumption DEF SendInv, TypeOK, Carried, LockHeld, tcp_write,
     Goto, objrefr, objvars, listvars
<1>5. CacheCounted'
  BY DEF SendInv, TypeOK, CacheCounted, LockHeld, Carried, tcp_write, Goto,
     objrefr, objvars, listvars
<1>6. PendingCounted'
  BY DEF SendInv, TypeOK, PendingCounted, Doubting, Transmitting,
     Transmitters, LockHeld, tcp_write, Goto, objrefr, objvars, listvars
<1>7. OneTransmitter'
  BY DEF SendInv, TypeOK, PendingCounted, Doubting, Transmitting,
     Transmitters, OneTransmitter, tcp_write, Goto, objrefr, objvars, listvars
<1>8. NoLostWakeup'
  BY DEF SendInv, TypeOK, NoLostWakeup, PendingCounted, Doubting,
     Transmitting, Transmitters, LockHeld, tcp_write, Goto, objrefr, objvars,
     listvars
<1>9. UnloadedIsQuiet'
  BY DEF SendInv, TypeOK, UnloadedIsQuiet, tcp_write, Goto, objrefr, objvars,
     listvars
<1> QED
  BY <1>1, <1>2, <1>3, <1>4, <1>5, <1>6, <1>7, <1>8, <1>9 DEF SendInv

\* WriteRefused keeps the invariant.
LEMMA WriteRefusedInv ==
  ASSUME NEW t \in Threads, SendInv, WriteRefused(t)
  PROVE  SendInv'
<1>1. TypeOK'
  BY DEF SendInv, TypeOK, Steps, Carried, WriteRefused, Goto, objvars,
     listvars
<1>2. RefsCounted'
  BY StayInCall DEF SendInv, Steps, WriteRefused, objvars, listvars
<1>3. LockHeld'
  BY TcpSendAssumption DEF SendInv, TypeOK, LockHeld, Threads, WriteRefused,
     Goto, objvars, listvars
<1>4. Carried'
  BY DEF SendInv, TypeOK, Carried, LockHeld, WriteRefused, Goto, objvars,
     listvars
<1>5. CacheCounted'
  BY DEF SendInv, TypeOK, CacheCounted, LockHeld, Carried, WriteRefused, Goto,
     objvars, listvars
<1>6. PendingCounted'
  BY DEF SendInv, TypeOK, PendingCounted, Doubting, Transmitting,
     Transmitters, LockHeld, WriteRefused, Goto, objvars, listvars
<1>7. OneTransmitter'
  BY DEF SendInv, TypeOK, PendingCounted, Doubting, Transmitting,
     Transmitters, OneTransmitter, WriteRefused, Goto, objvars, listvars
<1>8. NoLostWakeup'
  BY DEF SendInv, TypeOK, NoLostWakeup, PendingCounted, Doubting,
     Transmitting, Transmitters, LockHeld, WriteRefused, Goto, objvars,
     listvars
<1>9. UnloadedIsQuiet'
  BY DEF SendInv, TypeOK, UnloadedIsQuiet, WriteRefused, Goto, objvars,
     listvars
<1> QED
  BY <1>1, <1>2, <1>3, <1>4, <1>5, <1>6, <1>7, <1>8, <1>9 DEF SendInv

\* WriteNotBuilt keeps the invariant.
LEMMA WriteNotBuiltInv ==
  ASSUME NEW t \in Threads, SendInv, WriteNotBuilt(t)
  PROVE  SendInv'
<1>1. TypeOK'
  BY DEF SendInv, TypeOK, Steps, Carried, WriteNotBuilt, Goto, objvars,
     listvars
<1>2. RefsCounted'
  BY StayInCall DEF SendInv, Steps, WriteNotBuilt, objvars, listvars
<1>3. LockHeld'
  BY TcpSendAssumption DEF SendInv, TypeOK, LockHeld, Threads, WriteNotBuilt,
     Goto, objvars, listvars
<1>4. Carried'
  BY DEF SendInv, TypeOK, Carried, LockHeld, WriteNotBuilt, Goto, objvars,
     listvars
<1>5. CacheCounted'
  BY DEF SendInv, TypeOK, CacheCounted, LockHeld, Carried, WriteNotBuilt,
     Goto, objvars, listvars
<1>6. PendingCounted'
  BY DEF SendInv, TypeOK, PendingCounted, Doubting, Transmitting,
     Transmitters, LockHeld, WriteNotBuilt, Goto, objvars, listvars
<1>7. OneTransmitter'
  BY DEF SendInv, TypeOK, PendingCounted, Doubting, Transmitting,
     Transmitters, OneTransmitter, WriteNotBuilt, Goto, objvars, listvars
<1>8. NoLostWakeup'
  BY DEF SendInv, TypeOK, NoLostWakeup, PendingCounted, Doubting,
     Transmitting, Transmitters, LockHeld, WriteNotBuilt, Goto, objvars,
     listvars
<1>9. UnloadedIsQuiet'
  BY DEF SendInv, TypeOK, UnloadedIsQuiet, WriteNotBuilt, Goto, objvars,
     listvars
<1> QED
  BY <1>1, <1>2, <1>3, <1>4, <1>5, <1>6, <1>7, <1>8, <1>9 DEF SendInv

\* WriteBuilt keeps the invariant.
LEMMA WriteBuiltInv ==
  ASSUME NEW t \in Threads, SendInv, WriteBuilt(t)
  PROVE  SendInv'
<1>1. TypeOK'
  BY DEF SendInv, TypeOK, Steps, Carried, WriteBuilt, Goto, objvars, listvars
<1>2. RefsCounted'
  BY StayInCall DEF SendInv, Steps, WriteBuilt, objvars, listvars
<1>3. LockHeld'
  BY TcpSendAssumption DEF SendInv, TypeOK, LockHeld, Threads, WriteBuilt,
     Goto, objvars, listvars
<1>4. Carried'
  BY DEF SendInv, TypeOK, Carried, LockHeld, WriteBuilt, Goto, objvars,
     listvars
<1>5. CacheCounted'
  BY DEF SendInv, TypeOK, CacheCounted, LockHeld, Carried, WriteBuilt, Goto,
     objvars, listvars
<1>6. PendingCounted'
  BY DEF SendInv, TypeOK, PendingCounted, Doubting, Transmitting,
     Transmitters, LockHeld, WriteBuilt, Goto, objvars, listvars
<1>7. OneTransmitter'
  BY DEF SendInv, TypeOK, PendingCounted, Doubting, Transmitting,
     Transmitters, OneTransmitter, WriteBuilt, Goto, objvars, listvars
<1>8. NoLostWakeup'
  BY DEF SendInv, TypeOK, NoLostWakeup, PendingCounted, Doubting,
     Transmitting, Transmitters, LockHeld, WriteBuilt, Goto, objvars, listvars
<1>9. UnloadedIsQuiet'
  BY DEF SendInv, TypeOK, UnloadedIsQuiet, WriteBuilt, Goto, objvars, listvars
<1> QED
  BY <1>1, <1>2, <1>3, <1>4, <1>5, <1>6, <1>7, <1>8, <1>9 DEF SendInv

\* EnterLock keeps the invariant.
LEMMA EnterLockInv ==
  ASSUME NEW t \in Threads, SendInv, EnterLock(t)
  PROVE  SendInv'
<1>1. TypeOK'
  BY DEF SendInv, TypeOK, Steps, Carried, EnterLock, Goto, objvars, listvars
<1>2. RefsCounted'
  BY StayInCall DEF SendInv, Steps, EnterLock, objvars, listvars
<1>3. LockHeld'
  BY TcpSendAssumption DEF SendInv, TypeOK, LockHeld, Threads, EnterLock,
     Goto, objvars, listvars
<1>4. Carried'
  BY DEF SendInv, TypeOK, Carried, LockHeld, EnterLock, Goto, objvars,
     listvars
<1>5. CacheCounted'
  BY DEF SendInv, TypeOK, CacheCounted, LockHeld, Carried, EnterLock, Goto,
     objvars, listvars
<1>6. PendingCounted'
  BY DEF SendInv, TypeOK, PendingCounted, Doubting, Transmitting,
     Transmitters, LockHeld, EnterLock, Goto, objvars, listvars
<1>7. OneTransmitter'
  BY DEF SendInv, TypeOK, PendingCounted, Doubting, Transmitting,
     Transmitters, OneTransmitter, EnterLock, Goto, objvars, listvars
<1>8. NoLostWakeup'
  BY DEF SendInv, TypeOK, NoLostWakeup, PendingCounted, Doubting,
     Transmitting, Transmitters, LockHeld, EnterLock, Goto, objvars, listvars
<1>9. UnloadedIsQuiet'
  BY DEF SendInv, TypeOK, UnloadedIsQuiet, EnterLock, Goto, objvars, listvars
<1> QED
  BY <1>1, <1>2, <1>3, <1>4, <1>5, <1>6, <1>7, <1>8, <1>9 DEF SendInv

\* AddTail keeps the invariant.
LEMMA AddTailInv ==
  ASSUME NEW t \in Threads, SendInv, AddTail(t)
  PROVE  SendInv'
<1>0. queue' # <<>>
  BY DEF SendInv, TypeOK, Carried, AddTail
<1>1. TypeOK'
  BY DEF SendInv, TypeOK, Steps, Carried, AddTail, Goto, objvars, listvars
<1>2. RefsCounted'
  BY StayInCall DEF SendInv, Steps, AddTail, objvars, listvars
<1>3. LockHeld'
  BY TcpSendAssumption DEF SendInv, TypeOK, LockHeld, Threads, AddTail, Goto,
     objvars, listvars
<1>4. Carried'
  BY <1>0 DEF SendInv, TypeOK, Carried, LockHeld, AddTail, Goto, objvars,
     listvars
<1>5. CacheCounted'
  BY DEF SendInv, TypeOK, CacheCounted, LockHeld, Carried, AddTail, Goto,
     objvars, listvars
<1>6. PendingCounted'
  BY DEF SendInv, TypeOK, PendingCounted, Doubting, Transmitting,
     Transmitters, LockHeld, AddTail, Goto, objvars, listvars
<1>7. OneTransmitter'
  BY DEF SendInv, TypeOK, PendingCounted, Doubting, Transmitting,
     Transmitters, OneTransmitter, AddTail, Goto, objvars, listvars
<1>8. NoLostWakeup'
  BY DEF SendInv, TypeOK, NoLostWakeup, PendingCounted, Doubting,
     Transmitting, Transmitters, LockHeld, AddTail, Goto, objvars, listvars
<1>9. UnloadedIsQuiet'
  BY DEF SendInv, TypeOK, UnloadedIsQuiet, AddTail, Goto, objvars, listvars
<1> QED
  BY <1>1, <1>2, <1>3, <1>4, <1>5, <1>6, <1>7, <1>8, <1>9 DEF SendInv

\* Overflow keeps the invariant.
LEMMA OverflowInv ==
  ASSUME NEW t \in Threads, SendInv, Overflow(t)
  PROVE  SendInv'
<1>1. TypeOK'
  BY DEF SendInv, TypeOK, Steps, Carried, Overflow, Goto, objvars, listvars
<1>2. RefsCounted'
  BY StayInCall DEF SendInv, Steps, Overflow, objvars, listvars
<1>3. LockHeld'
  BY TcpSendAssumption DEF SendInv, TypeOK, LockHeld, Threads, Overflow, Goto,
     objvars, listvars
<1>4. Carried'
  BY DEF SendInv, TypeOK, Carried, LockHeld, Overflow, Goto, objvars, listvars
<1>5. CacheCounted'
  BY DEF SendInv, TypeOK, CacheCounted, LockHeld, Carried, Overflow, Goto,
     objvars, listvars
<1>6. PendingCounted'
  BY DEF SendInv, TypeOK, PendingCounted, Doubting, Transmitting,
     Transmitters, LockHeld, Overflow, Goto, objvars, listvars
<1>7. OneTransmitter'
  BY DEF SendInv, TypeOK, PendingCounted, Doubting, Transmitting,
     Transmitters, OneTransmitter, Overflow, Goto, objvars, listvars
<1>8. NoLostWakeup'
  BY DEF SendInv, TypeOK, NoLostWakeup, PendingCounted, Doubting,
     Transmitting, Transmitters, LockHeld, Overflow, Goto, objvars, listvars
<1>9. UnloadedIsQuiet'
  BY DEF SendInv, TypeOK, UnloadedIsQuiet, Overflow, Goto, objvars, listvars
<1> QED
  BY <1>1, <1>2, <1>3, <1>4, <1>5, <1>6, <1>7, <1>8, <1>9 DEF SendInv

\* UndoOverflow keeps the invariant.
LEMMA UndoOverflowInv ==
  ASSUME NEW t \in Threads, SendInv, UndoOverflow(t)
  PROVE  SendInv'
<1>0. list_size - 1 \in Nat
  <2>1. list_size = Len(queue) + 1 /\ Len(queue) \in Nat
    BY LenProperties DEF SendInv, TypeOK, CacheCounted, UndoOverflow
  <2> QED
    BY <2>1
<1>1. TypeOK'
  BY <1>0 DEF SendInv, TypeOK, Steps, Carried, UndoOverflow, Goto, objvars,
     listvars
<1>2. RefsCounted'
  BY StayInCall DEF SendInv, Steps, UndoOverflow, objvars, listvars
<1>3. LockHeld'
  BY TcpSendAssumption DEF SendInv, TypeOK, LockHeld, Threads, UndoOverflow,
     Goto, objvars, listvars
<1>4. Carried'
  BY DEF SendInv, TypeOK, Carried, LockHeld, UndoOverflow, Goto, objvars,
     listvars
<1>5. CacheCounted'
  BY DEF SendInv, TypeOK, CacheCounted, LockHeld, Carried, UndoOverflow, Goto,
     objvars, listvars
<1>6. PendingCounted'
  BY DEF SendInv, TypeOK, PendingCounted, Doubting, Transmitting,
     Transmitters, LockHeld, UndoOverflow, Goto, objvars, listvars
<1>7. OneTransmitter'
  BY DEF SendInv, TypeOK, PendingCounted, Doubting, Transmitting,
     Transmitters, OneTransmitter, UndoOverflow, Goto, objvars, listvars
<1>8. NoLostWakeup'
  BY DEF SendInv, TypeOK, NoLostWakeup, PendingCounted, Doubting,
     Transmitting, Transmitters, LockHeld, UndoOverflow, Goto, objvars,
     listvars
<1>9. UnloadedIsQuiet'
  BY DEF SendInv, TypeOK, UnloadedIsQuiet, UndoOverflow, Goto, objvars,
     listvars
<1> QED
  BY <1>1, <1>2, <1>3, <1>4, <1>5, <1>6, <1>7, <1>8, <1>9 DEF SendInv

\* NothingCached keeps the invariant.
LEMMA NothingCachedInv ==
  ASSUME SendInv, NothingCached
  PROVE  SendInv'
<1> IO \in Threads
  BY DEF Threads
<1>1. TypeOK'
  BY DEF SendInv, TypeOK, Steps, Carried, NothingCached, Goto, objvars,
     listvars
<1>2. RefsCounted'
  BY StayInCall DEF SendInv, Steps, NothingCached, objvars, listvars
<1>3. LockHeld'
  BY TcpSendAssumption DEF SendInv, TypeOK, LockHeld, Threads, NothingCached,
     Goto, objvars, listvars
<1>4. Carried'
  BY DEF SendInv, TypeOK, Carried, LockHeld, NothingCached, Goto, objvars,
     listvars
<1>5. CacheCounted'
  BY DEF SendInv, TypeOK, CacheCounted, LockHeld, Carried, NothingCached,
     Goto, objvars, listvars
<1>6. PendingCounted'
  BY DEF SendInv, TypeOK, PendingCounted, Doubting, Transmitting,
     Transmitters, LockHeld, NothingCached, Goto, objvars, listvars
<1>7. OneTransmitter'
  BY DEF SendInv, TypeOK, PendingCounted, Doubting, Transmitting,
     Transmitters, OneTransmitter, NothingCached, Goto, objvars, listvars
<1>8. NoLostWakeup'
  BY DEF SendInv, TypeOK, NoLostWakeup, PendingCounted, Doubting,
     Transmitting, Transmitters, LockHeld, NothingCached, Goto, objvars,
     listvars
<1>9. UnloadedIsQuiet'
  BY DEF SendInv, TypeOK, UnloadedIsQuiet, NothingCached, Goto, objvars,
     listvars
<1> QED
  BY <1>1, <1>2, <1>3, <1>4, <1>5, <1>6, <1>7, <1>8, <1>9 DEF SendInv

\* SomethingCached keeps the invariant.
LEMMA SomethingCachedInv ==
  ASSUME SendInv, SomethingCached
  PROVE  SendInv'
<1> IO \in Threads
  BY DEF Threads
<1>1. TypeOK'
  BY DEF SendInv, TypeOK, Steps, Carried, SomethingCached, Goto, objvars,
     listvars
<1>2. RefsCounted'
  BY StayInCall DEF SendInv, Steps, SomethingCached, objvars, listvars
<1>3. LockHeld'
  BY TcpSendAssumption DEF SendInv, TypeOK, LockHeld, Threads,
     SomethingCached, Goto, objvars, listvars
<1>4. Carried'
  BY DEF SendInv, TypeOK, Carried, LockHeld, SomethingCached, Goto, objvars,
     listvars
<1>5. CacheCounted'
  BY DEF SendInv, TypeOK, CacheCounted, LockHeld, Carried, SomethingCached,
     Goto, objvars, listvars
<1>6. PendingCounted'
  BY DEF SendInv, TypeOK, PendingCounted, Doubting, Transmitting,
     Transmitters, LockHeld, SomethingCached, Goto, objvars, listvars
<1>7. OneTransmitter'
  BY DEF SendInv, TypeOK, PendingCounted, Doubting, Transmitting,
     Transmitters, OneTransmitter, SomethingCached, Goto, objvars, listvars
<1>8. NoLostWakeup'
  BY DEF SendInv, TypeOK, NoLostWakeup, PendingCounted, Doubting,
     Transmitting, Transmitters, LockHeld, SomethingCached, Goto, objvars,
     listvars
<1>9. UnloadedIsQuiet'
  BY DEF SendInv, TypeOK, UnloadedIsQuiet, SomethingCached, Goto, objvars,
     listvars
<1> QED
  BY <1>1, <1>2, <1>3, <1>4, <1>5, <1>6, <1>7, <1>8, <1>9 DEF SendInv

\* IncPending keeps the invariant.
LEMMA IncPendingInv ==
  ASSUME NEW t \in Threads, SendInv, IncPending(t)
  PROVE  SendInv'
<1>1. TypeOK'
  BY DEF SendInv, TypeOK, Steps, Carried, IncPending, Goto, objvars, listvars
<1>2. RefsCounted'
  BY StayInCall DEF SendInv, Steps, IncPending, objvars, listvars
<1>3. LockHeld'
  BY TcpSendAssumption DEF SendInv, TypeOK, LockHeld, Threads, IncPending,
     Goto, objvars, listvars
<1>4. Carried'
  BY DEF SendInv, TypeOK, Carried, LockHeld, IncPending, Goto, objvars,
     listvars
<1>5. CacheCounted'
  BY DEF SendInv, TypeOK, CacheCounted, LockHeld, Carried, IncPending, Goto,
     objvars, listvars
<1>6. PendingCounted'
  BY DEF SendInv, TypeOK, PendingCounted, Doubting, Transmitting,
     Transmitters, LockHeld, IncPending, Goto, objvars, listvars
<1>7. OneTransmitter'
  BY DEF SendInv, TypeOK, PendingCounted, Doubting, Transmitting,
     Transmitters, OneTransmitter, IncPending, Goto, objvars, listvars
<1>8. NoLostWakeup'
  BY DEF SendInv, TypeOK, NoLostWakeup, PendingCounted, Doubting,
     Transmitting, Transmitters, LockHeld, IncPending, Goto, objvars, listvars
<1>9. UnloadedIsQuiet'
  BY DEF SendInv, TypeOK, UnloadedIsQuiet, IncPending, Goto, objvars, listvars
<1> QED
  BY <1>1, <1>2, <1>3, <1>4, <1>5, <1>6, <1>7, <1>8, <1>9 DEF SendInv

\* DecPending keeps the invariant.
LEMMA DecPendingInv ==
  ASSUME NEW t \in Threads, SendInv, DecPending(t)
  PROVE  SendInv'
<1>0. pending \in {1, 2}
  BY DEF SendInv, PendingCounted, Doubting, DecPending
<1>1. TypeOK'
  <2>1. TypeOK
    BY DEF SendInv
  <2>2. UNCHANGED <<stat, refs, sockfd, queue, list_size, packet, next_packet,
                    inflight, heap, accepted, wire>>
    BY DEF DecPending, objvars, listvars
  <2>3. pending' \in Nat /\ locker' \in Threads \cup {NoThread}
    BY <1>0, <2>1 DEF DecPending, TypeOK
  <2>4. pc' = [pc EXCEPT ![t] = "exit"] \/ pc' = [pc EXCEPT ![t] = "inc"]
    BY DEF DecPending, Goto
  <2>5. pc' \in [Threads -> Steps]
    BY <2>1, <2>4 DEF TypeOK, Steps
  <2> QED
    BY <2>1, <2>2, <2>3, <2>5 DEF TypeOK
<1>2. RefsCounted'
  BY StayInCall DEF SendInv, Steps, DecPending, objvars, listvars
<1>3. LockHeld'
  BY TcpSendAssumption DEF SendInv, TypeOK, LockHeld, Threads, DecPending,
     Goto, objvars, listvars
<1>4. Carried'
  BY DEF SendInv, TypeOK, Carried, LockHeld, DecPending, Goto, objvars,
     listvars
<1>5. CacheCounted'
  BY DEF SendInv, TypeOK, CacheCounted, LockHeld, Carried, DecPending, Goto,
     objvars, listvars
<1>6. PendingCounted'
  BY <1>0 DEF SendInv, TypeOK, PendingCounted, Doubting, Transmitting,
     Transmitters, LockHeld, DecPending, Goto, objvars, listvars
<1>7. OneTransmitter'
  <2>1. pc \in [Threads -> Steps] /\ OneTransmitter
    BY DEF SendInv, TypeOK
  <2>2. pc' = [pc EXCEPT ![t] = "exit"] \/ pc' = [pc EXCEPT ![t] = "inc"]
    BY DEF DecPending, Goto
  <2>3. pc[t] = "dec" /\ inflight' = inflight
    BY DEF DecPending
  <2>4. Transmitters' = Transmitters
    BY <2>1, <2>2, <2>3 DEF Transmitters
  <2> QED
    BY <2>1, <2>3, <2>4 DEF OneTransmitter
<1>8. NoLostWakeup'
  BY DEF SendInv, TypeOK, NoLostWakeup, PendingCounted, Doubting,
     Transmitting, Transmitters, LockHeld, DecPending, Goto, objvars, listvars
<1>9. UnloadedIsQuiet'
  BY DEF SendInv, TypeOK, UnloadedIsQuiet, DecPending, Goto, objvars, listvars
<1> QED
  BY <1>1, <1>2, <1>3, <1>4, <1>5, <1>6, <1>7, <1>8, <1>9 DEF SendInv

\* PopHead keeps the invariant.
LEMMA PopHeadInv ==
  ASSUME NEW t \in Threads, SendInv, PopHead(t)
  PROVE  SendInv'
<1>0. /\ Head(queue) \in Packets
      /\ Tail(queue) \in Seq(Packets)
      /\ Len(queue) \in Nat \ {0}
      /\ Len(Tail(queue)) = Len(queue) - 1
      /\ list_size = Len(queue)
      /\ \A u \in Threads : pc[u] # "undo"
  <2>1. queue # <<>> /\ queue \in Seq(Packets)
    BY DEF SendInv, TypeOK, Carried, PopHead
  <2>2. \A u \in Threads : pc[u] # "undo"
    BY DEF SendInv, LockHeld, PopHead
  <2> QED
    BY <2>1, <2>2, HeadTailProperties, LenProperties, EmptySeq
       DEF SendInv, CacheCounted
<1>1. TypeOK'
  BY <1>0 DEF SendInv, TypeOK, Steps, Carried, PopHead, Goto, objvars,
     listvars
<1>2. RefsCounted'
  BY StayInCall DEF SendInv, Steps, PopHead, objvars, listvars
<1>3. LockHeld'
  BY TcpSendAssumption DEF SendInv, TypeOK, LockHeld, Threads, PopHead, Goto,
     objvars, listvars
<1>4. Carried'
  BY DEF SendInv, TypeOK, Carried, LockHeld, PopHead, Goto, objvars, listvars
<1>5. CacheCounted'
  <2>1. \A u \in Threads : pc'[u] # "undo"
    BY <1>0 DEF SendInv, TypeOK, PopHead, Goto
  <2>2. list_size' = Len(queue') /\ Len(queue') \in Nat /\ Len(queue') < CacheLimit
    <3>1. queue' = Tail(queue) /\ list_size' = list_size - 1
      BY DEF PopHead
    <3>2. Len(queue) < CacheLimit
      BY DEF SendInv, CacheCounted
    <3> QED
      BY <3>1, <3>2, <1>0, TcpSendAssumption
  <2> QED
    BY <2>1, <2>2 DEF CacheCounted
<1>6. PendingCounted'
  BY DEF SendInv, TypeOK, PendingCounted, Doubting, Transmitting,
     Transmitters, LockHeld, PopHead, Goto, objvars, listvars
<1>7. OneTransmitter'
  BY DEF SendInv, TypeOK, PendingCounted, Doubting, Transmitting,
     Transmitters, OneTransmitter, PopHead, Goto, objvars, listvars
<1>8. NoLostWakeup'
  BY DEF SendInv, TypeOK, NoLostWakeup, PendingCounted, Doubting,
     Transmitting, Transmitters, LockHeld, PopHead, Goto, objvars, listvars
<1>9. UnloadedIsQuiet'
  BY DEF SendInv, TypeOK, UnloadedIsQuiet, PopHead, Goto, objvars, listvars
<1> QED
  BY <1>1, <1>2, <1>3, <1>4, <1>5, <1>6, <1>7, <1>8, <1>9 DEF SendInv

\* SendReferenced keeps the invariant.
LEMMA SendReferencedInv ==
  ASSUME NEW t \in Threads, SendInv, SendReferenced(t)
  PROVE  SendInv'
<1>1. TypeOK'
  BY DEF SendInv, TypeOK, Steps, Carried, SendReferenced, Goto, objvars,
     listvars
<1>2. RefsCounted'
  BY StayInCall DEF SendInv, Steps, SendReferenced, objvars, listvars
<1>3. LockHeld'
  BY TcpSendAssumption DEF SendInv, TypeOK, LockHeld, Threads, SendReferenced,
     Goto, objvars, listvars
<1>4. Carried'
  BY DEF SendInv, TypeOK, Carried, LockHeld, SendReferenced, Goto, objvars,
     listvars
<1>5. CacheCounted'
  BY DEF SendInv, TypeOK, CacheCounted, LockHeld, Carried, SendReferenced,
     Goto, objvars, listvars
<1>6. PendingCounted'
  BY DEF SendInv, TypeOK, PendingCounted, Doubting, Transmitting,
     Transmitters, LockHeld, SendReferenced, Goto, objvars, listvars
<1>7. OneTransmitter'
  BY DEF SendInv, TypeOK, PendingCounted, Doubting, Transmitting,
     Transmitters, OneTransmitter, SendReferenced, Goto, objvars, listvars
<1>8. NoLostWakeup'
  BY DEF SendInv, TypeOK, NoLostWakeup, PendingCounted, Doubting,
     Transmitting, Transmitters, LockHeld, SendReferenced, Goto, objvars,
     listvars
<1>9. UnloadedIsQuiet'
  BY DEF SendInv, TypeOK, UnloadedIsQuiet, SendReferenced, Goto, objvars,
     listvars
<1> QED
  BY <1>1, <1>2, <1>3, <1>4, <1>5, <1>6, <1>7, <1>8, <1>9 DEF SendInv

\* SendPosted keeps the invariant.
LEMMA SendPostedInv ==
  ASSUME NEW t \in Threads, SendInv, SendPosted(t)
  PROVE  SendInv'
<1>1. TypeOK'
  BY DEF SendInv, TypeOK, Steps, Carried, SendPosted, Goto, objvars, listvars
<1>2. RefsCounted'
  BY StayInCall DEF SendInv, Steps, SendPosted, objvars, listvars
<1>3. LockHeld'
  BY TcpSendAssumption DEF SendInv, TypeOK, LockHeld, Threads, SendPosted,
     Goto, objvars, listvars
<1>4. Carried'
  BY DEF SendInv, TypeOK, Carried, LockHeld, SendPosted, Goto, objvars,
     listvars
<1>5. CacheCounted'
  BY DEF SendInv, TypeOK, CacheCounted, LockHeld, Carried, SendPosted, Goto,
     objvars, listvars
<1>6. PendingCounted'
  BY DEF SendInv, TypeOK, PendingCounted, Doubting, Transmitting,
     Transmitters, LockHeld, SendPosted, Goto, objvars, listvars
<1>7. OneTransmitter'
  BY DEF SendInv, TypeOK, PendingCounted, Doubting, Transmitting,
     Transmitters, OneTransmitter, SendPosted, Goto, objvars, listvars
<1>8. NoLostWakeup'
  BY DEF SendInv, TypeOK, NoLostWakeup, PendingCounted, Doubting,
     Transmitting, Transmitters, LockHeld, SendPosted, Goto, objvars, listvars
<1>9. UnloadedIsQuiet'
  BY DEF SendInv, TypeOK, UnloadedIsQuiet, SendPosted, Goto, objvars, listvars
<1> QED
  BY <1>1, <1>2, <1>3, <1>4, <1>5, <1>6, <1>7, <1>8, <1>9 DEF SendInv

\* SendFailed keeps the invariant.
LEMMA SendFailedInv ==
  ASSUME NEW t \in Threads, SendInv, SendFailed(t)
  PROVE  SendInv'
<1>1. TypeOK'
  BY DEF SendInv, TypeOK, Steps, Carried, SendFailed, Goto, objvars, listvars,
     freepkt
<1>2. RefsCounted'
  BY StayInCall DEF SendInv, Steps, SendFailed, objvars, listvars, freepkt
<1>3. LockHeld'
  BY TcpSendAssumption DEF SendInv, TypeOK, LockHeld, Threads, SendFailed,
     Goto, objvars, listvars, freepkt
<1>4. Carried'
  BY DEF SendInv, TypeOK, Carried, LockHeld, SendFailed, Goto, objvars,
     listvars, freepkt
<1>5. CacheCounted'
  BY DEF SendInv, TypeOK, CacheCounted, LockHeld, Carried, SendFailed, Goto,
     objvars, listvars, freepkt
<1>6. PendingCounted'
  BY DEF SendInv, TypeOK, PendingCounted, Doubting, Transmitting,
     Transmitters, LockHeld, SendFailed, Goto, objvars, listvars, freepkt
<1>7. OneTransmitter'
  BY DEF SendInv, TypeOK, PendingCounted, Doubting, Transmitting,
     Transmitters, OneTransmitter, SendFailed, Goto, objvars, listvars,
     freepkt
<1>8. NoLostWakeup'
  BY DEF SendInv, TypeOK, NoLostWakeup, PendingCounted, Doubting,
     Transmitting, Transmitters, LockHeld, SendFailed, Goto, objvars,
     listvars, freepkt
<1>9. UnloadedIsQuiet'
  BY DEF SendInv, TypeOK, UnloadedIsQuiet, SendFailed, Goto, objvars,
     listvars, freepkt
<1> QED
  BY <1>1, <1>2, <1>3, <1>4, <1>5, <1>6, <1>7, <1>8, <1>9 DEF SendInv

\* ReleasePending keeps the invariant.
LEMMA ReleasePendingInv ==
  ASSUME SendInv, ReleasePending
  PROVE  SendInv'
<1> IO \in Threads
  BY DEF Threads
<1>0. pending \in {1, 2}
  BY DEF SendInv, PendingCounted, Transmitting, Transmitters, ReleasePending
<1>1. TypeOK'
  BY <1>0 DEF SendInv, TypeOK, Steps, Carried, ReleasePending, Goto, objvars,
     listvars
<1>2. RefsCounted'
  BY StayInCall DEF SendInv, Steps, ReleasePending, objvars, listvars
<1>3. LockHeld'
  BY TcpSendAssumption DEF SendInv, TypeOK, LockHeld, Threads, ReleasePending,
     Goto, objvars, listvars
<1>4. Carried'
  BY DEF SendInv, TypeOK, Carried, LockHeld, ReleasePending, Goto, objvars,
     listvars
<1>5. CacheCounted'
  BY DEF SendInv, TypeOK, CacheCounted, LockHeld, Carried, ReleasePending,
     Goto, objvars, listvars
<1>6. PendingCounted'
  BY <1>0 DEF SendInv, TypeOK, PendingCounted, Doubting, Transmitting,
     Transmitters, LockHeld, OneTransmitter, ReleasePending, Goto, objvars,
     listvars
<1>7. OneTransmitter'
  BY DEF SendInv, TypeOK, PendingCounted, Doubting, Transmitting,
     Transmitters, OneTransmitter, ReleasePending, Goto, objvars, listvars
<1>8. NoLostWakeup'
  BY DEF SendInv, TypeOK, NoLostWakeup, PendingCounted, Doubting,
     Transmitting, Transmitters, LockHeld, ReleasePending, Goto, objvars,
     listvars
<1>9. UnloadedIsQuiet'
  BY DEF SendInv, TypeOK, UnloadedIsQuiet, ReleasePending, Goto, objvars,
     listvars
<1> QED
  BY <1>1, <1>2, <1>3, <1>4, <1>5, <1>6, <1>7, <1>8, <1>9 DEF SendInv

\* ReleaseFailed keeps the invariant.
LEMMA ReleaseFailedInv ==
  ASSUME SendInv, ReleaseFailed
  PROVE  SendInv'
<1> IO \in Threads
  BY DEF Threads
<1>0. pending \in {1, 2}
  BY DEF SendInv, PendingCounted, Transmitting, Transmitters, ReleaseFailed
<1>1. TypeOK'
  BY <1>0 DEF SendInv, TypeOK, Steps, Carried, ReleaseFailed, Goto, objvars,
     listvars, freepkt
<1>2. RefsCounted'
  BY StayInCall DEF SendInv, Steps, ReleaseFailed, objvars, listvars, freepkt
<1>3. LockHeld'
  BY TcpSendAssumption DEF SendInv, TypeOK, LockHeld, Threads, ReleaseFailed,
     Goto, objvars, listvars, freepkt
<1>4. Carried'
  BY DEF SendInv, TypeOK, Carried, LockHeld, ReleaseFailed, Goto, objvars,
     listvars, freepkt
<1>5. CacheCounted'
  BY DEF SendInv, TypeOK, CacheCounted, LockHeld, Carried, ReleaseFailed,
     Goto, objvars, listvars, freepkt
<1>6. PendingCounted'
  BY <1>0 DEF SendInv, TypeOK, PendingCounted, Doubting, Transmitting,
     Transmitters, LockHeld, OneTransmitter, ReleaseFailed, Goto, objvars,
     listvars, freepkt
<1>7. OneTransmitter'
  BY DEF SendInv, TypeOK, PendingCounted, Doubting, Transmitting,
     Transmitters, OneTransmitter, ReleaseFailed, Goto, objvars, listvars,
     freepkt
<1>8. NoLostWakeup'
  BY DEF SendInv, TypeOK, NoLostWakeup, PendingCounted, Doubting,
     Transmitting, Transmitters, LockHeld, ReleaseFailed, Goto, objvars,
     listvars, freepkt
<1>9. UnloadedIsQuiet'
  BY DEF SendInv, TypeOK, UnloadedIsQuiet, ReleaseFailed, Goto, objvars,
     listvars, freepkt
<1> QED
  BY <1>1, <1>2, <1>3, <1>4, <1>5, <1>6, <1>7, <1>8, <1>9 DEF SendInv

\* tcp_destroy keeps the invariant.
LEMMA Tcp_destroyInv ==
  ASSUME NEW t \in Writers, SendInv, tcp_destroy(t)
  PROVE  SendInv'
<1> t \in Threads
  BY DEF Threads
<1>1. TypeOK'
  BY DEF SendInv, TypeOK, Steps, Carried, tcp_destroy, Goto, objvars, listvars
<1>2. RefsCounted'
  BY EnterCall DEF SendInv, Steps, tcp_destroy, objvars, listvars
<1>3. LockHeld'
  BY TcpSendAssumption DEF SendInv, TypeOK, LockHeld, Threads, tcp_destroy,
     Goto, objvars, listvars
<1>4. Carried'
  BY TcpSendAssumption DEF SendInv, TypeOK, Carried, LockHeld, tcp_destroy,
     Goto, objvars, listvars
<1>5. CacheCounted'
  BY DEF SendInv, TypeOK, CacheCounted, LockHeld, Carried, tcp_destroy, Goto,
     objvars, listvars
<1>6. PendingCounted'
  BY DEF SendInv, TypeOK, PendingCounted, Doubting, Transmitting,
     Transmitters, LockHeld, tcp_destroy, Goto, objvars, listvars
<1>7. OneTransmitter'
  BY DEF SendInv, TypeOK, PendingCounted, Doubting, Transmitting,
     Transmitters, OneTransmitter, tcp_destroy, Goto, objvars, listvars
<1>8. NoLostWakeup'
  BY DEF SendInv, TypeOK, NoLostWakeup, PendingCounted, Doubting,
     Transmitting, Transmitters, LockHeld, tcp_destroy, Goto, objvars,
     listvars
<1>9. UnloadedIsQuiet'
  BY DEF SendInv, TypeOK, UnloadedIsQuiet, tcp_destroy, Goto, objvars,
     listvars
<1> QED
  BY <1>1, <1>2, <1>3, <1>4, <1>5, <1>6, <1>7, <1>8, <1>9 DEF SendInv

\* ioclose keeps the invariant.
LEMMA IocloseInv ==
  ASSUME NEW t \in Threads, SendInv, ioclose(t)
  PROVE  SendInv'
<1>1. TypeOK'
  BY DEF SendInv, TypeOK, Steps, Carried, ioclose, Goto, objvars, listvars
<1>2. RefsCounted'
  BY StayInCall DEF SendInv, Steps, ioclose, objvars, listvars
<1>3. LockHeld'
  BY TcpSendAssumption DEF SendInv, TypeOK, LockHeld, Threads, ioclose, Goto,
     objvars, listvars
<1>4. Carried'
  BY DEF SendInv, TypeOK, Carried, LockHeld, ioclose, Goto, objvars, listvars
<1>5. CacheCounted'
  BY DEF SendInv, TypeOK, CacheCounted, LockHeld, Carried, ioclose, Goto,
     objvars, listvars
<1>6. PendingCounted'
  BY DEF SendInv, TypeOK, PendingCounted, Doubting, Transmitting,
     Transmitters, LockHeld, ioclose, Goto, objvars, listvars
<1>7. OneTransmitter'
  BY DEF SendInv, TypeOK, PendingCounted, Doubting, Transmitting,
     Transmitters, OneTransmitter, ioclose, Goto, objvars, listvars
<1>8. NoLostWakeup'
  BY DEF SendInv, TypeOK, NoLostWakeup, PendingCounted, Doubting,
     Transmitting, Transmitters, LockHeld, ioclose, Goto, objvars, listvars
<1>9. UnloadedIsQuiet'
  BY DEF SendInv, TypeOK, UnloadedIsQuiet, ioclose, Goto, objvars, listvars
<1> QED
  BY <1>1, <1>2, <1>3, <1>4, <1>5, <1>6, <1>7, <1>8, <1>9 DEF SendInv
\* The completions that reference the link (CompleteSent, CompleteFailed) or
\* find it closing: the I/O thread becomes the transmitter in place of the
\* request, or the request is gone and the link is not open any more.
LEMMA CompletedInv ==
  ASSUME NEW p \in Packets, SendInv, CompleteSent(p) \/ CompleteFailed(p)
  PROVE  SendInv'
<1> IO \in Threads
  BY DEF Threads
<1> USE DEF objvars, listvars
<1>1. inflight = {p} /\ inflight' = {} /\ Transmitters = {} /\ pc[IO] = "idle"
  BY DEF SendInv, OneTransmitter, CompleteSent, CompleteFailed
<1>2. ASSUME NEW s \in {"iodone", "iofail"}, objrefr, Goto(IO, s),
             packet' = [packet EXCEPT ![IO] = p], UNCHANGED heap
      PROVE  SendInv'
  <2> UNCHANGED <<queue, list_size, pending, locker, next_packet, accepted, wire>>
    BY DEF CompleteSent, CompleteFailed
  <2>1. TypeOK'
    BY <1>1, <1>2 DEF SendInv, TypeOK, Steps, objrefr, Goto
  <2>2. RefsCounted'
    BY <1>1, <1>2, EnterCall DEF SendInv, Steps, objrefr
  <2>3. LockHeld'
    BY <1>1, <1>2, TcpSendAssumption DEF SendInv, TypeOK, LockHeld, Threads,
       Goto
  <2>4. Carried'
    BY <1>1, <1>2 DEF SendInv, TypeOK, Carried, Goto
  <2>5. CacheCounted'
    BY <1>1, <1>2 DEF SendInv, TypeOK, CacheCounted, Goto
  <2>6. PendingCounted' /\ OneTransmitter'
    BY <1>1, <1>2 DEF SendInv, TypeOK, PendingCounted, OneTransmitter,
       Doubting,
       Transmitting, Transmitters, Goto
  <2>7. NoLostWakeup' /\ UnloadedIsQuiet'
    BY <1>1, <1>2 DEF SendInv, TypeOK, NoLostWakeup, UnloadedIsQuiet,
       Transmitting, Transmitters, Goto, objrefr
  <2> QED
    BY <2>1, <2>2, <2>3, <2>4, <2>5, <2>6, <2>7 DEF SendInv
<1>3. CASE stat # "normal" /\ freepkt({p}) /\ UNCHANGED <<objvars, packet, pc>>
  <2> UNCHANGED <<queue, list_size, pending, locker, next_packet, accepted, wire>>
    BY DEF CompleteSent, CompleteFailed
  <2>1. TypeOK'
    BY <1>1, <1>3 DEF SendInv, TypeOK, freepkt
  <2>2. RefsCounted'
    BY <1>3 DEF SendInv, RefsCounted, Busy
  <2>3. LockHeld' /\ Carried' /\ CacheCounted' /\ UnloadedIsQuiet'
    BY <1>3 DEF SendInv, LockHeld, Carried, CacheCounted, UnloadedIsQuiet
  <2>4. PendingCounted' /\ OneTransmitter' /\ NoLostWakeup'
    BY <1>1, <1>3 DEF SendInv, PendingCounted, OneTransmitter, NoLostWakeup,
       Doubting, Transmitting, Transmitters
  <2> QED
    BY <2>1, <2>2, <2>3, <2>4 DEF SendInv
<1> QED
  BY <1>2, <1>3 DEF CompleteSent, CompleteFailed

\* tcp_shutdown_by_packet (objclos, then freepkt) on the I/O thread outside
\* any call: a completion that lost the connection, or the receive side.
LEMMA ShutdownInv ==
  ASSUME SendInv, NEW S \in SUBSET Packets, objclos(S),
         inflight' = {} \/ inflight' = inflight,
         stat = "normal" \/ Transmitters = {},
         UNCHANGED <<pending, locker, pc, packet, next_packet, accepted, wire>>
  PROVE  SendInv'
<1> USE DEF listvars
<1>1. stat' # "normal" /\ refs' = refs
  BY DEF objclos, tcp_unload
<1>2. RefsCounted' /\ LockHeld'
  BY <1>1 DEF SendInv, RefsCounted, Busy, LockHeld
<1>3. PendingCounted' /\ OneTransmitter' /\ NoLostWakeup'
  BY <1>1 DEF SendInv, PendingCounted, OneTransmitter, NoLostWakeup,
     Doubting, Transmitting, Transmitters
<1>4. CASE stat = "normal" /\ refs = 0 /\ tcp_unload(S)
  <2>1. \A t \in Threads : pc[t] = "idle"
    BY <1>4, NoRefs DEF SendInv
  <2>2. locker = NoThread
    BY <2>1 DEF SendInv, TypeOK, LockHeld
  <2>3. TypeOK'
    BY <1>4 DEF SendInv, TypeOK, objclos, tcp_unload, freepkt
  <2>4. Carried' /\ CacheCounted' /\ UnloadedIsQuiet'
    BY <1>4, <2>1, <2>2, TcpSendAssumption DEF Carried, CacheCounted,
       UnloadedIsQuiet, tcp_unload
  <2> QED
    BY <1>2, <1>3, <2>3, <2>4 DEF SendInv
<1>5. CASE /\ UNCHANGED <<sockfd, queue, list_size>>
           /\ freepkt(S)
           /\ \/ stat = "normal" /\ stat' = "closewait"
              \/ stat # "normal" /\ stat' = stat
  <2>1. TypeOK'
    BY <1>5 DEF SendInv, TypeOK, objclos, freepkt
  <2>2. Carried' /\ CacheCounted' /\ UnloadedIsQuiet'
    BY <1>5 DEF SendInv, Carried, CacheCounted, UnloadedIsQuiet
  <2> QED
    BY <1>2, <1>3, <2>1, <2>2 DEF SendInv
<1>6. \/ stat = "normal" /\ refs = 0 /\ tcp_unload(S)
      \/ /\ UNCHANGED <<sockfd, queue, list_size>>
         /\ freepkt(S)
         /\ \/ stat = "normal" /\ stat' = "closewait"
            \/ stat # "normal" /\ stat' = stat
  BY DEF objclos
<1> QED
  BY <1>4, <1>5, <1>6

\* CompleteDisconnected keeps the invariant.
LEMMA CompleteDisconnectedInv ==
  ASSUME NEW p \in Packets, SendInv, CompleteDisconnected(p)
  PROVE  SendInv'
<1>1. inflight' = {} /\ Transmitters = {}
  BY DEF SendInv, OneTransmitter, CompleteDisconnected
<1> QED
  BY <1>1, ShutdownInv DEF CompleteDisconnected

\* PeerClosed keeps the invariant.
LEMMA PeerClosedInv ==
  ASSUME SendInv, PeerClosed
  PROVE  SendInv'
BY ShutdownInv DEF PeerClosed

\* Return keeps the invariant: the thread that drops the last reference of a
\* closing link was the only one in a call, so tcp_unload runs alone.
LEMMA ReturnInv ==
  ASSUME NEW t \in Threads, SendInv, Return(t)
  PROVE  SendInv'
<1> USE DEF listvars
<1> DEFINE S == {packet[t]} \ {NoPkt}
<1>1. pc[t] = "exit" /\ Goto(t, "idle") /\ refs' = refs - 1
  BY DEF Return, objdefr
<1>2. /\ RefsCounted'
      /\ refs' \in Nat
      /\ refs = 1 => Busy = {t}
  BY <1>1, LeaveCall DEF SendInv
<1>3. packet' \in [Threads -> Packets \cup {NoPkt}] /\ pc' \in [Threads -> Steps]
  BY <1>1 DEF SendInv, TypeOK, Return, Goto, Steps
<1>4. CASE stat = "closewait" /\ refs = 1 /\ tcp_unload(S)
  <2>1. \A u \in Threads : pc'[u] = "idle"
    BY <1>1, <1>2, <1>4 DEF SendInv, TypeOK, Busy, Goto
  <2>2. locker' = NoThread
    BY <1>1, <1>2, <1>4 DEF SendInv, TypeOK, LockHeld, Busy, Return
  <2>3. TypeOK'
    BY <1>2, <1>3, <1>4 DEF SendInv, TypeOK, Return, tcp_unload, freepkt
  <2>4. LockHeld' /\ Carried' /\ CacheCounted' /\ UnloadedIsQuiet'
    BY <1>4, <2>1, <2>2, TcpSendAssumption DEF LockHeld, Carried,
       CacheCounted,
       UnloadedIsQuiet, tcp_unload, Threads
  <2>5. PendingCounted' /\ OneTransmitter' /\ NoLostWakeup'
    BY <1>1, <1>4, <2>1 DEF SendInv, TypeOK, PendingCounted, OneTransmitter,
       NoLostWakeup, Doubting, Transmitting, Transmitters, Return, tcp_unload, Goto
  <2> QED
    BY <1>2, <2>3, <2>4, <2>5 DEF SendInv
<1>5. CASE freepkt(S) /\ UNCHANGED <<stat, sockfd, queue, list_size>>
  <2>1. TypeOK'
    BY <1>2, <1>3, <1>5 DEF SendInv, TypeOK, Return, freepkt
  <2>2. LockHeld' /\ CacheCounted'
    BY <1>1, <1>5 DEF SendInv, TypeOK, LockHeld, CacheCounted, Return, Goto
  <2>3. Carried' /\ UnloadedIsQuiet'
    BY <1>1, <1>5 DEF SendInv, TypeOK, Carried, UnloadedIsQuiet, Return, Goto
  <2>4. PendingCounted' /\ OneTransmitter' /\ NoLostWakeup'
    BY <1>1, <1>5 DEF SendInv, TypeOK, PendingCounted, OneTransmitter,
       NoLostWakeup, Doubting, Transmitting, Transmitters, Return, Goto
  <2> QED
    BY <1>2, <2>1, <2>2, <2>3, <2>4 DEF SendInv
<1> QED
  BY <1>4, <1>5 DEF Return, objdefr

\* A step that changes nothing keeps the invariant.
LEMMA StutterInv ==
  ASSUME SendInv, UNCHANGED vars
  PROVE  SendInv'
BY DEF vars, SendInv, TypeOK, RefsCounted, Busy, LockHeld, Carried,
   CacheCounted,
   PendingCounted, Doubting, Transmitting, Transmitters, OneTransmitter,
   NoLostWakeup, UnloadedIsQuiet

\* Every step of the send path keeps the invariant, action by action.
LEMMA NextInv ==
  ASSUME SendInv, [Next]_vars
  PROVE  SendInv'
<1>1. ASSUME NEW t \in Writers, tcp_write(t) \/ WriteNoEntry(t) \/ tcp_destroy(t)
      PROVE  SendInv'
  BY <1>1, Tcp_writeInv, Tcp_destroyInv, StutterInv DEF WriteNoEntry
<1>2. ASSUME NEW t \in Threads, Continue(t)
      PROVE  SendInv'
  BY <1>2, WriteRefusedInv, WriteNotBuiltInv, WriteBuiltInv, EnterLockInv,
     AddTailInv, OverflowInv, UndoOverflowInv, IncPendingInv, DecPendingInv,
     PopHeadInv, SendReferencedInv, SendPostedInv, SendFailedInv, IocloseInv,
     ReturnInv DEF Continue
<1>3. CASE ContinueIO
  BY <1>3, NothingCachedInv, SomethingCachedInv, ReleasePendingInv,
     ReleaseFailedInv DEF ContinueIO
<1>4. ASSUME NEW p \in Packets, Complete(p)
      PROVE  SendInv'
  BY <1>4, CompletedInv, CompleteDisconnectedInv DEF Complete
<1> QED
  BY <1>1, <1>2, <1>3, <1>4, PeerClosedInv, StutterInv DEF Next

-----------------------------------------------------------------------------
(* Who holds each packet.                                                  *)

\* Appending to a list adds its element.
LEMMA ElementsAppend ==
  ASSUME NEW S, NEW s \in Seq(S), NEW x \in S
  PROVE  Elements(Append(s, x)) = Elements(s) \cup {x}
<1>1. /\ Len(s) \in Nat
      /\ Len(Append(s, x)) = Len(s) + 1
      /\ Append(s, x)[Len(s) + 1] = x
      /\ \A i \in 1..Len(s) : Append(s, x)[i] = s[i]
  OBVIOUS
<1>2. 1..Len(Append(s, x)) = 1..Len(s) \cup {Len(s) + 1}
  BY <1>1
<1> QED
  BY <1>1, <1>2 DEF Elements

\* Taking the head of a list without repetitions removes just that element.
LEMMA ElementsTail ==
  ASSUME NEW S, NEW s \in Seq(S), s # <<>>,
         \A i, j \in 1..Len(s) : s[i] = s[j] => i = j
  PROVE  /\ Head(s) \in Elements(s)
         /\ Elements(Tail(s)) = Elements(s) \ {Head(s)}
         /\ \A i, j \in 1..Len(Tail(s)) : Tail(s)[i] = Tail(s)[j] => i = j
<1>1. /\ Len(s) \in Nat /\ Len(s) >= 1 /\ Len(Tail(s)) = Len(s) - 1
      /\ Head(s) = s[1]
      /\ \A i \in 1..Len(Tail(s)) : Tail(s)[i] = s[i + 1]
  OBVIOUS
<1>2. Head(s) \in Elements(s)
  BY <1>1 DEF Elements
<1>3. Elements(Tail(s)) = Elements(s) \ {Head(s)}
  <2>1. ASSUME NEW x \in Elements(Tail(s)) PROVE x \in Elements(s) \ {Head(s)}
    <3>1. PICK i \in 1..Len(Tail(s)) : x = Tail(s)[i]
      BY <2>1 DEF Elements
    <3>2. x = s[i + 1] /\ i + 1 \in 1..Len(s) /\ 1 \in 1..Len(s) /\ i + 1 # 1
      BY <1>1, <3>1
    <3>3. x # s[1]
      BY <3>2
    <3> QED
      BY <1>1, <3>2, <3>3 DEF Elements
  <2>2. ASSUME NEW x \in Elements(s) \ {Head(s)} PROVE x \in Elements(Tail(s))
    <3>1. PICK i \in 1..Len(s) : x = s[i]
      BY <2>2 DEF Elements
    <3>2. i # 1
      BY <1>1, <2>2, <3>1
    <3>3. i - 1 \in 1..Len(Tail(s)) /\ Tail(s)[i - 1] = s[i]
      BY <1>1, <3>2
    <3> QED
      BY <3>1, <3>3 DEF Elements
  <2> QED
    BY <2>1, <2>2
<1>4. ASSUME NEW i \in 1..Len(Tail(s)), NEW j \in 1..Len(Tail(s)),
             Tail(s)[i] = Tail(s)[j]
      PROVE  i = j
  <2>1. s[i + 1] = s[j + 1] /\ i + 1 \in 1..Len(s) /\ j + 1 \in 1..Len(s)
    BY <1>1, <1>4
  <2> QED
    BY <2>1
<1> QED
  BY <1>2, <1>3, <1>4

\* The lists hold packets.
LEMMA ElementsPackets ==
  ASSUME TypeOK
  PROVE  /\ Elements(queue) \subseteq Packets
         /\ Elements(accepted) \subseteq Packets
         /\ Elements(wire) \subseteq Packets
BY DEF TypeOK, Elements

\* The threads that hold packets.
LEMMA HeldBy ==
  ASSUME NEW p
  PROVE  p \in Held <=> \/ p \in Elements(queue)
                        \/ p \in inflight
                        \/ \E t \in Threads : packet[t] = p
                        \/ \E t \in Threads : next_packet[t] = p
BY DEF Held

\* After a step too.
LEMMA HeldByNext ==
  ASSUME NEW p
  PROVE  p \in Held' <=> \/ p \in Elements(queue')
                         \/ p \in inflight'
                         \/ \E t \in Threads : packet'[t] = p
                         \/ \E t \in Threads : next_packet'[t] = p
BY DEF Held, Elements

holdvars == <<queue, packet, next_packet, inflight, heap, accepted, wire>>

\* A link that was just set up has no packets.
LEMMA InitOwn == Init => OwnInv
<1> SUFFICES ASSUME Init PROVE OwnInv
  OBVIOUS
<1>1. Elements(queue) = {} /\ Elements(accepted) = {} /\ Elements(wire) = {}
  BY DEF Init, Elements
<1>2. Apart /\ EmptyHanded
  BY <1>1 DEF Init, Apart, EmptyHanded
<1>3. LiveHeld
  BY <1>1, TcpSendAssumption, HeldBy DEF Init, LiveHeld
<1>4. Remembered
  BY <1>1 DEF Init, Remembered
<1> QED
  BY <1>2, <1>3, <1>4 DEF OwnInv

\* A step that only moves a thread leaves every packet where it is.
LEMMA MoveOwn ==
  ASSUME SendInv, OwnInv, NEW t \in Threads, NEW s \in Steps, Goto(t, s),
         UNCHANGED holdvars,
         s \in {"idle", "check", "ioclose"} => packet[t] = NoPkt,
         s \notin {"send", "post"} => next_packet[t] = NoPkt,
         s \in {"enter", "locked", "undo"} /\ t # IO =>
           pc[t] \in {"enter", "locked", "undo"},
         s \notin {"iodone", "iofail"}
  PROVE  OwnInv'
<1>1. Apart'
  BY DEF OwnInv, Apart, Elements, holdvars
<1>2. LiveHeld'
  BY DEF OwnInv, LiveHeld, Held, Elements, holdvars
<1>3. EmptyHanded'
  BY DEF SendInv, TypeOK, OwnInv, EmptyHanded, Goto, holdvars
<1>4. Remembered'
  BY DEF SendInv, TypeOK, OwnInv, Remembered, Elements, Goto, holdvars
<1> QED
  BY <1>1, <1>2, <1>3, <1>4 DEF OwnInv

\* The steps that do not touch a packet.
LEMMA QuietOwn ==
  ASSUME SendInv, OwnInv, NEW t \in Threads,
         \/ t \in Writers /\ (tcp_write(t) \/ tcp_destroy(t))
         \/ WriteRefused(t) \/ WriteNotBuilt(t) \/ EnterLock(t)
         \/ Overflow(t) \/ UndoOverflow(t) \/ IncPending(t) \/ DecPending(t)
         \/ SendReferenced(t) \/ ioclose(t)
  PROVE  OwnInv'
<1> USE DEF holdvars, listvars, objvars, Steps
<1>1. pc[t] \in {"idle", "check", "ioclose"} => packet[t] = NoPkt
  BY DEF OwnInv, EmptyHanded
<1>2. pc[t] \notin {"send", "post"} => next_packet[t] = NoPkt
  BY DEF OwnInv, EmptyHanded
<1>3. CASE t \in Writers /\ (tcp_write(t) \/ tcp_destroy(t))
  BY <1>1, <1>2, <1>3, MoveOwn DEF tcp_write, tcp_destroy
<1>4. CASE WriteRefused(t) \/ WriteNotBuilt(t) \/ ioclose(t)
  BY <1>1, <1>2, <1>4, MoveOwn DEF WriteRefused, WriteNotBuilt, ioclose
<1>5. CASE EnterLock(t) \/ Overflow(t) \/ UndoOverflow(t)
  BY <1>1, <1>2, <1>5, MoveOwn DEF EnterLock, Overflow, UndoOverflow
<1>6. CASE IncPending(t) \/ DecPending(t) \/ SendReferenced(t)
  BY <1>1, <1>2, <1>6, MoveOwn DEF IncPending, DecPending, SendReferenced
<1> QED
  BY <1>3, <1>4, <1>5, <1>6

\* The steps of the I/O thread that do not either.
LEMMA QuietIOOwn ==
  ASSUME SendInv, OwnInv, NothingCached \/ SomethingCached \/ ReleasePending
  PROVE  OwnInv'
<1> USE DEF holdvars, listvars, objvars, Steps
<1> IO \in Threads
  BY DEF Threads
<1>1. next_packet[IO] = NoPkt
  BY DEF OwnInv, EmptyHanded, NothingCached, SomethingCached, ReleasePending
<1> QED
  BY <1>1, MoveOwn DEF NothingCached, SomethingCached, ReleasePending

\* A packet that nobody held gets its writer.
LEMMA WriteBuiltOwn ==
  ASSUME SendInv, OwnInv, NEW t \in Threads, WriteBuilt(t)
  PROVE  OwnInv'
<1>1. PICK p \in Packets : /\ heap[p] = "unallocated"
                           /\ heap' = [heap EXCEPT ![p] = "live"]
                           /\ packet' = [packet EXCEPT ![t] = p]
  BY DEF WriteBuilt
<1>2. /\ pc[t] = "check" /\ packet[t] = NoPkt /\ p \notin Held
      /\ p \notin Elements(accepted) \cup Elements(wire)
  BY <1>1 DEF OwnInv, EmptyHanded, LiveHeld, Remembered, WriteBuilt
<1>3. UNCHANGED <<queue, next_packet, inflight, accepted, wire>> /\ Goto(t, "enter")
  BY DEF WriteBuilt, listvars
<1>4. /\ Elements(queue') = Elements(queue)
      /\ Elements(accepted') = Elements(accepted)
      /\ Elements(wire') = Elements(wire)
  BY <1>3
<1>5. Apart'
  BY <1>1, <1>2, <1>3, <1>4, HeldBy, TcpSendAssumption DEF SendInv, TypeOK, OwnInv,
     Apart
<1>6. LiveHeld'
  <2>1. ASSUME NEW q \in Packets PROVE q \in Held' <=> q \in Held \cup {p}
    BY <1>1, <1>2, <1>3, <1>4, HeldBy, HeldByNext, TcpSendAssumption DEF SendInv,
       TypeOK
  <2> QED
    BY <1>1, <2>1 DEF SendInv, TypeOK, OwnInv, LiveHeld
<1>7. EmptyHanded'
  BY <1>1, <1>3 DEF SendInv, TypeOK, OwnInv, EmptyHanded, WriteBuilt, Goto
<1>8. Remembered'
  BY <1>1, <1>2, <1>3, <1>4, ElementsPackets DEF SendInv, TypeOK, OwnInv, Remembered,
     Goto
<1> QED
  BY <1>5, <1>6, <1>7, <1>8 DEF OwnInv

\* The packet passes from the writer to the cache.
LEMMA AddTailOwn ==
  ASSUME SendInv, OwnInv, NEW t \in Threads, AddTail(t)
  PROVE  OwnInv'
<1> DEFINE p == packet[t]
<1>1. /\ p \in Packets /\ t # IO /\ pc[t] = "locked"
      /\ p \notin Elements(accepted) \cup Elements(wire)
      /\ p \notin Elements(queue) \cup inflight
      /\ \A u \in Threads : next_packet[u] # p /\ (packet[u] = p => u = t)
  BY TcpSendAssumption DEF SendInv, Carried, OwnInv, Remembered, Apart, AddTail
<1>2. /\ packet' = [packet EXCEPT ![t] = NoPkt] /\ Goto(t, "inc")
      /\ queue' = Append(queue, p) /\ accepted' = Append(accepted, p)
      /\ UNCHANGED <<next_packet, inflight, heap, wire>>
  BY DEF AddTail
<1>3. /\ Elements(queue') = Elements(queue) \cup {p}
      /\ Elements(accepted') = Elements(accepted) \cup {p}
      /\ Elements(wire') = Elements(wire)
  BY <1>1, <1>2, ElementsAppend DEF SendInv, TypeOK
<1>4. \A i, j \in 1..Len(queue') : queue'[i] = queue'[j] => i = j
  <2>1. /\ Len(queue) \in Nat /\ Len(queue') = Len(queue) + 1
        /\ queue'[Len(queue) + 1] = p
        /\ \A i \in 1..Len(queue) : queue'[i] = queue[i]
    BY <1>1, <1>2 DEF SendInv, TypeOK
  <2>2. \A i \in 1..Len(queue) : queue[i] # p
    BY <1>1 DEF Elements
  <2>3. \A i \in 1..Len(queue') : i \in 1..Len(queue) \/ i = Len(queue) + 1
    BY <2>1
  <2> QED
    BY <2>1, <2>2, <2>3 DEF OwnInv, Apart
<1>5. Apart'
  BY <1>1, <1>2, <1>3, <1>4, ElementsPackets, TcpSendAssumption DEF SendInv, TypeOK,
     OwnInv, Apart
<1>6. LiveHeld'
  <2>1. ASSUME NEW q \in Packets PROVE q \in Held' <=> q \in Held
    BY <1>1, <1>2, <1>3, HeldBy, HeldByNext, TcpSendAssumption DEF SendInv, TypeOK
  <2> QED
    BY <1>2, <2>1 DEF OwnInv, LiveHeld
<1>7. EmptyHanded'
  BY <1>1, <1>2 DEF SendInv, TypeOK, OwnInv, EmptyHanded, Goto
<1>8. Remembered'
  <2>1. heap[p] = "live"
    BY <1>1, HeldBy DEF OwnInv, LiveHeld
  <2>2. \A u \in Threads : u # t =>
          packet'[u] = packet[u] /\ pc'[u] = pc[u] /\ packet[u] # p
    BY <1>1, <1>2 DEF SendInv, TypeOK, Goto
  <2>3. pc'[t] = "inc"
    BY <1>2 DEF SendInv, TypeOK, Goto
  <2> QED
    BY <1>1, <1>2, <1>3, <2>1, <2>2, <2>3 DEF OwnInv, Remembered
<1> QED
  BY <1>5, <1>6, <1>7, <1>8 DEF OwnInv

\* The head of the cache passes to the transmitter.
LEMMA PopHeadOwn ==
  ASSUME SendInv, OwnInv, NEW t \in Threads, PopHead(t)
  PROVE  OwnInv'
<1> DEFINE p == Head(queue)
<1>1. queue # <<>> /\ pc[t] = "pop" /\ next_packet[t] = NoPkt
  BY DEF SendInv, Carried, OwnInv, EmptyHanded, PopHead
<1>2. /\ next_packet' = [next_packet EXCEPT ![t] = p] /\ Goto(t, "send")
      /\ queue' = Tail(queue)
      /\ UNCHANGED <<packet, inflight, heap, accepted, wire>>
  BY DEF PopHead
<1>3. /\ p \in Elements(queue)
      /\ Elements(queue') = Elements(queue) \ {p}
      /\ \A i, j \in 1..Len(queue') : queue'[i] = queue'[j] => i = j
      /\ Elements(accepted') = Elements(accepted)
      /\ Elements(wire') = Elements(wire)
  BY <1>1, <1>2, ElementsTail DEF SendInv, TypeOK, OwnInv, Apart
<1>4. p \in Packets
  BY <1>3, ElementsPackets DEF SendInv
<1>5. Apart'
  BY <1>1, <1>2, <1>3, <1>4, TcpSendAssumption DEF SendInv, TypeOK, OwnInv, Apart
<1>6. LiveHeld'
  <2>1. ASSUME NEW q \in Packets PROVE q \in Held' <=> q \in Held
    BY <1>1, <1>2, <1>3, <1>4, HeldBy, HeldByNext, TcpSendAssumption DEF SendInv,
       TypeOK
  <2> QED
    BY <1>2, <2>1 DEF OwnInv, LiveHeld
<1>7. EmptyHanded'
  BY <1>1, <1>2 DEF SendInv, TypeOK, OwnInv, EmptyHanded, Goto
<1>8. Remembered'
  BY <1>1, <1>2, <1>3, <1>4 DEF SendInv, TypeOK, OwnInv, Remembered, Goto
<1> QED
  BY <1>5, <1>6, <1>7, <1>8 DEF OwnInv

\* The packet passes from the transmitter to the system.
LEMMA SendPostedOwn ==
  ASSUME SendInv, OwnInv, NEW t \in Threads, SendPosted(t)
  PROVE  OwnInv'
<1> DEFINE p == next_packet[t]
<1>1. /\ p \in Packets /\ pc[t] = "post"
      /\ p \notin Elements(queue) \cup inflight
      /\ \A u \in Threads : packet[u] # p /\ (next_packet[u] = p => u = t)
  BY TcpSendAssumption DEF SendInv, Carried, OwnInv, Apart, SendPosted
<1>2. /\ next_packet' = [next_packet EXCEPT ![t] = NoPkt] /\ Goto(t, "exit")
      /\ inflight' = inflight \cup {p} /\ wire' = Append(wire, p)
      /\ UNCHANGED <<queue, packet, heap, accepted>>
  BY DEF SendPosted, listvars
<1>3. /\ Elements(queue') = Elements(queue)
      /\ Elements(accepted') = Elements(accepted)
      /\ Elements(wire') = Elements(wire) \cup {p}
  BY <1>1, <1>2, ElementsAppend DEF SendInv, TypeOK
<1>4. Apart'
  BY <1>1, <1>2, <1>3, ElementsPackets, TcpSendAssumption DEF SendInv, TypeOK, OwnInv,
     Apart
<1>5. LiveHeld'
  <2>1. ASSUME NEW q \in Packets PROVE q \in Held' <=> q \in Held
    <3>1. CASE q = p
      BY <1>2, <3>1, HeldBy, HeldByNext
    <3>2. CASE q # p
      <4>1. (\E u \in Threads : next_packet'[u] = q)
              <=> (\E u \in Threads : next_packet[u] = q)
        BY <1>2, <3>2, TcpSendAssumption DEF SendInv, TypeOK
      <4> QED
        BY <1>2, <1>3, <3>2, <4>1, HeldBy, HeldByNext
    <3> QED
      BY <3>1, <3>2
  <2> QED
    BY <1>2, <2>1 DEF OwnInv, LiveHeld
<1>6. EmptyHanded'
  BY <1>1, <1>2 DEF SendInv, TypeOK, OwnInv, EmptyHanded, Goto
<1>7. Remembered'
  <2>1. heap[p] = "live"
    BY <1>1, HeldBy DEF OwnInv, LiveHeld
  <2>2. NoPkt \notin Elements(wire')
    BY <1>1, <1>3, ElementsPackets, TcpSendAssumption DEF SendInv
  <2>3. \A u \in Threads : next_packet'[u] = NoPkt \/ (u # t /\ next_packet'[u] = next_packet[u])
    BY <1>2 DEF SendInv, TypeOK
  <2>4. \A u \in Threads : pc'[u] = "exit" \/ pc'[u] = pc[u]
    BY <1>2 DEF SendInv, TypeOK, Goto
  <2> QED
    BY <1>1, <1>2, <1>3, <2>1, <2>2, <2>3, <2>4 DEF OwnInv, Remembered
<1> QED
  BY <1>4, <1>5, <1>6, <1>7 DEF OwnInv

\* Freeing packets: what was held and is not freed is still held.
LEMMA FreeLive ==
  ASSUME SendInv, OwnInv, NEW S, freepkt(S),
         \A p \in Packets : p \in Held' <=> p \in Held \ S
  PROVE  LiveHeld'
BY DEF SendInv, TypeOK, OwnInv, LiveHeld, freepkt

\* The packet of a failed request is freed by tcp_shutdown_by_packet.
LEMMA SendFailedOwn ==
  ASSUME SendInv, OwnInv, NEW t \in Threads, SendFailed(t)
  PROVE  OwnInv'
<1> DEFINE p == next_packet[t]
<1>1. /\ p \in Packets /\ pc[t] \in {"send", "post"}
      /\ p \notin Elements(queue) \cup inflight
      /\ \A u \in Threads : packet[u] # p /\ (next_packet[u] = p => u = t)
  BY TcpSendAssumption DEF SendInv, Carried, OwnInv, Apart, SendFailed
<1>2. /\ next_packet' = [next_packet EXCEPT ![t] = NoPkt] /\ Goto(t, "exit")
      /\ freepkt({p})
      /\ UNCHANGED <<queue, packet, inflight, accepted, wire>>
  BY DEF SendFailed, listvars
<1>3. /\ Elements(queue') = Elements(queue)
      /\ Elements(accepted') = Elements(accepted)
      /\ Elements(wire') = Elements(wire)
  BY <1>2
<1>4. \A u \in Threads :
        next_packet'[u] = NoPkt \/ (u # t /\ next_packet'[u] = next_packet[u])
  BY <1>2 DEF SendInv, TypeOK
<1>5. Apart'
  BY <1>1, <1>2, <1>3, <1>4, ElementsPackets, TcpSendAssumption DEF SendInv,
     TypeOK, OwnInv, Apart
<1>6. LiveHeld'
  <2>1. ASSUME NEW q \in Packets PROVE q \in Held' <=> q \in Held \ {p}
    <3>1. (\E u \in Threads : next_packet'[u] = q)
            <=> (q # p /\ \E u \in Threads : next_packet[u] = q)
      BY <1>1, <1>2, TcpSendAssumption DEF SendInv, TypeOK
    <3> QED
      BY <1>1, <1>2, <1>3, <3>1, HeldBy, HeldByNext
  <2> QED
    BY <1>2, <2>1, FreeLive
<1>7. EmptyHanded'
  BY <1>1, <1>2 DEF SendInv, TypeOK, OwnInv, EmptyHanded, Goto
<1>8. Remembered'
  <2>1. NoPkt \notin Elements(wire)
    BY ElementsPackets, TcpSendAssumption DEF SendInv
  <2>2. \A u \in Threads : pc'[u] = "exit" \/ pc'[u] = pc[u]
    BY <1>2 DEF SendInv, TypeOK, Goto
  <2>3. \A q \in Packets : heap[q] # "unallocated" => heap'[q] # "unallocated"
    BY <1>2 DEF SendInv, TypeOK, freepkt
  <2> QED
    BY <1>2, <1>3, <1>4, <2>1, <2>2, <2>3, ElementsPackets DEF SendInv, OwnInv,
       Remembered
<1> QED
  BY <1>5, <1>6, <1>7, <1>8 DEF OwnInv

\* The I/O thread frees the packet of a failed completion.
LEMMA ReleaseFailedOwn ==
  ASSUME SendInv, OwnInv, ReleaseFailed
  PROVE  OwnInv'
<1> DEFINE p == packet[IO]
<1> IO \in Threads
  BY DEF Threads
<1>1. /\ p \in Packets /\ pc[IO] = "iofail"
      /\ p \notin Elements(queue) \cup inflight
      /\ \A u \in Threads : next_packet[u] # p /\ (packet[u] = p => u = IO)
  BY TcpSendAssumption DEF SendInv, Carried, OwnInv, Apart, ReleaseFailed
<1>2. /\ packet' = [packet EXCEPT ![IO] = NoPkt] /\ Goto(IO, "enter")
      /\ freepkt({p})
      /\ UNCHANGED <<queue, next_packet, inflight, accepted, wire>>
  BY DEF ReleaseFailed, listvars
<1>3. /\ Elements(queue') = Elements(queue)
      /\ Elements(accepted') = Elements(accepted)
      /\ Elements(wire') = Elements(wire)
  BY <1>2
<1>4. \A u \in Threads :
        IF u = IO THEN packet'[u] = NoPkt ELSE packet'[u] = packet[u]
  BY <1>2 DEF SendInv, TypeOK
<1>5. Apart'
  BY <1>1, <1>2, <1>3, <1>4, ElementsPackets, TcpSendAssumption DEF SendInv,
     TypeOK, OwnInv, Apart
<1>6. LiveHeld'
  <2>1. ASSUME NEW q \in Packets PROVE q \in Held' <=> q \in Held \ {p}
    <3>1. (\E u \in Threads : packet'[u] = q)
            <=> (q # p /\ \E u \in Threads : packet[u] = q)
      BY <1>1, <1>4, TcpSendAssumption
    <3> QED
      BY <1>1, <1>2, <1>3, <3>1, HeldBy, HeldByNext
  <2> QED
    BY <1>2, <2>1, FreeLive
<1>7. EmptyHanded'
  BY <1>1, <1>2 DEF SendInv, TypeOK, OwnInv, EmptyHanded, Goto
<1>8. Remembered'
  <2>1. \A u \in Threads :
          IF u = IO THEN pc'[u] = "enter" ELSE pc'[u] = pc[u]
    BY <1>2 DEF SendInv, TypeOK, Goto
  <2>2. \A q \in Packets : heap[q] # "unallocated" => heap'[q] # "unallocated"
    BY <1>2 DEF SendInv, TypeOK, freepkt
  <2> QED
    BY <1>2, <1>3, <1>4, <2>1, <2>2, ElementsPackets DEF SendInv, OwnInv,
       Remembered
<1> QED
  BY <1>5, <1>6, <1>7, <1>8 DEF OwnInv

\* A completed request passes to the I/O thread, or is freed at once.
LEMMA CompletedOwn ==
  ASSUME SendInv, OwnInv, NEW p \in Packets, CompleteSent(p) \/ CompleteFailed(p)
  PROVE  OwnInv'
<1> IO \in Threads
  BY DEF Threads
<1>1. /\ pc[IO] = "idle" /\ packet[IO] = NoPkt
      /\ p \in inflight /\ inflight' = inflight \ {p}
      /\ UNCHANGED <<queue, next_packet, accepted, wire>>
  BY DEF OwnInv, EmptyHanded, CompleteSent, CompleteFailed, listvars
<1>2. /\ Elements(queue') = Elements(queue)
      /\ Elements(accepted') = Elements(accepted)
      /\ Elements(wire') = Elements(wire)
  BY <1>1
<1>3. /\ p \notin Elements(queue)
      /\ \A u \in Threads : packet[u] # p /\ next_packet[u] # p
  BY <1>1 DEF OwnInv, Apart
<1>4. ASSUME NEW s \in {"iodone", "iofail"}, Goto(IO, s),
             packet' = [packet EXCEPT ![IO] = p], UNCHANGED heap
      PROVE  OwnInv'
  <2>1. \A u \in Threads : IF u = IO THEN packet'[u] = p /\ pc'[u] = s
                           ELSE packet'[u] = packet[u] /\ pc'[u] = pc[u]
    BY <1>4 DEF SendInv, TypeOK, Goto
  <2>2. Apart'
    BY <1>1, <1>2, <1>3, <2>1 DEF OwnInv, Apart
  <2>3. LiveHeld'
    <3>1. ASSUME NEW q \in Packets PROVE q \in Held' <=> q \in Held
      <4>1. (\E u \in Threads : packet'[u] = q)
              <=> (q = p \/ \E u \in Threads : packet[u] = q)
        BY <1>1, <2>1, TcpSendAssumption
      <4> QED
        BY <1>1, <1>2, <4>1, HeldBy, HeldByNext
    <3> QED
      BY <1>4, <3>1 DEF OwnInv, LiveHeld
  <2>4. EmptyHanded'
    BY <1>1, <1>4, <2>1 DEF OwnInv, EmptyHanded
  <2>5. Remembered'
    BY <1>1, <1>2, <1>4, <2>1 DEF OwnInv, Remembered
  <2> QED
    BY <2>2, <2>3, <2>4, <2>5 DEF OwnInv
<1>5. CASE freepkt({p}) /\ UNCHANGED <<packet, pc>>
  <2>1. Apart'
    BY <1>1, <1>2, <1>5 DEF OwnInv, Apart
  <2>2. LiveHeld'
    <3>1. ASSUME NEW q \in Packets PROVE q \in Held' <=> q \in Held \ {p}
      BY <1>1, <1>2, <1>3, <1>5, HeldBy, HeldByNext
    <3> QED
      BY <1>5, <3>1, FreeLive
  <2>3. EmptyHanded'
    BY <1>1, <1>5 DEF OwnInv, EmptyHanded
  <2>4. Remembered'
    <3>1. \A q \in Packets : heap[q] # "unallocated" => heap'[q] # "unallocated"
      BY <1>5 DEF SendInv, TypeOK, freepkt
    <3> QED
      BY <1>1, <1>2, <1>5, <3>1, ElementsPackets DEF SendInv, OwnInv, Remembered
  <2> QED
    BY <2>1, <2>2, <2>3, <2>4 DEF OwnInv
<1> QED
  BY <1>4, <1>5 DEF CompleteSent, CompleteFailed

\* What tcp_unload, objclos and objdefr do to the packets: they free S, and the
\* cached ones when the link is unloaded.
Discards(S) ==
  \/ queue' = <<>> /\ freepkt(S \cup Elements(queue))
  \/ queue' = queue /\ freepkt(S)

\* Freeing what the caller no longer holds, and perhaps the cache, leaves the
\* rest where it is.
LEMMA DiscardOwn ==
  ASSUME SendInv, OwnInv, NEW S \in SUBSET Packets, Discards(S),
         UNCHANGED <<next_packet, accepted, wire>>,
         inflight' = inflight \ S, S \cap Elements(queue) = {},
         \A t \in Threads : next_packet[t] \notin S,
         \A t \in Threads : packet'[t] = IF packet[t] \in S THEN NoPkt ELSE packet[t],
         \A t \in Threads :
           /\ pc'[t] = pc[t] \/ (pc'[t] = "idle" /\ pc[t] = "exit")
           /\ packet[t] \in S => pc[t] = "exit"
           /\ pc'[t] = "idle" => packet'[t] = NoPkt
  PROVE  OwnInv'
<1>1. Elements(queue') \subseteq Elements(queue)
  BY DEF Discards, Elements, SendInv, TypeOK
<1>2. Elements(accepted') = Elements(accepted) /\ Elements(wire') = Elements(wire)
  OBVIOUS
<1>3. NoPkt \notin Elements(queue) \cup inflight
  BY ElementsPackets, TcpSendAssumption DEF SendInv, TypeOK
<1>4. Apart'
  <2>1. \A i, j \in 1..Len(queue') : queue'[i] = queue'[j] => i = j
    BY DEF OwnInv, Apart, Discards
  <2> QED
    BY <1>1, <1>3, <2>1 DEF OwnInv, Apart
<1>5. LiveHeld'
  <2>1. ASSUME NEW q \in Packets
        PROVE  (\E t \in Threads : packet'[t] = q)
                 <=> (q \notin S /\ \E t \in Threads : packet[t] = q)
    BY TcpSendAssumption
  <2>2. CASE queue' = <<>> /\ freepkt(S \cup Elements(queue))
    <3>1. Elements(queue') = {}
      BY <2>2 DEF Elements
    <3>2. ASSUME NEW q \in Packets
          PROVE  q \in Held' <=> q \in Held \ (S \cup Elements(queue))
      BY <2>1, <3>1, HeldBy, HeldByNext DEF OwnInv, Apart
    <3> QED
      BY <2>2, <3>2, FreeLive
  <2>3. CASE queue' = queue /\ freepkt(S)
    <3>1. ASSUME NEW q \in Packets PROVE q \in Held' <=> q \in Held \ S
      BY <2>1, <2>3, HeldBy, HeldByNext
    <3> QED
      BY <2>3, <3>1, FreeLive
  <2> QED
    BY <2>2, <2>3 DEF Discards
<1>6. EmptyHanded'
  BY DEF OwnInv, EmptyHanded
<1>7. Remembered'
  <2>1. \A q \in Packets : heap[q] # "unallocated" => heap'[q] # "unallocated"
    BY DEF SendInv, TypeOK, freepkt, Discards
  <2> QED
    BY <1>1, <1>2, <2>1, ElementsPackets DEF SendInv, OwnInv, Remembered
<1> QED
  BY <1>4, <1>5, <1>6, <1>7 DEF OwnInv

\* tcp_shutdown_by_packet on the I/O thread.
LEMMA ShutdownOwn ==
  ASSUME SendInv, OwnInv,
         PeerClosed \/ \E p \in Packets : CompleteDisconnected(p)
  PROVE  OwnInv'
<1>1. CASE PeerClosed
  <2>1. Discards({})
    BY <1>1 DEF PeerClosed, objclos, tcp_unload, Discards, listvars
  <2> QED
    BY <1>1, <2>1, DiscardOwn DEF PeerClosed, OwnInv, EmptyHanded
<1>2. ASSUME NEW p \in Packets, CompleteDisconnected(p) PROVE OwnInv'
  <2>1. Discards({p})
    BY <1>2 DEF CompleteDisconnected, objclos, tcp_unload, Discards, listvars
  <2>2. /\ {p} \cap Elements(queue) = {}
        /\ \A t \in Threads : next_packet[t] \notin {p} /\ packet[t] \notin {p}
        /\ inflight' = inflight \ {p}
        /\ UNCHANGED <<pc, packet, next_packet, accepted, wire>>
    BY <1>2 DEF CompleteDisconnected, OwnInv, Apart
  <2>3. \A t \in Threads : pc'[t] = "idle" => packet'[t] = NoPkt
    BY <2>2 DEF OwnInv, EmptyHanded
  <2> QED
    BY <2>1, <2>2, <2>3, DiscardOwn
<1> QED
  BY <1>1, <1>2

\* The end of a call frees the packet that its caller still holds.
LEMMA ReturnOwn ==
  ASSUME SendInv, OwnInv, NEW t \in Threads, Return(t)
  PROVE  OwnInv'
<1> DEFINE S == {packet[t]} \ {NoPkt}
<1>1. S \in SUBSET Packets
  BY DEF SendInv, TypeOK
<1>2. Discards(S)
  BY DEF Return, objdefr, tcp_unload, Discards, listvars
<1>3. /\ pc[t] = "exit" /\ Goto(t, "idle")
      /\ packet' = [packet EXCEPT ![t] = NoPkt]
      /\ UNCHANGED <<next_packet, inflight, accepted, wire>>
  BY DEF Return
<1>4. /\ S \cap Elements(queue) = {} /\ inflight \ S = inflight
      /\ \A u \in Threads : next_packet[u] \notin S
      /\ \A u \in Threads : packet[u] \in S => u = t
  BY DEF OwnInv, Apart
<1>5. \A u \in Threads :
        IF u = t THEN packet'[u] = NoPkt /\ pc'[u] = "idle"
        ELSE packet'[u] = packet[u] /\ pc'[u] = pc[u]
  BY <1>3 DEF SendInv, TypeOK, Goto
<1>6. \A u \in Threads : packet'[u] = IF packet[u] \in S THEN NoPkt ELSE packet[u]
  BY <1>4, <1>5
<1>7. \A u \in Threads :
        /\ pc'[u] = pc[u] \/ (pc'[u] = "idle" /\ pc[u] = "exit")
        /\ packet[u] \in S => pc[u] = "exit"
        /\ pc'[u] = "idle" => packet'[u] = NoPkt
  BY <1>3, <1>4, <1>5 DEF OwnInv, EmptyHanded
<1> QED
  BY <1>1, <1>2, <1>3, <1>4, <1>6, <1>7, DiscardOwn

\* Every step of the send path keeps track of the packets.
LEMMA NextOwn ==
  ASSUME SendInv, OwnInv, [Next]_vars
  PROVE  OwnInv'
<1>1. CASE UNCHANGED vars
  BY <1>1 DEF OwnInv, Apart, LiveHeld, Held, EmptyHanded, Remembered, Elements,
     vars
<1>2. ASSUME NEW t \in Writers, tcp_write(t) \/ WriteNoEntry(t) \/ tcp_destroy(t)
      PROVE  OwnInv'
  BY <1>1, <1>2, QuietOwn DEF Threads, WriteNoEntry
<1>3. ASSUME NEW t \in Threads, Continue(t) PROVE OwnInv'
  BY <1>3, QuietOwn, WriteBuiltOwn, AddTailOwn, PopHeadOwn, SendPostedOwn,
     SendFailedOwn, ReturnOwn DEF Continue
<1>4. CASE ContinueIO
  BY <1>4, QuietIOOwn, ReleaseFailedOwn DEF ContinueIO
<1>5. ASSUME NEW p \in Packets, Complete(p) PROVE OwnInv'
  BY <1>5, CompletedOwn, ShutdownOwn DEF Complete
<1> QED
  BY <1>1, <1>2, <1>3, <1>4, <1>5, ShutdownOwn DEF Next

\* A set of at most one element has at most that many.
LEMMA AtMostOne ==
  ASSUME NEW S, \A x, y \in S : x = y
  PROVE  Cardinality(S) = IF S = {} THEN 0 ELSE 1
<1>1. CASE S = {}
  BY <1>1, FS_EmptySet
<1>2. CASE S # {}
  <2>1. PICK x \in S : TRUE
    BY <1>2
  <2>2. S = {x}
    BY <2>1
  <2> QED
    BY <1>2, <2>2, FS_Singleton
<1> QED
  BY <1>1, <1>2

\* Who holds what, as the count of OneOwner.
LEMMA OwnersCounted ==
  ASSUME SendInv, OwnInv
  PROVE  OneOwner
<1> SUFFICES ASSUME NEW p \in Packets
             PROVE  OwnerCount(p) = (IF heap[p] = "live" THEN 1 ELSE 0)
  BY DEF OneOwner
<1> DEFINE A == {i \in 1..Len(queue) : queue[i] = p}
           B == {t \in Threads : packet[t] = p}
           C == {t \in Threads : next_packet[t] = p}
           D == {q \in inflight : q = p}
<1>1. /\ Cardinality(A) = IF A = {} THEN 0 ELSE 1
      /\ Cardinality(B) = IF B = {} THEN 0 ELSE 1
      /\ Cardinality(C) = IF C = {} THEN 0 ELSE 1
      /\ Cardinality(D) = IF D = {} THEN 0 ELSE 1
  <2>1. \A x, y \in A : x = y
    BY DEF OwnInv, Apart
  <2>2. (\A x, y \in B : x = y) /\ (\A x, y \in C : x = y)
    BY TcpSendAssumption DEF OwnInv, Apart
  <2>3. \A x, y \in D : x = y
    OBVIOUS
  <2> HIDE DEF A, B, C, D
  <2> QED
    BY <2>1, <2>2, <2>3, AtMostOne
<1>2. /\ A # {} <=> p \in Elements(queue)
      /\ D # {} <=> p \in inflight
  BY DEF Elements
<1>3. heap[p] = "live" <=> A # {} \/ B # {} \/ C # {} \/ D # {}
  BY <1>2, HeldBy DEF OwnInv, LiveHeld
<1>4. /\ ~(A # {} /\ B # {}) /\ ~(A # {} /\ C # {}) /\ ~(A # {} /\ D # {})
      /\ ~(B # {} /\ C # {}) /\ ~(B # {} /\ D # {}) /\ ~(C # {} /\ D # {})
  BY <1>2, TcpSendAssumption DEF OwnInv, Apart
<1>5. OwnerCount(p) = Cardinality(A) + Cardinality(B) + Cardinality(C) + Cardinality(D)
  BY DEF OwnerCount
<1> HIDE DEF A, B, C, D
<1> QED
  BY <1>1, <1>3, <1>4, <1>5

-----------------------------------------------------------------------------
(* The send path implements SendChannel: every step is a step of the       *)
(* channel or leaves the channel as it is.                                 *)

\* A step of the channel, or a stutter.
ChannelStep == [Channel!CNext]_(Channel!cvars)

\* What is in the transmit slot.
LEMMA SlotBy ==
  ASSUME NEW p
  PROVE  p \in Slot <=>
           \/ \E t \in Threads : pc[t] \in {"send", "post"} /\ next_packet[t] = p
           \/ p \in inflight
           \/ \E t \in Threads : pc[t] \in {"iodone", "iofail"} /\ packet[t] = p
BY DEF Slot, Taken

\* And after a step.
LEMMA SlotByNext ==
  ASSUME NEW p
  PROVE  p \in Slot' <=>
           \/ \E t \in Threads : pc'[t] \in {"send", "post"} /\ next_packet'[t] = p
           \/ p \in inflight'
           \/ \E t \in Threads : pc'[t] \in {"iodone", "iofail"} /\ packet'[t] = p
BY DEF Slot, Taken

\* One transmitter, so one packet in the slot.
LEMMA SlotSingle ==
  ASSUME SendInv, NEW p \in Slot
  PROVE  Slot = {p}
<1>1. ASSUME NEW q \in Slot PROVE q = p
  BY SlotBy DEF SendInv, OneTransmitter, Transmitters
<1> QED
  BY <1>1

\* A step that moves a thread and neither fills nor empties the slot.
LEMMA SlotMove ==
  ASSUME SendInv, NEW t \in Threads, NEW s, Goto(t, s),
         UNCHANGED <<next_packet, inflight>>,
         \A u \in Threads : u # t => packet'[u] = packet[u],
         pc[t] \in {"send", "post"} <=> s \in {"send", "post"},
         pc[t] \notin {"iodone", "iofail"}, s \notin {"iodone", "iofail"}
  PROVE  Slot' = Slot
<1>1. \A u \in Threads : IF u = t THEN pc'[u] = s
                         ELSE pc'[u] = pc[u] /\ packet'[u] = packet[u]
  BY DEF SendInv, TypeOK, Goto
<1>2. ASSUME NEW p PROVE p \in Slot' <=> p \in Slot
  BY <1>1, SlotBy, SlotByNext
<1> QED
  BY <1>2

\* What the channel does not see.
LEMMA ChannelStutter ==
  ASSUME UNCHANGED <<stat, queue, accepted, wire>>, Slot' = Slot
  PROVE  ChannelStep
BY DEF ChannelStep, Channel!cvars

\* A list shows which packets were posted.
LEMMA PostedBy ==
  ASSUME NEW p
  PROVE  Channel!Posted(p) <=> p \in Elements(wire)
BY DEF Channel!Posted, Elements

\* Calls that come and go, take and leave the lock, count and double-check.
LEMMA QuietStep ==
  ASSUME SendInv, OwnInv, NEW t \in Threads,
         \/ t \in Writers /\ tcp_write(t)
         \/ WriteRefused(t) \/ WriteNotBuilt(t) \/ WriteBuilt(t) \/ EnterLock(t)
         \/ Overflow(t) \/ UndoOverflow(t) \/ IncPending(t) \/ DecPending(t)
         \/ SendReferenced(t) \/ ioclose(t)
  PROVE  ChannelStep
<1> USE DEF listvars, objvars
<1>1. CASE t \in Writers /\ tcp_write(t)
  BY <1>1, SlotMove, ChannelStutter DEF tcp_write, objrefr
<1>2. CASE WriteRefused(t) \/ WriteNotBuilt(t) \/ ioclose(t)
  BY <1>2, SlotMove, ChannelStutter DEF WriteRefused, WriteNotBuilt, ioclose
<1>3. CASE WriteBuilt(t)
  <2>1. \A u \in Threads : u # t => packet'[u] = packet[u]
    BY <1>3 DEF WriteBuilt, SendInv, TypeOK
  <2> QED
    BY <1>3, <2>1, SlotMove, ChannelStutter DEF WriteBuilt
<1>4. CASE EnterLock(t) \/ Overflow(t) \/ UndoOverflow(t)
  BY <1>4, SlotMove, ChannelStutter DEF EnterLock, Overflow, UndoOverflow
<1>5. CASE IncPending(t) \/ DecPending(t) \/ SendReferenced(t)
  BY <1>5, SlotMove, ChannelStutter DEF IncPending, DecPending, SendReferenced
<1> QED
  BY <1>1, <1>2, <1>3, <1>4, <1>5

\* The I/O thread looks at the cache.
LEMMA QuietIOStep ==
  ASSUME SendInv, OwnInv, NothingCached \/ SomethingCached
  PROVE  ChannelStep
<1> IO \in Threads
  BY DEF Threads
<1> QED
  BY SlotMove, ChannelStutter DEF NothingCached, SomethingCached, listvars, objvars

\* Linking a packet into the cache is Accept: nobody accepted it before, and
\* the test of the incremented count keeps the capacity.
LEMMA AddTailStep ==
  ASSUME SendInv, OwnInv, NEW t \in Threads, AddTail(t)
  PROVE  ChannelStep
<1>1. /\ packet[t] \in Packets /\ pc[t] = "locked" /\ t # IO
      /\ \A i \in 1..Len(accepted) : accepted[i] # packet[t]
  BY DEF SendInv, Carried, OwnInv, Remembered, Elements, AddTail
<1>2. stat # "unloaded"
  BY <1>1 DEF SendInv, UnloadedIsQuiet
<1>3. Len(queue) < CacheLimit - 1
  <2>1. ~\E u \in Threads : pc[u] = "undo"
    BY <1>1, TcpSendAssumption DEF SendInv, LockHeld
  <2> QED
    BY <2>1, TcpSendAssumption DEF SendInv, TypeOK, CacheCounted, AddTail
<1>4. Slot' = Slot
  <2>1. \A u \in Threads : u # t => packet'[u] = packet[u]
    BY DEF AddTail, SendInv, TypeOK
  <2> QED
    BY <1>1, <2>1, SlotMove DEF AddTail
<1>5. Channel!Accept(packet[t])
  BY <1>1, <1>2, <1>3, <1>4 DEF Channel!Accept, AddTail, objvars, SendInv, TypeOK
<1> QED
  BY <1>1, <1>5 DEF ChannelStep, Channel!CNext

\* Taking the head of the cache is Take: the transmitter is the only one.
LEMMA PopHeadStep ==
  ASSUME SendInv, OwnInv, NEW t \in Threads, PopHead(t)
  PROVE  ChannelStep
<1>1. pc[t] = "pop" /\ queue # <<>>
  BY DEF SendInv, Carried, PopHead
<1>2. Slot = {}
  BY <1>1, SlotBy DEF SendInv, OneTransmitter, Transmitters
<1>3. \A u \in Threads :
        IF u = t THEN pc'[u] = "send" /\ next_packet'[u] = Head(queue)
        ELSE pc'[u] = pc[u] /\ next_packet'[u] = next_packet[u]
  BY DEF PopHead, Goto, SendInv, TypeOK
<1>4. Slot' = {Head(queue)}
  <2>1. UNCHANGED <<packet, inflight>>
    BY DEF PopHead
  <2>2. Head(queue) \in Slot'
    BY <1>3, SlotByNext
  <2>3. ASSUME NEW p \in Slot', p # Head(queue) PROVE p \in Slot
    BY <1>3, <2>1, <2>3, SlotBy, SlotByNext
  <2> QED
    BY <1>2, <2>2, <2>3
<1>5. Channel!Take
  BY <1>1, <1>2, <1>4 DEF Channel!Take, PopHead, objvars
<1> QED
  BY <1>5 DEF ChannelStep, Channel!CNext

\* WSASend is Post: the packet was never on the wire before.
LEMMA SendPostedStep ==
  ASSUME SendInv, OwnInv, NEW t \in Threads, SendPosted(t)
  PROVE  ChannelStep
<1> DEFINE p == next_packet[t]
<1>1. /\ p \in Packets /\ pc[t] = "post" /\ p \notin Elements(wire)
      /\ stat # "unloaded"
  BY DEF SendInv, Carried, UnloadedIsQuiet, OwnInv, Remembered, SendPosted
<1>2. p \in Slot /\ Slot = {p}
  BY <1>1, SlotBy, SlotSingle
<1>3. \A u \in Threads :
        IF u = t THEN pc'[u] = "exit"
        ELSE pc'[u] = pc[u] /\ next_packet'[u] = next_packet[u]
  BY DEF SendPosted, Goto, SendInv, TypeOK
<1>4. inflight' = inflight \cup {p} /\ packet' = packet
  BY DEF SendPosted
<1>5. Slot' = Slot
  <2>1. p \in Slot'
    BY <1>4, SlotByNext
  <2>2. ASSUME NEW q \in Slot', q # p PROVE q \in Slot
    BY <1>3, <1>4, <2>2, SlotBy, SlotByNext
  <2> QED
    BY <1>2, <2>1, <2>2
<1>6. Channel!Post(p)
  BY <1>1, <1>2, <1>5, PostedBy DEF Channel!Post, SendPosted, objvars, listvars,
     SendInv, TypeOK
<1> QED
  BY <1>1, <1>6 DEF ChannelStep, Channel!CNext

\* A failed request is Fail: the slot loses the packet and the link closes.
LEMMA SendFailedStep ==
  ASSUME SendInv, OwnInv, NEW t \in Threads, SendFailed(t)
  PROVE  ChannelStep
<1> DEFINE p == next_packet[t]
<1>1. /\ p \in Packets /\ pc[t] \in {"send", "post"} /\ stat # "unloaded"
      /\ \A u \in Threads : next_packet[u] = p => u = t
      /\ \A u \in Threads : packet[u] # p
      /\ p \notin inflight
  BY TcpSendAssumption DEF SendInv, Carried, UnloadedIsQuiet, OwnInv, Apart,
     SendFailed
<1>2. p \in Slot /\ Slot = {p}
  BY <1>1, SlotBy, SlotSingle
<1>3. \A u \in Threads :
        IF u = t THEN pc'[u] = "exit"
        ELSE pc'[u] = pc[u] /\ next_packet'[u] = next_packet[u]
  BY DEF SendFailed, Goto, SendInv, TypeOK
<1>4. Slot' \subseteq Slot /\ p \notin Slot'
  BY <1>1, <1>3, SlotBy, SlotByNext DEF SendFailed
<1>5. Slot' = {}
  BY <1>2, <1>4
<1>6. Channel!Fail(p)
  BY <1>1, <1>2, <1>5 DEF Channel!Fail, SendFailed, listvars, SendInv, TypeOK
<1> QED
  BY <1>1, <1>6 DEF ChannelStep, Channel!CNext

\* The decrement of the I/O thread is Release.
LEMMA ReleaseStep ==
  ASSUME SendInv, OwnInv, ReleasePending \/ ReleaseFailed
  PROVE  ChannelStep
<1> DEFINE p == packet[IO]
<1> IO \in Threads
  BY DEF Threads
<1>1. /\ p \in Packets /\ pc[IO] \in {"iodone", "iofail"} /\ p \in Elements(wire)
      /\ p \notin inflight
      /\ \A u \in Threads : next_packet[u] # p
      /\ \A u \in Threads : pc[u] \in {"iodone", "iofail"} => u = IO
  BY TcpSendAssumption DEF SendInv, Carried, OwnInv, Apart, Remembered,
     ReleasePending, ReleaseFailed
<1>2. p \in Slot /\ Slot = {p}
  BY <1>1, SlotBy, SlotSingle
<1>3. /\ UNCHANGED <<stat, queue, accepted, wire, next_packet, inflight>>
      /\ Goto(IO, "enter")
  BY DEF ReleasePending, ReleaseFailed, objvars, listvars
<1>4. \A u \in Threads : IF u = IO THEN pc'[u] = "enter" ELSE pc'[u] = pc[u]
  BY <1>3 DEF Goto, SendInv, TypeOK
<1>5. Slot' \subseteq Slot /\ p \notin Slot'
  BY <1>1, <1>3, <1>4, SlotBy, SlotByNext
<1>6. Slot' = {}
  BY <1>2, <1>5
<1>7. Channel!Release(p)
  BY <1>1, <1>2, <1>3, <1>6, PostedBy DEF Channel!Release
<1> QED
  BY <1>1, <1>7 DEF ChannelStep, Channel!CNext

\* A completion keeps the packet in the slot until the decrement; on a link
\* that is closing the packet is freed and the slot released at once.
LEMMA CompletedStep ==
  ASSUME SendInv, OwnInv, NEW p \in Packets, CompleteSent(p) \/ CompleteFailed(p)
  PROVE  ChannelStep
<1> IO \in Threads
  BY DEF Threads
<1>1. /\ pc[IO] = "idle" /\ p \in inflight /\ inflight' = inflight \ {p}
      /\ p \in Elements(wire)
      /\ UNCHANGED <<stat, queue, next_packet, accepted, wire>>
      /\ \A u \in Threads : packet[u] # p /\ next_packet[u] # p
  BY DEF OwnInv, Apart, Remembered, CompleteSent, CompleteFailed, objrefr,
     objvars, listvars
<1>2. p \in Slot /\ Slot = {p}
  BY <1>1, SlotBy, SlotSingle
<1>3. ASSUME NEW s \in {"iodone", "iofail"}, Goto(IO, s),
             packet' = [packet EXCEPT ![IO] = p]
      PROVE  ChannelStep
  <2>1. \A u \in Threads : IF u = IO THEN packet'[u] = p /\ pc'[u] = s
                           ELSE packet'[u] = packet[u] /\ pc'[u] = pc[u]
    BY <1>3 DEF SendInv, TypeOK, Goto
  <2>2. p \in Slot'
    BY <1>3, <2>1, SlotByNext
  <2>3. \A q \in Slot' : q \in Slot
    BY <1>1, <1>2, <2>1, SlotBy, SlotByNext
  <2>4. Slot' = Slot
    BY <1>2, <2>2, <2>3
  <2> QED
    BY <1>1, <2>4, ChannelStutter
<1>4. CASE UNCHANGED <<packet, pc>>
  <2>1. Slot' \subseteq Slot /\ p \notin Slot'
    BY <1>1, <1>4, SlotBy, SlotByNext
  <2>2. Slot' = {}
    BY <1>2, <2>1
  <2>3. Channel!Release(p)
    BY <1>1, <1>2, <2>2, PostedBy DEF Channel!Release
  <2> QED
    BY <2>3 DEF ChannelStep, Channel!CNext
<1> QED
  BY <1>3, <1>4 DEF CompleteSent, CompleteFailed

\* A completion that ends the link is Fail, or Release when it had ended before.
LEMMA DisconnectedStep ==
  ASSUME SendInv, OwnInv, NEW p \in Packets, CompleteDisconnected(p)
  PROVE  ChannelStep
<1>1. /\ p \in inflight /\ inflight' = inflight \ {p} /\ p \in Elements(wire)
      /\ UNCHANGED <<pc, packet, next_packet, accepted, wire>>
      /\ \A u \in Threads : packet[u] # p /\ next_packet[u] # p
  BY DEF OwnInv, Apart, Remembered, CompleteDisconnected
<1>2. p \in Slot /\ Slot = {p}
  BY <1>1, SlotBy, SlotSingle
<1>3. Slot' \subseteq Slot /\ p \notin Slot'
  BY <1>1, SlotBy, SlotByNext
<1>4. Slot' = {}
  BY <1>2, <1>3
<1>5. CASE stat = "normal"
  <2>1. \/ stat' = "unloaded" /\ queue' = <<>>
        \/ stat' = "closewait" /\ queue' = queue
    BY <1>5 DEF CompleteDisconnected, objclos, tcp_unload, listvars
  <2>2. Channel!Fail(p)
    BY <1>1, <1>2, <1>4, <1>5, <2>1 DEF Channel!Fail
  <2> QED
    BY <2>2 DEF ChannelStep, Channel!CNext
<1>6. CASE stat # "normal"
  <2>1. stat' = stat /\ queue' = queue
    BY <1>6 DEF CompleteDisconnected, objclos, listvars
  <2>2. Channel!Release(p)
    BY <1>1, <1>2, <1>4, <2>1, PostedBy DEF Channel!Release
  <2> QED
    BY <2>2 DEF ChannelStep, Channel!CNext
<1> QED
  BY <1>5, <1>6

\* The peer or tcp_destroy closes the link: Close, or Discard when no call is
\* under way.
LEMMA CloseStep ==
  ASSUME SendInv, OwnInv, PeerClosed \/ \E t \in Writers : tcp_destroy(t)
  PROVE  ChannelStep
<1>1. CASE PeerClosed
  <2>1. Slot' = Slot
    BY <1>1 DEF PeerClosed, Slot, Taken
  <2>2. /\ stat = "normal" /\ UNCHANGED <<accepted, wire>>
        /\ \/ stat' = "unloaded" /\ queue' = <<>>
           \/ stat' = "closewait" /\ queue' = queue
    BY <1>1 DEF PeerClosed, objclos, tcp_unload, listvars
  <2>3. Channel!Close \/ Channel!Discard
    BY <2>1, <2>2 DEF Channel!Close, Channel!Discard
  <2> QED
    BY <2>3 DEF ChannelStep, Channel!CNext
<1>2. ASSUME NEW t \in Writers, tcp_destroy(t) PROVE ChannelStep
  <2>1. Slot' = Slot
    BY <1>2, SlotMove DEF tcp_destroy, Threads
  <2>2. Channel!Close
    BY <1>2, <2>1 DEF Channel!Close, tcp_destroy, listvars
  <2> QED
    BY <2>2 DEF ChannelStep, Channel!CNext
<1> QED
  BY <1>1, <1>2

\* The end of the last call on a closing link is Discard.
LEMMA ReturnStep ==
  ASSUME SendInv, OwnInv, NEW t \in Threads, Return(t)
  PROVE  ChannelStep
<1>1. \A u \in Threads : u # t => packet'[u] = packet[u]
  BY DEF Return, SendInv, TypeOK
<1>2. Slot' = Slot
  BY <1>1, SlotMove DEF Return
<1>3. CASE stat' = "unloaded" /\ queue' = <<>>
  <2>1. Channel!Discard
    BY <1>2, <1>3 DEF Channel!Discard, Return
  <2> QED
    BY <2>1 DEF ChannelStep, Channel!CNext
<1>4. CASE UNCHANGED <<stat, queue>>
  BY <1>2, <1>4, ChannelStutter DEF Return
<1> QED
  BY <1>3, <1>4 DEF Return, objdefr, tcp_unload, listvars

\* Every step of the send path is one of the channel.
LEMMA NextStep ==
  ASSUME SendInv, OwnInv, [Next]_vars
  PROVE  ChannelStep
<1>1. CASE UNCHANGED vars
  <2>1. Slot' = Slot
    BY <1>1 DEF vars, Slot, Taken
  <2> QED
    BY <1>1, <2>1, ChannelStutter DEF vars
<1>2. ASSUME NEW t \in Writers, tcp_write(t) \/ WriteNoEntry(t) \/ tcp_destroy(t)
      PROVE  ChannelStep
  BY <1>1, <1>2, QuietStep, CloseStep DEF Threads, WriteNoEntry
<1>3. ASSUME NEW t \in Threads, Continue(t) PROVE ChannelStep
  BY <1>3, QuietStep, AddTailStep, PopHeadStep, SendPostedStep, SendFailedStep,
     ReturnStep DEF Continue
<1>4. CASE ContinueIO
  BY <1>4, QuietIOStep, ReleaseStep DEF ContinueIO
<1>5. ASSUME NEW p \in Packets, Complete(p) PROVE ChannelStep
  BY <1>5, CompletedStep, DisconnectedStep DEF Complete
<1> QED
  BY <1>1, <1>2, <1>3, <1>4, <1>5, CloseStep DEF Next

\* A link that was just set up is an empty channel.
LEMMA InitChannel == Init => Channel!CInit
<1> SUFFICES ASSUME Init PROVE Channel!CInit
  OBVIOUS
<1>1. Slot = {}
  BY DEF Init, Slot, Taken
<1> QED
  BY <1>1 DEF Init, Channel!CInit

-----------------------------------------------------------------------------
(* What is on the wire.                                                    *)

\* At the beginning nothing was accepted.
LEMMA InitFifo == Init => FifoInv
<1> SUFFICES ASSUME Init PROVE FifoInv
  OBVIOUS
<1>1. Posting = {}
  BY DEF Init, Posting
<1> QED
  BY <1>1 DEF Init, FifoInv, InStep

\* A step that touches neither the lists nor who is posting.
LEMMA FifoMove ==
  ASSUME FifoInv, UNCHANGED <<queue, accepted, wire, next_packet>>,
         Posting' = Posting, Broken => Broken',
         stat = "unloaded" => stat' = "unloaded"
  PROVE  FifoInv'
<1>1. InStep => InStep'
  BY DEF InStep
<1> QED
  BY <1>1 DEF FifoInv

\* Steps of a thread that change neither the transmitters nor the pending
\* count.
LEMMA QuietFifo ==
  ASSUME SendInv, FifoInv, NEW t \in Threads,
         \/ tcp_write(t) \/ tcp_destroy(t) \/ WriteRefused(t) \/ WriteNotBuilt(t)
         \/ WriteBuilt(t) \/ EnterLock(t) \/ Overflow(t) \/ UndoOverflow(t)
         \/ SendReferenced(t) \/ ioclose(t)
         \/ (t = IO /\ (NothingCached \/ SomethingCached))
  PROVE  FifoInv'
<1> USE DEF objvars, listvars
<1>1. UNCHANGED <<queue, pending, next_packet, inflight, accepted, wire>>
  BY DEF tcp_write, tcp_destroy, WriteRefused, WriteNotBuilt, WriteBuilt,
     EnterLock, Overflow, UndoOverflow, SendReferenced, ioclose, NothingCached,
     SomethingCached
<1>2. stat' = stat \/ (stat = "normal" /\ stat' = "closewait")
  BY DEF tcp_write, tcp_destroy, WriteRefused, WriteNotBuilt, WriteBuilt,
     EnterLock, Overflow, UndoOverflow, SendReferenced, ioclose, NothingCached,
     SomethingCached, objrefr
<1>3. PICK s \in Steps :
        /\ Goto(t, s)
        /\ \/ pc[t] = "send" /\ s = "post"
           \/ /\ pc[t] \in {"idle", "check", "enter", "locked", "undo", "ioclose"}
              /\ s \in {"check", "enter", "locked", "undo", "inc", "exit",
                        "ioclose"}
  BY DEF tcp_write, tcp_destroy, WriteRefused, WriteNotBuilt, WriteBuilt,
     EnterLock, Overflow, UndoOverflow, SendReferenced, ioclose, NothingCached,
     SomethingCached, Steps
<1>4. \A u \in Threads : pc'[u] = IF u = t THEN s ELSE pc[u]
  BY <1>3 DEF SendInv, TypeOK, Goto
<1>5. Posting' = Posting /\ Transmitters' = Transmitters
  BY <1>3, <1>4 DEF Posting, Transmitters
<1>6. Doubting' <=> Doubting
  BY <1>3, <1>4 DEF Doubting
<1>7. Broken => Broken'
  BY <1>1, <1>2, <1>5, <1>6 DEF Broken, Transmitting
<1> QED
  BY <1>1, <1>2, <1>5, <1>7, FifoMove

\* The double check: in a broken link the count is never read as one after an
\* increment nor as zero after a decrement, so nobody becomes a transmitter.
LEMMA DoubtFifo ==
  ASSUME SendInv, FifoInv, NEW t \in Threads, IncPending(t) \/ DecPending(t)
  PROVE  FifoInv'
<1> USE DEF objvars, listvars
<1>1. UNCHANGED <<stat, queue, next_packet, inflight, accepted, wire>>
  BY DEF IncPending, DecPending
<1>2. \A u \in Threads : pc[u] \in {"inc", "dec"} => u = t
  BY DEF SendInv, LockHeld, IncPending, DecPending
<1>3. PICK s \in {"dec", "pop", "inc", "exit"} : Goto(t, s)
  BY DEF IncPending, DecPending
<1>4. \A u \in Threads : pc'[u] = IF u = t THEN s ELSE pc[u]
  BY <1>3 DEF SendInv, TypeOK, Goto
<1>5. pc[t] \in {"inc", "dec"}
  BY DEF IncPending, DecPending
<1>6. Posting' = Posting
  BY <1>3, <1>4, <1>5 DEF Posting
<1>7. ASSUME Broken PROVE Broken'
  <2>1. pending \in Nat /\ stat # "normal" /\ Transmitters = {} /\ inflight = {}
    BY <1>7 DEF SendInv, TypeOK, Broken, Transmitting
  <2>2. CASE IncPending(t)
    <3>1. pc[t] = "inc" /\ ~Doubting
      BY <1>2, <2>2 DEF Doubting, IncPending
    <3>2. pending = 1 /\ pending' = 2
      BY <1>7, <2>2, <3>1 DEF Broken, IncPending
    <3>3. Goto(t, "dec")
      BY <2>2, <3>2 DEF IncPending
    <3>4. \A u \in Threads : pc'[u] = IF u = t THEN "dec" ELSE pc[u]
      BY <3>3 DEF SendInv, TypeOK, Goto
    <3>5. Doubting' /\ Transmitters' = {}
      BY <2>1, <3>4 DEF Doubting, Transmitters
    <3> QED
      BY <1>1, <2>1, <3>2, <3>5 DEF Broken, Transmitting
  <2>3. CASE DecPending(t)
    <3>1. pc[t] = "dec" /\ Doubting
      BY <2>3 DEF Doubting, DecPending
    <3>2. pending = 2 /\ pending' = 1
      BY <1>7, <2>3, <3>1 DEF Broken, DecPending
    <3>3. Goto(t, "exit")
      BY <2>3, <3>2 DEF DecPending
    <3>4. \A u \in Threads : pc'[u] = IF u = t THEN "exit" ELSE pc[u]
      BY <3>3 DEF SendInv, TypeOK, Goto
    <3>5. ~Doubting' /\ Transmitters' = {}
      BY <1>2, <2>1, <3>4 DEF Doubting, Transmitters
    <3> QED
      BY <1>1, <2>1, <3>2, <3>5 DEF Broken, Transmitting
  <2> QED
    BY <2>2, <2>3
<1> QED
  BY <1>1, <1>6, <1>7, FifoMove

\* The I/O thread accounts for a transmission that ended: the link was not
\* broken, and the order on the wire is not touched.
LEMMA ReleaseFifo ==
  ASSUME SendInv, FifoInv, ReleasePending \/ ReleaseFailed
  PROVE  FifoInv'
<1> USE DEF objvars, listvars
<1>1. UNCHANGED <<stat, queue, next_packet, accepted, wire>> /\ Goto(IO, "enter")
  BY DEF ReleasePending, ReleaseFailed
<1>2. IO \in Threads /\ pc[IO] \in {"iodone", "iofail"}
  BY DEF Threads, ReleasePending, ReleaseFailed
<1>3. \A u \in Threads : pc'[u] = IF u = IO THEN "enter" ELSE pc[u]
  BY <1>1 DEF SendInv, TypeOK, Goto
<1>4. Posting' = Posting
  BY <1>2, <1>3 DEF Posting
<1>5. ~Broken
  BY <1>2 DEF Broken, Transmitting, Transmitters
<1> QED
  BY <1>1, <1>4, <1>5, FifoMove

\* So does a completion, whether the link can still be referenced or not.
LEMMA CompletedFifo ==
  ASSUME SendInv, FifoInv, NEW p \in Packets, CompleteSent(p) \/ CompleteFailed(p)
  PROVE  FifoInv'
<1> USE DEF objvars, listvars
<1>1. UNCHANGED <<stat, queue, next_packet, accepted, wire>>
  BY DEF CompleteSent, CompleteFailed, objrefr
<1>2. /\ pc[IO] = "idle" /\ p \in inflight
      /\ \/ UNCHANGED pc
         \/ \E s \in {"iodone", "iofail"} : Goto(IO, s)
  BY DEF CompleteSent, CompleteFailed
<1>3. Posting' = Posting
  BY <1>2 DEF SendInv, TypeOK, Goto, Posting
<1>4. ~Broken
  BY <1>2 DEF Broken, Transmitting
<1> QED
  BY <1>1, <1>3, <1>4, FifoMove

\* The cache grows at the end where accepted grows.
LEMMA AddTailFifo ==
  ASSUME SendInv, FifoInv, NEW t \in Threads, AddTail(t)
  PROVE  FifoInv'
<1> USE DEF objvars, listvars
<1> DEFINE p == packet[t]
<1>1. /\ p \in Packets /\ queue \in Seq(Packets) /\ accepted \in Seq(Packets)
      /\ wire \in Seq(Packets) /\ pc[t] = "locked" /\ pc \in [Threads -> Steps]
  BY DEF SendInv, TypeOK, Carried, AddTail
<1>2. /\ Goto(t, "inc") /\ queue' = Append(queue, p) /\ accepted' = Append(accepted, p)
      /\ UNCHANGED <<stat, pending, next_packet, inflight, wire>>
  BY DEF AddTail
<1>3. \A u \in Threads : pc'[u] = IF u = t THEN "inc" ELSE pc[u]
  BY <1>1, <1>2 DEF Goto
<1>4. Posting' = Posting /\ Transmitters' = Transmitters /\ (Doubting' <=> Doubting)
  BY <1>1, <1>3 DEF Posting, Transmitters, Doubting
<1>5. /\ Len(queue) \in Nat /\ Len(accepted) \in Nat /\ Len(wire) \in Nat
      /\ Len(queue') = Len(queue) + 1 /\ Len(accepted') = Len(accepted) + 1
      /\ queue'[Len(queue) + 1] = p /\ accepted'[Len(accepted) + 1] = p
      /\ \A i \in 1..Len(queue) : queue'[i] = queue[i]
      /\ \A i \in 1..Len(accepted) : accepted'[i] = accepted[i]
  BY <1>1, <1>2
<1>6. Len(wire') <= Len(accepted') /\ \A i \in 1..Len(wire') : wire'[i] = accepted'[i]
  <2>1. Len(wire) <= Len(accepted) /\ \A i \in 1..Len(wire) : wire[i] = accepted[i]
    BY DEF FifoInv
  <2>2. \A i \in 1..Len(wire) : i \in 1..Len(accepted)
    BY <1>5, <2>1
  <2> QED
    BY <1>2, <1>5, <2>1, <2>2
<1>7. ASSUME InStep PROVE InStep'
  <2> DEFINE n == Len(wire) + (IF Posting = {} THEN 0 ELSE 1)
  <2>1. /\ n \in Nat /\ n \in {Len(wire), Len(wire) + 1}
        /\ Len(accepted) = n + Len(queue)
        /\ \A i \in 1..Len(queue) : queue[i] = accepted[n + i]
        /\ \A u \in Posting : next_packet[u] = accepted[Len(wire) + 1]
        /\ Posting # {} => n = Len(wire) + 1
    BY <1>5, <1>7 DEF InStep
  <2>2. n' = n
    BY <1>2, <1>4
  <2> HIDE DEF n
  <2>3. Len(accepted') = n + Len(queue')
    BY <1>5, <2>1
  <2>4. ASSUME NEW i \in 1..Len(queue') PROVE queue'[i] = accepted'[n + i]
    <3>1. CASE i \in 1..Len(queue)
      <4>1. n + i \in 1..Len(accepted)
        BY <1>5, <2>1, <3>1
      <4> QED
        BY <1>5, <2>1, <3>1, <4>1
    <3>2. CASE i = Len(queue) + 1
      <4>1. n + i = Len(accepted) + 1
        BY <1>5, <2>1, <3>2
      <4> QED
        BY <1>5, <3>2, <4>1
    <3> QED
      BY <1>5, <3>1, <3>2
  <2>5. ASSUME NEW u \in Posting' PROVE next_packet'[u] = accepted'[Len(wire') + 1]
    <3>1. u \in Posting /\ n = Len(wire) + 1
      BY <1>4, <2>1
    <3>2. Len(wire) + 1 \in 1..Len(accepted)
      BY <1>5, <2>1, <3>1
    <3> QED
      BY <1>2, <1>5, <2>1, <3>1, <3>2
  <2> QED
    BY <2>2, <2>3, <2>4, <2>5 DEF InStep, n
<1>8. Broken => Broken'
  BY <1>2, <1>4 DEF Broken, Transmitting
<1> QED
  BY <1>2, <1>6, <1>7, <1>8 DEF FifoInv

\* The packet that is taken is the one behind the last of the wire.
LEMMA PopHeadFifo ==
  ASSUME SendInv, FifoInv, NEW t \in Threads, PopHead(t)
  PROVE  FifoInv'
<1> USE DEF objvars
<1>1. /\ queue \in Seq(Packets) /\ queue # <<>> /\ pc \in [Threads -> Steps]
      /\ wire \in Seq(Packets) /\ accepted \in Seq(Packets)
      /\ next_packet \in [Threads -> Packets \cup {NoPkt}]
      /\ pc[t] = "pop" /\ stat # "unloaded" /\ t \in Transmitters
  BY DEF SendInv, TypeOK, Carried, UnloadedIsQuiet, Transmitters, PopHead
<1>2. /\ next_packet' = [next_packet EXCEPT ![t] = Head(queue)]
      /\ queue' = Tail(queue) /\ Goto(t, "send") /\ UNCHANGED <<stat, accepted, wire>>
  BY DEF PopHead
<1>3. Posting = {}
  BY <1>1 DEF SendInv, OneTransmitter, Posting, Transmitters
<1>4. \A u \in Threads : pc'[u] = IF u = t THEN "send" ELSE pc[u]
  BY <1>1, <1>2 DEF Goto
<1>5. Posting' = {t}
  BY <1>3, <1>4 DEF Posting
<1>6. InStep
  BY <1>1 DEF FifoInv, Broken, Transmitting
<1>7. /\ Len(queue) \in Nat \ {0} /\ Len(wire) \in Nat /\ Len(queue') = Len(queue) - 1
      /\ Head(queue) = queue[1] /\ \A i \in 1..Len(queue') : queue'[i] = queue[i + 1]
      /\ next_packet'[t] = Head(queue)
  BY <1>1, <1>2
<1>8. /\ Len(accepted) = Len(wire) + Len(queue)
      /\ \A i \in 1..Len(queue) : queue[i] = accepted[Len(wire) + i]
  BY <1>3, <1>6, <1>7 DEF InStep
<1>9. Len(accepted') = Len(wire') + 1 + Len(queue')
  BY <1>2, <1>7, <1>8
<1>10. ASSUME NEW i \in 1..Len(queue')
       PROVE  queue'[i] = accepted'[Len(wire') + 1 + i]
  <2>1. i + 1 \in 1..Len(queue) /\ Len(wire) + (i + 1) = Len(wire) + 1 + i
    BY <1>7
  <2>2. queue[i + 1] = accepted[Len(wire) + (i + 1)]
    BY <1>8, <2>1
  <2> QED
    BY <1>2, <1>7, <2>1, <2>2
<1>11. next_packet'[t] = accepted'[Len(wire') + 1]
  <2>1. 1 \in 1..Len(queue)
    BY <1>7
  <2> QED
    BY <1>2, <1>7, <1>8, <2>1
<1>12. InStep'
  BY <1>5, <1>9, <1>10, <1>11 DEF InStep
<1> QED
  BY <1>2, <1>12 DEF FifoInv

\* WSASend takes the packet that is next in the order of acceptance.
LEMMA SendPostedFifo ==
  ASSUME SendInv, FifoInv, NEW t \in Threads, SendPosted(t)
  PROVE  FifoInv'
<1> USE DEF objvars, listvars
<1> DEFINE p == next_packet[t]
<1>1. /\ wire \in Seq(Packets) /\ accepted \in Seq(Packets) /\ queue \in Seq(Packets)
      /\ p \in Packets /\ pc[t] = "post" /\ pc \in [Threads -> Steps]
      /\ stat # "unloaded" /\ t \in Transmitters /\ t \in Posting
  BY DEF SendInv, TypeOK, Carried, UnloadedIsQuiet, Transmitters, Posting, SendPosted
<1>2. /\ wire' = Append(wire, p) /\ Goto(t, "exit")
      /\ UNCHANGED <<stat, queue, accepted>>
  BY DEF SendPosted
<1>3. \A u \in Posting : u = t
  BY <1>1 DEF SendInv, OneTransmitter, Posting, Transmitters
<1>4. \A u \in Threads : pc'[u] = IF u = t THEN "exit" ELSE pc[u]
  BY <1>1, <1>2 DEF Goto
<1>5. Posting' = {}
  BY <1>3, <1>4 DEF Posting
<1>6. InStep
  BY <1>1 DEF FifoInv, Broken, Transmitting
<1>7. /\ Len(wire) \in Nat /\ Len(queue) \in Nat /\ Len(wire') = Len(wire) + 1
      /\ wire'[Len(wire) + 1] = p /\ \A i \in 1..Len(wire) : wire'[i] = wire[i]
  BY <1>1, <1>2
<1>8. /\ Len(accepted) = Len(wire) + 1 + Len(queue)
      /\ \A i \in 1..Len(queue) : queue[i] = accepted[Len(wire) + 1 + i]
      /\ p = accepted[Len(wire) + 1]
  BY <1>1, <1>6 DEF InStep
<1>9. InStep'
  BY <1>2, <1>5, <1>7, <1>8 DEF InStep
<1>10. Len(wire') <= Len(accepted')
  BY <1>2, <1>7, <1>8
<1>11. ASSUME NEW i \in 1..Len(wire') PROVE wire'[i] = accepted'[i]
  <2>1. CASE i \in 1..Len(wire)
    BY <1>2, <1>7, <2>1 DEF FifoInv
  <2>2. CASE i = Len(wire) + 1
    BY <1>2, <1>7, <1>8, <2>2
  <2> QED
    BY <1>7, <2>1, <2>2
<1> QED
  BY <1>9, <1>10, <1>11 DEF FifoInv

\* A packet that WSASend refuses breaks the link: the count stays raised, so
\* no packet behind it is ever taken.
LEMMA SendFailedFifo ==
  ASSUME SendInv, FifoInv, NEW t \in Threads, SendFailed(t)
  PROVE  FifoInv'
<1> USE DEF objvars, listvars
<1>1. /\ pc[t] \in {"send", "post"} /\ pc \in [Threads -> Steps]
      /\ t \in Transmitters
  BY DEF SendInv, TypeOK, Transmitters, SendFailed
<1>2. /\ Goto(t, "exit") /\ stat' # "normal"
      /\ UNCHANGED <<queue, accepted, wire, pending, inflight>>
  BY DEF SendFailed
<1>3. \A u \in Threads : pc'[u] = IF u = t THEN "exit" ELSE pc[u]
  BY <1>1, <1>2 DEF Goto
<1>4. inflight' = {} /\ Transmitters' = {}
  BY <1>1, <1>2, <1>3 DEF SendInv, OneTransmitter, Transmitters
<1>5. Doubting' <=> Doubting
  BY <1>1, <1>3 DEF Doubting
<1>6. pending = (IF Doubting THEN 2 ELSE 1)
  BY <1>1 DEF SendInv, PendingCounted, Transmitting
<1>7. Broken'
  BY <1>2, <1>4, <1>5, <1>6 DEF Broken, Transmitting
<1> QED
  BY <1>2, <1>7 DEF FifoInv

\* The shutdown by packet closes the link or unloads it; the wire stays.
LEMMA ShutdownFifo ==
  ASSUME SendInv, FifoInv,
         (\E p \in Packets : CompleteDisconnected(p)) \/ PeerClosed
  PROVE  FifoInv'
<1> USE DEF objvars, listvars
<1>1. /\ UNCHANGED <<pc, pending, next_packet, accepted, wire>>
      /\ inflight' \subseteq inflight
  BY DEF CompleteDisconnected, PeerClosed
<1>2. \/ stat' = "unloaded"
      \/ stat' # "normal" /\ UNCHANGED queue /\ stat # "unloaded"
      \/ stat' = stat /\ UNCHANGED queue
  BY DEF CompleteDisconnected, PeerClosed, objclos, tcp_unload
<1>3. CASE stat' = "unloaded"
  BY <1>1, <1>3 DEF FifoInv
<1>4. CASE stat' # "unloaded"
  <2>1. Posting' = Posting /\ Transmitters' = Transmitters /\ (Doubting' <=> Doubting)
    BY <1>1 DEF Posting, Transmitters, Doubting
  <2>2. Broken => Broken'
    BY <1>1, <1>2, <2>1 DEF Broken, Transmitting
  <2> QED
    BY <1>1, <1>2, <1>4, <2>1, <2>2, FifoMove
<1> QED
  BY <1>3, <1>4

\* Leaving a call unloads the link or leaves the lists alone.
LEMMA ReturnFifo ==
  ASSUME SendInv, FifoInv, NEW t \in Threads, Return(t)
  PROVE  FifoInv'
<1> USE DEF objvars, listvars
<1>1. /\ pc[t] = "exit" /\ Goto(t, "idle") /\ pc \in [Threads -> Steps]
      /\ UNCHANGED <<pending, next_packet, inflight, accepted, wire>>
  BY DEF SendInv, TypeOK, Return
<1>2. stat' = "unloaded" \/ (stat' = stat /\ UNCHANGED queue)
  BY DEF Return, objdefr, tcp_unload
<1>3. \A u \in Threads : pc'[u] = IF u = t THEN "idle" ELSE pc[u]
  BY <1>1 DEF Goto
<1>4. Posting' = Posting /\ Transmitters' = Transmitters /\ (Doubting' <=> Doubting)
  BY <1>1, <1>3 DEF Posting, Transmitters, Doubting
<1>5. CASE stat' = "unloaded"
  BY <1>1, <1>5 DEF FifoInv
<1>6. CASE stat' = stat /\ UNCHANGED queue
  <2>1. Broken => Broken'
    BY <1>1, <1>4, <1>6 DEF Broken, Transmitting
  <2> QED
    BY <1>1, <1>4, <1>6, <2>1, FifoMove
<1> QED
  BY <1>2, <1>5, <1>6

\* Every step of the send path keeps the order.
LEMMA NextFifo ==
  ASSUME SendInv, FifoInv, [Next]_vars
  PROVE  FifoInv'
<1>1. ASSUME UNCHANGED vars PROVE FifoInv'
  BY <1>1, FifoMove DEF vars, Posting, Broken, Transmitting, Transmitters, Doubting
<1>2. ASSUME NEW t \in Writers, tcp_write(t) \/ WriteNoEntry(t) \/ tcp_destroy(t)
      PROVE  FifoInv'
  BY <1>1, <1>2, QuietFifo DEF Threads, WriteNoEntry
<1>3. ASSUME NEW t \in Threads, Continue(t) PROVE FifoInv'
  BY <1>3, QuietFifo, DoubtFifo, AddTailFifo, PopHeadFifo, SendPostedFifo,
     SendFailedFifo, ReturnFifo DEF Continue
<1>4. CASE ContinueIO
  <2>1. IO \in Threads
    BY DEF Threads
  <2> QED
    BY <1>4, <2>1, QuietFifo, ReleaseFifo DEF ContinueIO
<1>5. ASSUME NEW p \in Packets, Complete(p) PROVE FifoInv'
  BY <1>5, CompletedFifo, ShutdownFifo DEF Complete
<1> QED
  BY <1>1, <1>2, <1>3, <1>4, <1>5, ShutdownFifo DEF Next

\* In an open link each accepted packet is on the wire, taken or cached.
LEMMA FifoSent ==
  ASSUME SendInv, FifoInv
  PROVE  PostedInOrder
<1>1. ASSUME stat = "normal", NEW p \in Elements(accepted)
      PROVE  p \in Elements(wire) \cup Taken \cup Elements(queue)
  <2>1. InStep
    BY <1>1 DEF FifoInv, Broken
  <2>2. Len(wire) \in Nat /\ Len(queue) \in Nat /\ Len(accepted) \in Nat
    BY DEF SendInv, TypeOK
  <2>3. PICK i \in 1..Len(accepted) : p = accepted[i]
    BY <1>1 DEF Elements
  <2>4. CASE i \in 1..Len(wire)
    BY <2>3, <2>4 DEF FifoInv, Elements
  <2>5. CASE i = Len(wire) + 1 /\ Posting # {}
    BY <2>1, <2>3, <2>5 DEF InStep, Posting, Taken
  <2>6. CASE i > Len(wire) /\ ~(i = Len(wire) + 1 /\ Posting # {})
    <3> DEFINE n == Len(wire) + (IF Posting = {} THEN 0 ELSE 1)
    <3>1. n \in Nat /\ Len(accepted) = n + Len(queue) /\ n < i
      BY <2>1, <2>2, <2>3, <2>6 DEF InStep
    <3>2. \A j \in 1..Len(queue) : queue[j] = accepted[n + j]
      BY <2>1 DEF InStep
    <3> HIDE DEF n
    <3>3. i - n \in 1..Len(queue) /\ n + (i - n) = i
      BY <2>2, <3>1
    <3>4. p = queue[i - n]
      BY <2>3, <3>2, <3>3
    <3> QED
      BY <3>3, <3>4 DEF Elements
  <2> QED
    BY <2>2, <2>3, <2>4, <2>5, <2>6
<1> QED
  BY <1>1 DEF FifoInv, PostedInOrder

\* The steps left, by the place of the thread.
LEMMA StepsLeftAt ==
  ASSUME SendInv, NEW t \in Threads
  PROVE  /\ pc[t] = "idle" => StepsLeft(t) = 0
         /\ pc[t] = "exit" => StepsLeft(t) = 1
         /\ pc[t] \in {"post", "undo", "ioclose"} => StepsLeft(t) = 2
         /\ pc[t] = "send" => StepsLeft(t) = 3
         /\ pc[t] = "pop" => StepsLeft(t) = 4
         /\ pc[t] = "inc" => StepsLeft(t) = IF pending = 0 THEN 5 ELSE 7
         /\ pc[t] = "dec" => StepsLeft(t) = 6
         /\ pc[t] = "locked" => StepsLeft(t) = 8
         /\ pc[t] = "enter" => StepsLeft(t) = 9
         /\ pc[t] \in {"check", "iodone", "iofail"} => StepsLeft(t) = 10
BY DEF StepsLeft

\* The same in the next state.
LEMMA StepsLeftNext ==
  ASSUME SendInv', NEW t \in Threads
  PROVE  /\ pc'[t] = "idle" => StepsLeft(t)' = 0
         /\ pc'[t] = "exit" => StepsLeft(t)' = 1
         /\ pc'[t] \in {"post", "undo", "ioclose"} => StepsLeft(t)' = 2
         /\ pc'[t] = "send" => StepsLeft(t)' = 3
         /\ pc'[t] = "pop" => StepsLeft(t)' = 4
         /\ pc'[t] = "inc" => StepsLeft(t)' = IF pending' = 0 THEN 5 ELSE 7
         /\ pc'[t] = "dec" => StepsLeft(t)' = 6
         /\ pc'[t] = "locked" => StepsLeft(t)' = 8
         /\ pc'[t] = "enter" => StepsLeft(t)' = 9
         /\ pc'[t] \in {"check", "iodone", "iofail"} => StepsLeft(t)' = 10
BY DEF StepsLeft

Nearer(t) == IF pc'[t] = pc[t] THEN StepsLeft(t)' <= StepsLeft(t)
                               ELSE StepsLeft(t)' < StepsLeft(t)

\* A thread that stays where it is: only the count can change under it, and
\* while it is about to raise a count of zero nobody else raises it.
LEMMA NearerOther ==
  ASSUME SendInv, SendInv', NEW t \in Threads, pc'[t] = pc[t],
         (pc[t] = "inc" /\ pending = 0) => pending' = 0
  PROVE  Nearer(t)
<1>1. pc[t] \in Steps /\ pending \in Nat /\ pending' \in Nat
  BY DEF SendInv, TypeOK
<1>2. CASE pc[t] = "inc"
  BY <1>1, <1>2, StepsLeftAt, StepsLeftNext DEF Nearer
<1>3. CASE pc[t] # "inc"
  <2>1. StepsLeft(t)' = StepsLeft(t)
    BY <1>3 DEF StepsLeft
  <2>2. StepsLeft(t) \in Nat
    BY <1>1, <1>3, StepsLeftAt DEF Steps
  <2> QED
    BY <2>1, <2>2 DEF Nearer
<1> QED
  BY <1>2, <1>3

\* The order of the places, apart from the double check.
LEMMA NearerMove ==
  ASSUME SendInv, SendInv', NEW t \in Threads, NEW s, Goto(t, s),
         \/ pc[t] = "check" /\ s \in {"enter", "exit"}
         \/ pc[t] = "enter" /\ s = "locked"
         \/ pc[t] = "locked" /\ s \in {"inc", "undo", "exit"}
         \/ pc[t] \in {"undo", "ioclose"} /\ s = "exit"
         \/ pc[t] = "pop" /\ s = "send"
         \/ pc[t] = "send" /\ s \in {"post", "exit"}
         \/ pc[t] = "post" /\ s = "exit"
         \/ pc[t] = "exit" /\ s = "idle"
         \/ pc[t] \in {"iodone", "iofail"} /\ s = "enter"
  PROVE  Nearer(t)
<1>1. pc'[t] = s /\ s # pc[t]
  BY DEF SendInv, TypeOK, Goto
<1>2. StepsLeft(t)' < StepsLeft(t)
  BY <1>1, StepsLeftAt, StepsLeftNext
<1> QED
  BY <1>1, <1>2 DEF Nearer

\* The double check: a thread that goes back to the increment found the count
\* at zero, and one that raises it from zero is the transmitter.
LEMMA NearerDoubt ==
  ASSUME SendInv, SendInv', NEW t \in Threads, IncPending(t) \/ DecPending(t)
  PROVE  Nearer(t)
<1>1. pending \in Nat /\ pc \in [Threads -> Steps]
  BY DEF SendInv, TypeOK
<1>2. CASE IncPending(t)
  <2>1. pc[t] = "inc" /\ pending' = pending + 1
    BY <1>2 DEF IncPending
  <2>2. CASE pending = 0
    <3>1. pc'[t] = "pop"
      BY <1>1, <1>2, <2>1, <2>2 DEF IncPending, Goto
    <3> QED
      BY <2>1, <2>2, <3>1, StepsLeftAt, StepsLeftNext DEF Nearer
  <2>3. CASE pending # 0
    <3>1. pending' > 1
      BY <1>1, <2>1, <2>3
    <3>2. pc'[t] = "dec"
      BY <1>1, <1>2, <3>1 DEF IncPending, Goto
    <3> QED
      BY <2>1, <2>3, <3>2, StepsLeftAt, StepsLeftNext DEF Nearer
  <2> QED
    BY <2>2, <2>3
<1>3. CASE DecPending(t)
  <2>1. pc[t] = "dec" /\ pending' \in Nat
    BY <1>3 DEF SendInv, TypeOK, DecPending
  <2>2. pc'[t] = "exit" \/ (pc'[t] = "inc" /\ ~(pending' > 0))
    BY <1>1, <1>3 DEF DecPending, Goto
  <2>3. pc'[t] = "exit" \/ (pc'[t] = "inc" /\ pending' = 0)
    BY <2>1, <2>2
  <2> QED
    BY <2>1, <2>3, StepsLeftAt, StepsLeftNext DEF Nearer
<1> QED
  BY <1>2, <1>3

\* A step of thread u on thread t.
LEMMA NearerStep ==
  ASSUME SendInv, SendInv', NEW t \in Threads, pc[t] # "idle", NEW u \in Threads,
         \/ tcp_write(u) \/ tcp_destroy(u) \/ Continue(u)
         \/ (u = IO /\ ContinueIO)
  PROVE  Nearer(t)
<1> USE DEF objvars, listvars
<1>1. pc \in [Threads -> Steps] /\ pending \in Nat
  BY DEF SendInv, TypeOK
<1>2. \E s : Goto(u, s)
  BY DEF tcp_write, tcp_destroy, Continue, ContinueIO, WriteRefused,
     WriteNotBuilt, WriteBuilt, EnterLock, AddTail, Overflow, UndoOverflow,
     IncPending, DecPending, PopHead, SendReferenced, SendPosted, SendFailed,
     ioclose, Return, NothingCached, SomethingCached, ReleasePending,
     ReleaseFailed
<1>3. CASE u # t
  <2>1. pc'[t] = pc[t]
    BY <1>1, <1>2, <1>3 DEF Goto
  <2>2. ASSUME pc[t] = "inc", pending = 0 PROVE pending' = 0
    <3>1. ~Transmitting /\ pc[u] \notin {"inc", "dec"}
      BY <1>3, <2>2 DEF SendInv, LockHeld, PendingCounted
    <3>2. pc[u] \notin {"inc", "dec", "iodone", "iofail"}
      BY <3>1 DEF Transmitting, Transmitters
    <3>3. pending' = pending
      BY <3>2 DEF tcp_write, tcp_destroy, Continue, ContinueIO, WriteRefused,
         WriteNotBuilt, WriteBuilt, EnterLock, AddTail, Overflow, UndoOverflow,
         IncPending, DecPending, PopHead, SendReferenced, SendPosted,
         SendFailed, ioclose, Return, NothingCached, SomethingCached,
         ReleasePending, ReleaseFailed
    <3> QED
      BY <2>2, <3>3
  <2> QED
    BY <2>1, <2>2, NearerOther
<1>4. CASE u = t
  <2>1. CASE IncPending(t) \/ DecPending(t)
    BY <2>1, NearerDoubt
  <2>2. CASE ~(IncPending(t) \/ DecPending(t))
    <3>1. \E s : /\ Goto(t, s)
                 /\ \/ pc[t] = "check" /\ s \in {"enter", "exit"}
                    \/ pc[t] = "enter" /\ s = "locked"
                    \/ pc[t] = "locked" /\ s \in {"inc", "undo", "exit"}
                    \/ pc[t] \in {"undo", "ioclose"} /\ s = "exit"
                    \/ pc[t] = "pop" /\ s = "send"
                    \/ pc[t] = "send" /\ s \in {"post", "exit"}
                    \/ pc[t] = "post" /\ s = "exit"
                    \/ pc[t] = "exit" /\ s = "idle"
                    \/ pc[t] \in {"iodone", "iofail"} /\ s = "enter"
      BY <1>4, <2>2 DEF tcp_write, tcp_destroy, Continue, ContinueIO,
         WriteRefused, WriteNotBuilt, WriteBuilt, EnterLock, AddTail, Overflow,
         UndoOverflow, PopHead, SendReferenced, SendPosted, SendFailed,
         ioclose, Return, NothingCached, SomethingCached, ReleasePending,
         ReleaseFailed
    <3> QED
      BY <3>1, NearerMove
  <2> QED
    BY <2>1, <2>2
<1> QED
  BY <1>3, <1>4

\* Every step of the send path, for every call.
LEMMA NearerNext ==
  ASSUME SendInv, SendInv', [Next]_vars, NEW t \in Threads, pc[t] # "idle"
  PROVE  Nearer(t)
<1>1. ASSUME NEW u \in Writers, tcp_write(u) \/ tcp_destroy(u) PROVE Nearer(t)
  BY <1>1, NearerStep DEF Threads
<1>2. ASSUME NEW u \in Threads, Continue(u) PROVE Nearer(t)
  BY <1>2, NearerStep
<1>3. CASE ContinueIO
  BY <1>3, NearerStep DEF Threads
<1>4. ASSUME NEW p \in Packets, Complete(p) PROVE Nearer(t)
  <2>1. pc[IO] = "idle" /\ pending' = pending /\ (UNCHANGED pc \/ \E s : Goto(IO, s))
    BY <1>4 DEF Complete, CompleteSent, CompleteDisconnected, CompleteFailed
  <2>2. pc'[t] = pc[t]
    BY <2>1 DEF SendInv, TypeOK, Goto
  <2> QED
    BY <2>1, <2>2, NearerOther
<1>5. CASE PeerClosed \/ UNCHANGED vars
  BY <1>5, NearerOther DEF PeerClosed, vars
<1>6. ASSUME NEW u \in Writers, WriteNoEntry(u) PROVE Nearer(t)
  BY <1>6, NearerOther DEF WriteNoEntry, vars
<1> QED
  BY <1>1, <1>2, <1>3, <1>4, <1>5, <1>6 DEF Next

-----------------------------------------------------------------------------
(* The theorems.                                                           *)

\* Every state of the send path satisfies the inductive invariant.
THEOREM SendInvariant == Spec => []SendInv
BY InitInv, NextInv, PTL DEF Spec

\* The variables of the send path keep their types: the counts that tcp.c
\* decrements never fall below zero and no packet is popped off an empty list.
THEOREM SendTypeOK == Spec => []TypeOK
BY SendInvariant, PTL DEF SendInv

\* tcp_write_pending_ admits one transmitter: never two overlapping WSASend.
THEOREM SendOneTransmitter == Spec => []OneTransmitter
BY SendInvariant, PTL DEF SendInv

\* tcp_sender_list_size_ counts the cached packets and respects the limit.
THEOREM SendCacheCounted == Spec => []CacheCounted
BY SendInvariant, PTL DEF SendInv

\* A cached packet of an open link is never forgotten, whatever the order of
\* the I/O thread's decrement and the writers' double check.
THEOREM SendNoLostWakeup == Spec => []NoLostWakeup
BY SendInvariant, PTL DEF SendInv

\* tcp_unload runs when no thread is in a call on the link.
THEOREM SendUnloadedIsQuiet == Spec => []UnloadedIsQuiet
BY SendInvariant, PTL DEF SendInv

\* Every state of the send path satisfies the invariant of the packets too.
THEOREM SendOwnership == Spec => []OwnInv
BY SendInvariant, InitOwn, NextOwn, PTL DEF Spec

\* Every allocated packet has exactly one owner until it is freed, and none
\* afterwards, whatever path it takes through the cache, the transmitter, the
\* system and the unload.
THEOREM SendOneOwner == Spec => []OneOwner
BY SendInvariant, SendOwnership, OwnersCounted, PTL

\* Every state of the send path satisfies the invariant of the order too.
THEOREM SendFifo == Spec => []FifoInv
BY SendInvariant, InitFifo, NextFifo, PTL DEF Spec

\* What WSASend was given is a beginning of what tcp_write accepted, for any
\* number of threads and whatever fails; in an open link what was accepted was
\* given to WSASend, is about to be, or is cached.
THEOREM SendPostedInOrder == Spec => []PostedInOrder
BY SendInvariant, SendFifo, FifoSent, PTL

\* A call of tcp_write, or a dispatched completion, makes at most ten more steps
\* once it is begun: the loop of the double check ends by itself.  (That the
\* steps are made is the scheduler's part, and a matter of fairness.)
THEOREM SendCallsBounded == Spec => CallsBounded
<1>1. SendInv /\ SendInv' /\ [Next]_vars =>
        [\A t \in Threads : pc[t] # "idle" =>
           IF pc'[t] = pc[t] THEN StepsLeft(t)' <= StepsLeft(t)
                             ELSE StepsLeft(t)' < StepsLeft(t)]_vars
  BY NearerNext DEF Nearer
<1> QED
  BY <1>1, SendInvariant, PTL DEF Spec, CallsBounded

\* The send path implements the bounded FIFO with one transmit slot: packets
\* are accepted once, taken in order when the slot is free, posted once and
\* never after the link is gone.
THEOREM SendImplementsChannel == Spec => ImplementsChannel
<1>1. SendInv /\ OwnInv /\ [Next]_vars => [Channel!CNext]_(Channel!cvars)
  BY NextStep DEF ChannelStep
<1> QED
  BY <1>1, InitChannel, SendInvariant, SendOwnership, PTL
     DEF Spec, ImplementsChannel, Channel!CSpec
=============================================================================
