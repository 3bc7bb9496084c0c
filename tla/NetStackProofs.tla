-------------------------- MODULE NetStackProofs ---------------------------
(***************************************************************************)
(* Theorems about NetStack, for any finite set of callers, any number of   *)
(* ports and any number of calls.  NetInv is the inductive invariant; each *)
(* action preserves it by a lemma of its own.                              *)
(***************************************************************************)
EXTENDS NetStack, TLAPS, FiniteSetTheorems

-----------------------------------------------------------------------------
(* The calls of so_init that hold a share of __so_startup.                 *)

StartSteps == {"startup", "port", "undo", "later"}

\* They are finitely many.
LEMMA StartingFinite ==
  IsFiniteSet(Starting) /\ Cardinality(Starting) \in Nat
<1>1. Starting \subseteq Callers
  BY DEF Starting
<1> QED
  BY <1>1, NetStackAssumption, FS_Subset, FS_CardinalityType

\* InterlockedIncrement: one more.
LEMMA EnterStart ==
  ASSUME TypeOK, NEW c \in Callers, NEW s \in StartSteps,
         pc[c] \notin StartSteps, Goto(c, s)
  PROVE  Cardinality(Starting') = Cardinality(Starting) + 1
<1>1. Starting' = Starting \cup {c} /\ c \notin Starting
  BY DEF TypeOK, Starting, StartSteps, Goto
<1> QED
  BY <1>1, StartingFinite, FS_AddElement

\* InterlockedDecrement, or the pool is built: one less.
LEMMA LeaveStart ==
  ASSUME TypeOK, NEW c \in Callers, NEW s, s \notin StartSteps,
         pc[c] \in StartSteps, Goto(c, s)
  PROVE  /\ Cardinality(Starting') = Cardinality(Starting) - 1
         /\ Cardinality(Starting') \in Nat
<1>1. Starting' = Starting \ {c} /\ c \in Starting
  BY DEF TypeOK, Starting, StartSteps, Goto
<1> QED
  BY <1>1, StartingFinite, FS_RemoveElement, FS_CardinalityType

\* Any other step leaves them as they are.
LEMMA StayStart ==
  ASSUME TypeOK, NEW c \in Callers, NEW s,
         pc[c] \in StartSteps <=> s \in StartSteps, Goto(c, s)
  PROVE  Starting' = Starting
BY DEF TypeOK, Starting, StartSteps, Goto

\* Who holds a share is counted.
LEMMA StartPositive ==
  ASSUME NetInv, NEW c \in Callers, pc[c] \in StartSteps
  PROVE  so_startup > 0
<1>1. Starting # {}
  BY DEF Starting, StartSteps
<1>2. Cardinality(Starting) # 0
  BY <1>1, StartingFinite, FS_EmptySet
<1> QED
  BY <1>2, StartingFinite DEF NetInv, StartCounted, NeverBuilt

\* Nobody starts while the count is zero.
LEMMA NobodyStarts ==
  ASSUME NetInv, so_startup = 0
  PROVE  NeverBuilt /\ Starting = {} /\ Initializing = {}
<1>1. Cardinality(Starting) = 0 /\ NeverBuilt
  BY StartingFinite DEF NetInv, StartCounted, NeverBuilt
<1>2. Starting = {}
  BY <1>1, StartingFinite, FS_EmptySet
<1> QED
  BY <1>1, <1>2 DEF Starting, Initializing

-----------------------------------------------------------------------------
(* One lemma per action                                                    *)

\* Before the first call nothing is there.
LEMMA InitInv == Init => NetInv
<1> SUFFICES ASSUME Init PROVE NetInv
  OBVIOUS
<1>1. TypeOK
  <2>1. 0 \in Nat /\ 0 \in 0..Divisions /\ 0 \in 0..MaxCalls
    BY NetStackAssumption
  <2>2. /\ cq \in [Ports -> Seq(Links \cup {Quit})]
        /\ held \in [Callers -> SUBSET Protocols]
        /\ initialized \in [Protocols -> BOOLEAN]
        /\ arg \in [Callers -> Protocols]
    BY DEF Init, Protocols
  <2> QED
    BY <2>1, <2>2 DEF Init, TypeOK
<1>2. Starting = {} /\ Initializing = {} /\ Stopping = {}
  BY DEF Init, Starting, Initializing, Stopping
<1>3. StartCounted
  BY <1>2, FS_EmptySet DEF Init, StartCounted, NeverBuilt
<1>4. StopAlone /\ AskedOnce /\ ThreadsEnd /\ PoolFreedLast
  BY <1>2 DEF Init, StopAlone, AskedOnce, ThreadsEnd, PoolFreedLast
<1> QED
  BY <1>1, <1>3, <1>4 DEF NetInv

\* The increment keeps it: a count of zero means that nobody is starting.
LEMMA So_initInv ==
  ASSUME NetInv, NEW c \in Callers, NEW p \in Protocols, so_init(c, p)
  PROVE  NetInv'
<1>1. TypeOK'
  BY NetStackAssumption DEF NetInv, TypeOK, Protocols, so_init, Starts, Goto,
     sovars, iovars
<1>2. StartCounted'
  <2>1. Cardinality(Starting') = Cardinality(Starting) + 1
    BY EnterStart DEF NetInv, StartSteps, so_init, Starts
  <2> QED
    BY <2>1, StartingFinite, NobodyStarts DEF NetInv, TypeOK, StartCounted,
       NeverBuilt, Initializing, Stopping, so_init, Starts, Goto, sovars,
       iovars
<1>3. StopAlone'
  BY DEF NetInv, TypeOK, StopAlone, Stopping, Initializing, StartCounted,
     so_init, Starts, Goto, sovars, iovars
<1>4. AskedOnce'
  BY DEF NetInv, TypeOK, AskedOnce, so_init, Starts, Goto, sovars, iovars
<1>5. ThreadsEnd'
  BY NetStackAssumption DEF NetInv, TypeOK, Ports, ThreadsEnd, StopAlone,
     Stopping, so_init, Starts, Goto, sovars, iovars
<1>6. PoolFreedLast'
  BY NetStackAssumption DEF NetInv, TypeOK, Ports, PoolFreedLast, ThreadsEnd,
     so_init, Starts, Goto, sovars, iovars
<1> QED
  BY <1>1, <1>2, <1>3, <1>4, <1>5, <1>6 DEF NetInv

\* Giving the share back keeps it.
LEMMA InitLaterInv ==
  ASSUME NetInv, NEW c \in Callers, InitLater(c)
  PROVE  NetInv'
<1>0. so_startup > 0
  BY StartPositive DEF StartSteps, InitLater
<1>1. TypeOK'
  BY NetStackAssumption, <1>0 DEF NetInv, TypeOK, Protocols, InitLater, Goto,
     sovars, iovars
<1>2. StartCounted'
  <2>1. /\ Cardinality(Starting') = Cardinality(Starting) - 1
        /\ Cardinality(Starting') \in Nat
    BY LeaveStart DEF NetInv, StartSteps, InitLater
  <2> QED
    BY <2>1, StartingFinite DEF NetInv, TypeOK, StartCounted, NeverBuilt,
       Initializing, Stopping, InitLater, Goto, sovars, iovars
<1>3. StopAlone'
  BY DEF NetInv, TypeOK, StopAlone, Stopping, Initializing, StartCounted,
     InitLater, Goto, sovars, iovars
<1>4. AskedOnce'
  BY DEF NetInv, TypeOK, AskedOnce, InitLater, Goto, sovars, iovars
<1>5. ThreadsEnd'
  BY NetStackAssumption DEF NetInv, TypeOK, Ports, ThreadsEnd, StopAlone,
     Stopping, InitLater, Goto, sovars, iovars
<1>6. PoolFreedLast'
  BY NetStackAssumption DEF NetInv, TypeOK, Ports, PoolFreedLast, ThreadsEnd,
     InitLater, Goto, sovars, iovars
<1> QED
  BY <1>1, <1>2, <1>3, <1>4, <1>5, <1>6 DEF NetInv

\* Allocating the pool keeps it.
LEMMA IoInitInv ==
  ASSUME NetInv, NEW c \in Callers, IoInit(c)
  PROVE  NetInv'
<1>1. TypeOK'
  BY NetStackAssumption DEF NetInv, TypeOK, Protocols, IoInit, Goto, sovars,
     iovars
<1>2. StartCounted'
  <2>1. Starting' = Starting
    BY StayStart DEF NetInv, StartSteps, IoInit
  <2> QED
    BY <2>1, StartingFinite DEF NetInv, TypeOK, StartCounted, NeverBuilt,
       Initializing, Stopping, IoInit, Goto, sovars, iovars
<1>3. StopAlone'
  BY DEF NetInv, TypeOK, StopAlone, Stopping, Initializing, StartCounted,
     IoInit, Goto, sovars, iovars
<1>4. AskedOnce'
  BY DEF NetInv, TypeOK, AskedOnce, IoInit, Goto, sovars, iovars
<1>5. ThreadsEnd'
  BY NetStackAssumption DEF NetInv, TypeOK, Ports, ThreadsEnd, StopAlone,
     Stopping, IoInit, Goto, sovars, iovars
<1>6. PoolFreedLast'
  BY NetStackAssumption DEF NetInv, TypeOK, Ports, PoolFreedLast, ThreadsEnd,
     IoInit, Goto, sovars, iovars
<1> QED
  BY <1>1, <1>2, <1>3, <1>4, <1>5, <1>6 DEF NetInv

\* Failing to allocate it does too.
LEMMA IoInitFailedInv ==
  ASSUME NetInv, NEW c \in Callers, IoInitFailed(c)
  PROVE  NetInv'
<1>1. TypeOK'
  BY NetStackAssumption DEF NetInv, TypeOK, Protocols, IoInitFailed, Goto,
     sovars, iovars
<1>2. StartCounted'
  <2>1. Starting' = Starting
    BY StayStart DEF NetInv, StartSteps, IoInitFailed
  <2> QED
    BY <2>1, StartingFinite DEF NetInv, TypeOK, StartCounted, NeverBuilt,
       Initializing, Stopping, IoInitFailed, Goto, sovars, iovars
<1>3. StopAlone'
  BY DEF NetInv, TypeOK, StopAlone, Stopping, Initializing, StartCounted,
     IoInitFailed, Goto, sovars, iovars
<1>4. AskedOnce'
  BY DEF NetInv, TypeOK, AskedOnce, IoInitFailed, Goto, sovars, iovars
<1>5. ThreadsEnd'
  BY NetStackAssumption DEF NetInv, TypeOK, Ports, ThreadsEnd, StopAlone,
     Stopping, IoInitFailed, Goto, sovars, iovars
<1>6. PoolFreedLast'
  BY NetStackAssumption DEF NetInv, TypeOK, Ports, PoolFreedLast, ThreadsEnd,
     IoInitFailed, Goto, sovars, iovars
<1> QED
  BY <1>1, <1>2, <1>3, <1>4, <1>5, <1>6 DEF NetInv

\* Giving up keeps it.
LEMMA InitUndoInv ==
  ASSUME NetInv, NEW c \in Callers, InitUndo(c)
  PROVE  NetInv'
<1>0. so_startup > 0
  BY StartPositive DEF StartSteps, InitUndo
<1>1. TypeOK'
  BY NetStackAssumption, <1>0 DEF NetInv, TypeOK, Protocols, InitUndo, Goto,
     sovars, iovars
<1>2. StartCounted'
  <2>1. /\ Cardinality(Starting') = Cardinality(Starting) - 1
        /\ Cardinality(Starting') \in Nat
    BY LeaveStart DEF NetInv, StartSteps, InitUndo
  <2> QED
    BY <2>1, StartingFinite DEF NetInv, TypeOK, StartCounted, NeverBuilt,
       Initializing, Stopping, InitUndo, Goto, sovars, iovars
<1>3. StopAlone'
  BY DEF NetInv, TypeOK, StopAlone, Stopping, Initializing, StartCounted,
     InitUndo, Goto, sovars, iovars
<1>4. AskedOnce'
  BY DEF NetInv, TypeOK, AskedOnce, InitUndo, Goto, sovars, iovars
<1>5. ThreadsEnd'
  BY NetStackAssumption DEF NetInv, TypeOK, Ports, ThreadsEnd, StopAlone,
     Stopping, InitUndo, Goto, sovars, iovars
<1>6. PoolFreedLast'
  BY NetStackAssumption DEF NetInv, TypeOK, Ports, PoolFreedLast, ThreadsEnd,
     InitUndo, Goto, sovars, iovars
<1> QED
  BY <1>1, <1>2, <1>3, <1>4, <1>5, <1>6 DEF NetInv

\* A port and its thread appear only before the pool was ever complete, so
\* nobody stops it.
LEMMA CreatePortInv ==
  ASSUME NetInv, NEW c \in Callers, CreatePort(c)
  PROVE  NetInv'
<1>0. idx[c] \in Ports /\ idx[c] + 1 \in 0..Divisions
  BY NetStackAssumption DEF NetInv, TypeOK, CreatePort, Ports
<1>a. NeverBuilt /\ Stopping = {} /\ \A i \in Ports : cq[i] = <<>>
  BY DEF NetInv, StartCounted, Initializing, CreatePort
<1>1. TypeOK'
  BY <1>0 DEF NetInv, TypeOK, Protocols, CreatePort, sovars, iovars
<1>2. StartCounted'
  <2>1. Starting' = Starting
    BY DEF Starting, CreatePort
  <2> QED
    BY <2>1, StartingFinite DEF NetInv, TypeOK, StartCounted, NeverBuilt,
       Initializing, Stopping, CreatePort, sovars, iovars
<1>3. StopAlone'
  BY DEF NetInv, TypeOK, StopAlone, Stopping, Initializing, StartCounted,
     CreatePort, Goto, sovars, iovars
<1>4. AskedOnce'
  BY <1>a DEF NetInv, AskedOnce, CreatePort, iovars
<1>5. ThreadsEnd'
  BY <1>0, <1>a DEF NetInv, TypeOK, ThreadsEnd, Stopping, CreatePort
<1>6. PoolFreedLast'
  BY NetStackAssumption DEF NetInv, TypeOK, Ports, PoolFreedLast, ThreadsEnd,
     CreatePort, Goto, sovars, iovars
<1> QED
  BY <1>1, <1>2, <1>3, <1>4, <1>5, <1>6 DEF NetInv

\* The completed pool keeps it.
LEMMA IoReadyInv ==
  ASSUME NetInv, NEW c \in Callers, IoReady(c)
  PROVE  NetInv'
<1>1. TypeOK'
  BY NetStackAssumption DEF NetInv, TypeOK, Protocols, IoReady, Goto, sovars,
     iovars
<1>2. StartCounted'
  <2>1. /\ Cardinality(Starting') = Cardinality(Starting) - 1
        /\ Cardinality(Starting') \in Nat
    BY LeaveStart DEF NetInv, StartSteps, IoReady
  <2> QED
    BY <2>1, StartingFinite DEF NetInv, TypeOK, StartCounted, NeverBuilt,
       Initializing, Stopping, IoReady, Goto, sovars, iovars
<1>3. StopAlone'
  BY DEF NetInv, TypeOK, StopAlone, Stopping, Initializing, StartCounted,
     IoReady, Goto, sovars, iovars
<1>4. AskedOnce'
  BY DEF NetInv, TypeOK, AskedOnce, IoReady, Goto, sovars, iovars
<1>5. ThreadsEnd'
  BY NetStackAssumption DEF NetInv, TypeOK, Ports, ThreadsEnd, StopAlone,
     Stopping, IoReady, Goto, sovars, iovars
<1>6. PoolFreedLast'
  BY NetStackAssumption DEF NetInv, TypeOK, Ports, PoolFreedLast, ThreadsEnd,
     IoReady, Goto, sovars, iovars
<1> QED
  BY <1>1, <1>2, <1>3, <1>4, <1>5, <1>6 DEF NetInv

\* Starting the object table keeps it.
LEMMA ObjinitInv ==
  ASSUME NetInv, NEW c \in Callers, objinit(c)
  PROVE  NetInv'
<1>1. TypeOK'
  BY NetStackAssumption DEF NetInv, TypeOK, Protocols, objinit, Goto,
     sovars, iovars
<1>2. StartCounted'
  <2>1. Starting' = Starting
    BY StayStart DEF NetInv, StartSteps, objinit
  <2> QED
    BY <2>1, StartingFinite DEF NetInv, TypeOK, StartCounted, NeverBuilt,
       Initializing, Stopping, objinit, Goto, sovars, iovars
<1>3. StopAlone'
  BY DEF NetInv, TypeOK, StopAlone, Stopping, Initializing, StartCounted,
     objinit, Goto, sovars, iovars
<1>4. AskedOnce'
  BY DEF NetInv, TypeOK, AskedOnce, objinit, Goto, sovars, iovars
<1>5. ThreadsEnd'
  BY NetStackAssumption DEF NetInv, TypeOK, Ports, ThreadsEnd, StopAlone,
     Stopping, objinit, Goto, sovars, iovars
<1>6. PoolFreedLast'
  BY NetStackAssumption DEF NetInv, TypeOK, Ports, PoolFreedLast, ThreadsEnd,
     objinit, Goto, sovars, iovars
<1> QED
  BY <1>1, <1>2, <1>3, <1>4, <1>5, <1>6 DEF NetInv

\* Marking a protocol keeps it.
LEMMA MarkProtocolInv ==
  ASSUME NetInv, NEW c \in Callers, MarkProtocol(c)
  PROVE  NetInv'
<1>1. TypeOK'
  BY NetStackAssumption DEF NetInv, TypeOK, Protocols, MarkProtocol, Goto,
     sovars, iovars
<1>2. StartCounted'
  <2>1. Starting' = Starting
    BY StayStart DEF NetInv, StartSteps, MarkProtocol
  <2> QED
    BY <2>1, StartingFinite DEF NetInv, TypeOK, StartCounted, NeverBuilt,
       Initializing, Stopping, MarkProtocol, Goto, sovars, iovars
<1>3. StopAlone'
  BY DEF NetInv, TypeOK, StopAlone, Stopping, Initializing, StartCounted,
     MarkProtocol, Goto, sovars, iovars
<1>4. AskedOnce'
  BY DEF NetInv, TypeOK, AskedOnce, MarkProtocol, Goto, sovars, iovars
<1>5. ThreadsEnd'
  BY NetStackAssumption DEF NetInv, TypeOK, Ports, ThreadsEnd, StopAlone,
     Stopping, MarkProtocol, Goto, sovars, iovars
<1>6. PoolFreedLast'
  BY NetStackAssumption DEF NetInv, TypeOK, Ports, PoolFreedLast, ThreadsEnd,
     MarkProtocol, Goto, sovars, iovars
<1> QED
  BY <1>1, <1>2, <1>3, <1>4, <1>5, <1>6 DEF NetInv

\* Releasing a protocol keeps it.
LEMMA So_uninitInv ==
  ASSUME NetInv, NEW c \in Callers, NEW p \in Protocols, so_uninit(c, p)
  PROVE  NetInv'
<1>1. TypeOK'
  BY NetStackAssumption DEF NetInv, TypeOK, Protocols, so_uninit, Goto,
     sovars, iovars
<1>2. StartCounted'
  <2>1. Starting' = Starting
    BY StayStart DEF NetInv, StartSteps, so_uninit
  <2> QED
    BY <2>1, StartingFinite DEF NetInv, TypeOK, StartCounted, NeverBuilt,
       Initializing, Stopping, so_uninit, Goto, sovars, iovars
<1>3. StopAlone'
  BY DEF NetInv, TypeOK, StopAlone, Stopping, Initializing, StartCounted,
     so_uninit, Goto, sovars, iovars
<1>4. AskedOnce'
  BY DEF NetInv, TypeOK, AskedOnce, so_uninit, Goto, sovars, iovars
<1>5. ThreadsEnd'
  BY NetStackAssumption DEF NetInv, TypeOK, Ports, ThreadsEnd, StopAlone,
     Stopping, so_uninit, Goto, sovars, iovars
<1>6. PoolFreedLast'
  BY NetStackAssumption DEF NetInv, TypeOK, Ports, PoolFreedLast, ThreadsEnd,
     so_uninit, Goto, sovars, iovars
<1> QED
  BY <1>1, <1>2, <1>3, <1>4, <1>5, <1>6 DEF NetInv

\* Ending the object table keeps it.
LEMMA ObjuninitInv ==
  ASSUME NetInv, NEW c \in Callers, objuninit(c)
  PROVE  NetInv'
<1>1. TypeOK'
  BY NetStackAssumption DEF NetInv, TypeOK, Protocols, objuninit, Goto,
     sovars, iovars
<1>2. StartCounted'
  <2>1. Starting' = Starting
    BY StayStart DEF NetInv, StartSteps, objuninit
  <2> QED
    BY <2>1, StartingFinite DEF NetInv, TypeOK, StartCounted, NeverBuilt,
       Initializing, Stopping, objuninit, Goto, sovars, iovars
<1>3. StopAlone'
  BY DEF NetInv, TypeOK, StopAlone, Stopping, Initializing, StartCounted,
     objuninit, Goto, sovars, iovars
<1>4. AskedOnce'
  BY DEF NetInv, TypeOK, AskedOnce, objuninit, Goto, sovars, iovars
<1>5. ThreadsEnd'
  BY NetStackAssumption DEF NetInv, TypeOK, Ports, ThreadsEnd, StopAlone,
     Stopping, objuninit, Goto, sovars, iovars
<1>6. PoolFreedLast'
  BY NetStackAssumption DEF NetInv, TypeOK, Ports, PoolFreedLast, ThreadsEnd,
     objuninit, Goto, sovars, iovars
<1> QED
  BY <1>1, <1>2, <1>3, <1>4, <1>5, <1>6 DEF NetInv

\* One thread wins the right to stop the pool.
LEMMA IouninitInv ==
  ASSUME NetInv, NEW c \in Callers, iouninit(c)
  PROVE  NetInv'
<1>1. TypeOK'
  <2>1. 0 \in 0..Divisions
    BY NetStackAssumption
  <2>2. TypeOK
    BY DEF NetInv
  <2>3. UNCHANGED <<so_startup, initialized, objects, epos, epfd, actived,
                    thread, cq, bound, arg, held, calls>>
    BY DEF iouninit, sovars
  <2>4. inited' \in {"none", "busy", "passed", "failed"}
    BY <2>2 DEF TypeOK, iouninit
  <2>5. idx' \in [Callers -> 0..Divisions]
    BY <2>1, <2>2 DEF TypeOK, iouninit
  <2>6. pc' = [pc EXCEPT ![c] = "stop"] \/ pc' = [pc EXCEPT ![c] = "idle"]
    BY DEF iouninit, Goto
  <2>7. pc' \in [Callers -> {"idle", "startup", "later", "undo", "port",
                             "objinit", "flag", "objuninit", "iouninit",
                             "stop", "wait", "close"}]
    BY <2>2, <2>6 DEF TypeOK
  <2>8. /\ so_startup' \in Nat
        /\ initialized' \in [Protocols -> BOOLEAN]
        /\ objects' \in BOOLEAN
        /\ epos' \in {"null", "allocated"}
        /\ epfd' \in [Ports -> {"none", "null", "open", "closed"}]
        /\ actived' \in [Ports -> BOOLEAN]
        /\ thread' \in [Ports -> {"none", "running", "ended"}]
    BY <2>2, <2>3 DEF TypeOK
  <2>9. /\ cq' \in [Ports -> Seq(Links \cup {Quit})]
        /\ bound' \in [Links -> Ports \cup {NoPort}]
        /\ arg' \in [Callers -> Protocols]
        /\ held' \in [Callers -> SUBSET Protocols]
        /\ calls' \in 0..MaxCalls
    BY <2>2, <2>3 DEF TypeOK
  <2> QED
    BY <2>4, <2>5, <2>7, <2>8, <2>9 DEF TypeOK
<1>2. StartCounted'
  <2>1. Starting' = Starting
    BY StayStart DEF NetInv, StartSteps, iouninit
  <2>2. UNCHANGED <<so_startup, bound, cq>>
    BY DEF iouninit, sovars
  <2>3. NeverBuilt' <=> NeverBuilt
    BY <2>1, <2>2 DEF NeverBuilt
  <2>4. Initializing' = Initializing
    BY DEF NetInv, TypeOK, Initializing, iouninit, Goto
  <2>5. ASSUME NeverBuilt PROVE inited' # "passed" /\ Stopping' = {}
    <3>1. inited # "passed" /\ Stopping = {}
      BY <2>5 DEF NetInv, StartCounted
    <3>2. inited' = inited /\ pc' = [pc EXCEPT ![c] = "idle"]
      BY <3>1 DEF iouninit, Goto
    <3> QED
      BY <3>1, <3>2 DEF NetInv, TypeOK, Stopping
  <2> QED
    BY <2>1, <2>2, <2>3, <2>4, <2>5 DEF NetInv, StartCounted
<1>3. StopAlone'
  BY DEF NetInv, TypeOK, StopAlone, Stopping, iouninit, Goto
<1>4. AskedOnce'
  BY DEF NetInv, TypeOK, AskedOnce, iouninit, Goto, sovars, iovars
<1>5. ThreadsEnd'
  BY NetStackAssumption DEF NetInv, TypeOK, Ports, ThreadsEnd, StopAlone,
     Stopping, iouninit, Goto, sovars, iovars
<1>6. PoolFreedLast'
  BY NetStackAssumption DEF NetInv, TypeOK, Ports, PoolFreedLast, ThreadsEnd,
     iouninit, Goto, sovars, iovars
<1> QED
  BY <1>1, <1>2, <1>3, <1>4, <1>5, <1>6 DEF NetInv

\* Asking a thread to end keeps it.
LEMMA StopThreadInv ==
  ASSUME NetInv, NEW c \in Callers, StopThread(c)
  PROVE  NetInv'
<1>1. TypeOK'
  <2>1. idx[c] \in Ports
    BY NetStackAssumption DEF NetInv, TypeOK, StopThread, Ports
  <2>2. Append(cq[idx[c]], Quit) \in Seq(Links \cup {Quit})
    BY <2>1 DEF NetInv, TypeOK
  <2> QED
    BY <2>1, <2>2 DEF NetInv, TypeOK, Protocols, StopThread, Goto, sovars, iovars
<1>2. StartCounted'
  <2>1. Starting' = Starting
    BY StayStart DEF NetInv, StartSteps, StopThread
  <2> QED
    BY <2>1, StartingFinite DEF NetInv, TypeOK, StartCounted, NeverBuilt,
       Initializing, Stopping, StopThread, Goto, sovars, iovars
<1>3. StopAlone'
  BY DEF NetInv, TypeOK, StopAlone, Stopping, Initializing, StartCounted,
     StopThread, Goto, sovars, iovars
<1>4. AskedOnce'
  BY DEF NetInv, TypeOK, AskedOnce, StopThread, Goto, sovars, iovars
<1>5. ThreadsEnd'
  BY NetStackAssumption DEF NetInv, TypeOK, Ports, ThreadsEnd, StopAlone,
     Stopping, StopThread, Goto, sovars, iovars
<1>6. PoolFreedLast'
  BY NetStackAssumption DEF NetInv, TypeOK, Ports, PoolFreedLast, ThreadsEnd,
     StopThread, Goto, sovars, iovars
<1> QED
  BY <1>1, <1>2, <1>3, <1>4, <1>5, <1>6 DEF NetInv

\* A thread that ended can be left.
LEMMA WaitThreadInv ==
  ASSUME NetInv, NEW c \in Callers, WaitThread(c)
  PROVE  NetInv'
<1>1. TypeOK'
  BY NetStackAssumption DEF NetInv, TypeOK, Protocols, WaitThread, Goto,
     sovars, iovars
<1>2. StartCounted'
  <2>1. Starting' = Starting
    BY StayStart DEF NetInv, StartSteps, WaitThread
  <2> QED
    BY <2>1, StartingFinite DEF NetInv, TypeOK, StartCounted, NeverBuilt,
       Initializing, Stopping, WaitThread, Goto, sovars, iovars
<1>3. StopAlone'
  BY DEF NetInv, TypeOK, StopAlone, Stopping, Initializing, StartCounted,
     WaitThread, Goto, sovars, iovars
<1>4. AskedOnce'
  BY DEF NetInv, TypeOK, AskedOnce, WaitThread, Goto, sovars, iovars
<1>5. ThreadsEnd'
  BY NetStackAssumption DEF NetInv, TypeOK, Ports, ThreadsEnd, StopAlone,
     Stopping, WaitThread, Goto, sovars, iovars
<1>6. PoolFreedLast'
  BY NetStackAssumption DEF NetInv, TypeOK, Ports, PoolFreedLast, ThreadsEnd,
     WaitThread, Goto, sovars, iovars
<1> QED
  BY <1>1, <1>2, <1>3, <1>4, <1>5, <1>6 DEF NetInv

\* Closing its port keeps it.
LEMMA ClosePortInv ==
  ASSUME NetInv, NEW c \in Callers, ClosePort(c)
  PROVE  NetInv'
<1>1. TypeOK'
  BY NetStackAssumption DEF NetInv, TypeOK, Protocols, ClosePort, Goto,
     sovars, iovars, ThreadsEnd, Ports
<1>2. StartCounted'
  <2>1. Starting' = Starting
    BY StayStart DEF NetInv, StartSteps, ClosePort
  <2> QED
    BY <2>1, StartingFinite DEF NetInv, TypeOK, StartCounted, NeverBuilt,
       Initializing, Stopping, ClosePort, Goto, sovars, iovars
<1>3. StopAlone'
  BY DEF NetInv, TypeOK, StopAlone, Stopping, Initializing, StartCounted,
     ClosePort, Goto, sovars, iovars
<1>4. AskedOnce'
  BY DEF NetInv, TypeOK, AskedOnce, ClosePort, Goto, sovars, iovars
<1>5. ThreadsEnd'
  BY NetStackAssumption DEF NetInv, TypeOK, Ports, ThreadsEnd, StopAlone,
     Stopping, ClosePort, Goto, sovars, iovars
<1>6. PoolFreedLast'
  BY NetStackAssumption DEF NetInv, TypeOK, Ports, PoolFreedLast, ThreadsEnd,
     ClosePort, Goto, sovars, iovars
<1> QED
  BY <1>1, <1>2, <1>3, <1>4, <1>5, <1>6 DEF NetInv

\* The pool is freed behind the last port.
LEMMA FreePoolInv ==
  ASSUME NetInv, NEW c \in Callers, FreePool(c)
  PROVE  NetInv'
<1>1. TypeOK'
  BY NetStackAssumption DEF NetInv, TypeOK, Protocols, FreePool, FreeAt, Goto,
     sovars, iovars
<1>2. StartCounted'
  <2>1. Starting' = Starting
    BY StayStart DEF NetInv, StartSteps, FreePool, FreeAt
  <2> QED
    BY <2>1, StartingFinite DEF NetInv, TypeOK, StartCounted, NeverBuilt,
       Initializing, Stopping, FreePool, FreeAt, Goto, sovars, iovars
<1>3. StopAlone'
  BY DEF NetInv, TypeOK, StopAlone, Stopping, Initializing, StartCounted,
     FreePool, FreeAt, Goto, sovars, iovars
<1>4. AskedOnce'
  BY DEF NetInv, TypeOK, AskedOnce, FreePool, FreeAt, Goto, sovars, iovars
<1>5. ThreadsEnd'
  <2>1. \A d \in Callers : pc[d] # "port"
    BY DEF NetInv, StartCounted, Initializing, Stopping, FreePool, FreeAt
  <2> QED
    BY <2>1 DEF NetInv, TypeOK, ThreadsEnd, FreePool, FreeAt, Goto
<1>6. PoolFreedLast'
  BY NetStackAssumption DEF NetInv, TypeOK, Ports, PoolFreedLast, ThreadsEnd,
     FreePool, FreeAt, Goto, sovars, iovars
<1> QED
  BY <1>1, <1>2, <1>3, <1>4, <1>5, <1>6 DEF NetInv

\* Binding a link keeps it.
LEMMA IoatthInv ==
  ASSUME NetInv, NEW l \in Links, ioatth(l)
  PROVE  NetInv'
<1>1. TypeOK'
  <2>1. l % Divisions \in Ports
    BY NetStackAssumption DEF Ports
  <2> QED
    BY <2>1 DEF NetInv, TypeOK, Protocols, ioatth, sovars, iovars
<1>2. StartCounted'
  <2>1. Starting' = Starting
    BY DEF Starting, ioatth
  <2> QED
    BY <2>1, StartingFinite DEF NetInv, TypeOK, StartCounted, NeverBuilt,
       Initializing, Stopping, ioatth, sovars, iovars
<1>3. StopAlone'
  BY DEF NetInv, TypeOK, StopAlone, Stopping, Initializing, StartCounted,
     ioatth, sovars, iovars
<1>4. AskedOnce'
  BY DEF NetInv, TypeOK, AskedOnce, ioatth, sovars, iovars
<1>5. ThreadsEnd'
  BY NetStackAssumption DEF NetInv, TypeOK, Ports, ThreadsEnd, StopAlone,
     Stopping, ioatth, sovars, iovars
<1>6. PoolFreedLast'
  BY NetStackAssumption DEF NetInv, TypeOK, Ports, PoolFreedLast, ThreadsEnd,
     ioatth, sovars, iovars
<1> QED
  BY <1>1, <1>2, <1>3, <1>4, <1>5, <1>6 DEF NetInv

\* A completion is no request to end.
LEMMA CompletionInv ==
  ASSUME NetInv, NEW l \in Links, Completion(l)
  PROVE  NetInv'
<1>1. TypeOK'
  BY NetStackAssumption DEF NetInv, TypeOK, Protocols, Completion, sovars,
     iovars
<1>2. StartCounted'
  <2>1. Starting' = Starting
    BY DEF Starting, Completion
  <2> QED
    BY <2>1, StartingFinite DEF NetInv, TypeOK, StartCounted, NeverBuilt,
       Initializing, Stopping, Completion, sovars, iovars
<1>3. StopAlone'
  BY DEF NetInv, TypeOK, StopAlone, Stopping, Initializing, StartCounted,
     Completion, sovars, iovars
<1>4. AskedOnce'
  <2>1. l # Quit /\ bound[l] \in Ports
    BY NetStackAssumption DEF NetInv, TypeOK, Completion, Quit
  <2> QED
    BY <2>1 DEF NetInv, TypeOK, AskedOnce, Completion
<1>5. ThreadsEnd'
  BY NetStackAssumption DEF NetInv, TypeOK, Ports, ThreadsEnd, StopAlone,
     Stopping, Completion, sovars, iovars
<1>6. PoolFreedLast'
  BY NetStackAssumption DEF NetInv, TypeOK, Ports, PoolFreedLast, ThreadsEnd,
     Completion, sovars, iovars
<1> QED
  BY <1>1, <1>2, <1>3, <1>4, <1>5, <1>6 DEF NetInv

\* A turn of the I/O thread keeps it.
LEMMA IorunInv ==
  ASSUME NetInv, NEW i \in Ports, iorun(i)
  PROVE  NetInv'
<1>1. TypeOK'
  BY NetStackAssumption DEF NetInv, TypeOK, Protocols, iorun, sovars, iovars
<1>2. StartCounted'
  <2>1. Starting' = Starting
    BY DEF Starting, iorun
  <2> QED
    BY <2>1, StartingFinite DEF NetInv, TypeOK, StartCounted, NeverBuilt,
       Initializing, Stopping, iorun, sovars, iovars
<1>3. StopAlone'
  BY DEF NetInv, TypeOK, StopAlone, Stopping, Initializing, StartCounted,
     iorun, sovars, iovars
<1>4. AskedOnce'
  BY DEF NetInv, TypeOK, AskedOnce, iorun, sovars, iovars
<1>5. ThreadsEnd'
  BY NetStackAssumption DEF NetInv, TypeOK, Ports, ThreadsEnd, StopAlone,
     Stopping, iorun, sovars, iovars
<1>6. PoolFreedLast'
  BY NetStackAssumption DEF NetInv, TypeOK, Ports, PoolFreedLast, ThreadsEnd,
     iorun, sovars, iovars
<1> QED
  BY <1>1, <1>2, <1>3, <1>4, <1>5, <1>6 DEF NetInv

-----------------------------------------------------------------------------
(* The theorems                                                            *)

\* Every step of the specification preserves the invariant.
LEMMA NextInv == NetInv /\ [Next]_vars => NetInv'
<1> SUFFICES ASSUME NetInv, [Next]_vars PROVE NetInv'
  OBVIOUS
<1>1. ASSUME NEW c \in Callers, NEW p \in Protocols,
             so_init(c, p) \/ so_uninit(c, p)
      PROVE  NetInv'
  BY <1>1, So_initInv, So_uninitInv
<1>2. ASSUME NEW c \in Callers, Step(c) PROVE NetInv'
  BY <1>2, InitLaterInv, IoInitInv, IoInitFailedInv, InitUndoInv,
     CreatePortInv, IoReadyInv, ObjinitInv, MarkProtocolInv, ObjuninitInv, IouninitInv,
     StopThreadInv, WaitThreadInv, ClosePortInv, FreePoolInv DEF Step
<1>3. ASSUME NEW l \in Links, ioatth(l) \/ Completion(l) PROVE NetInv'
  BY <1>3, IoatthInv, CompletionInv
<1>4. ASSUME NEW i \in Ports, iorun(i) PROVE NetInv'
  BY <1>4, IorunInv
<1>5. CASE UNCHANGED vars
  <2>1. TypeOK' /\ AskedOnce' /\ ThreadsEnd' /\ PoolFreedLast'
    BY <1>5 DEF NetInv, TypeOK, AskedOnce, ThreadsEnd, PoolFreedLast, vars
  <2>2. Starting' = Starting /\ Initializing' = Initializing /\ Stopping' = Stopping
    BY <1>5 DEF Starting, Initializing, Stopping, vars
  <2>3. StartCounted' /\ StopAlone'
    BY <1>5, <2>2 DEF NetInv, StartCounted, NeverBuilt, StopAlone, vars
  <2> QED
    BY <2>1, <2>3 DEF NetInv
<1> QED
  BY <1>1, <1>2, <1>3, <1>4, <1>5 DEF Next

\* The invariant holds in every reachable state: the count __so_startup is the
\* number of unfinished starts, plus one for good once the pool was complete.
THEOREM NetInvariant == Spec => []NetInv
<1>1. Init => NetInv
  BY InitInv
<1>2. NetInv /\ [Next]_vars => NetInv'
  BY NextInv
<1> QED
  BY <1>1, <1>2, PTL DEF Spec

\* A set of numbers whose elements are all equal has at most one.
LEMMA AtMostOne ==
  ASSUME NEW S, \A j, k \in S : j = k
  PROVE  Cardinality(S) <= 1
<1>1. CASE S = {}
  BY <1>1, FS_EmptySet
<1>2. CASE S # {}
  <2>1. PICK j \in S : TRUE
    BY <1>2
  <2>2. S = {j}
    BY <2>1
  <2> QED
    BY <2>2, FS_Singleton
<1> QED
  BY <1>1, <1>2

\* so_init and iouninit exclude themselves and each other, for any number of
\* callers and any number of calls, and no port is asked twice to end.
THEOREM NetOneAtATime == Spec => []OneAtATime
<1>1. NetInv => OneAtATime
  <2> SUFFICES ASSUME NetInv PROVE OneAtATime
    OBVIOUS
  <2>1. /\ \A c, d \in Initializing : c = d
        /\ Initializing # {} => inited # "passed" /\ Stopping = {}
        /\ \A c, d \in Stopping : c = d
    BY DEF NetInv, StartCounted, StopAlone
  <2>2. ASSUME NEW i \in Ports
        PROVE  Cardinality({k \in 1..Len(cq[i]) : cq[i][k] = Quit}) <= 1
    <3>1. \A j, k \in {n \in 1..Len(cq[i]) : cq[i][n] = Quit} : j = k
      BY <2>2 DEF NetInv, AskedOnce
    <3> QED
      BY <3>1, AtMostOne
  <2> QED
    BY <2>1, <2>2 DEF OneAtATime
<1> QED
  BY <1>1, NetInvariant, PTL

\* iouninit closes a port, and frees the pool, only behind threads that ended,
\* for any number of ports.
THEOREM NetPoolFreedLast == Spec => []PoolFreedLast
<1>1. NetInv => PoolFreedLast
  BY DEF NetInv
<1> QED
  BY <1>1, NetInvariant, PTL

-----------------------------------------------------------------------------
(* Every wait of iouninit is answered.                                     *)

\* What a step of one caller makes of the program counters.
LEMMA GotoAt ==
  ASSUME NetInv, NEW c \in Callers, NEW s, Goto(c, s)
  PROVE  \A d \in Callers : pc'[d] = IF d = c THEN s ELSE pc[d]
BY DEF NetInv, TypeOK, Goto

\* Nobody builds, and nobody takes down, at the same time as the other.
LEMMA BuildOrStop ==
  ASSUME NetInv, NEW c \in Callers, pc[c] \in {"startup", "port", "undo"}
  PROVE  /\ NeverBuilt
         /\ \A d \in Callers : pc[d] \notin {"stop", "wait", "close"}
         /\ \A d \in Callers : pc[d] \in {"startup", "port", "undo"} => d = c
<1>1. c \in Initializing
  BY DEF Initializing
<1>2. NeverBuilt /\ Stopping = {} /\ \A a, b \in Initializing : a = b
  BY <1>1 DEF NetInv, StartCounted
<1> QED
  BY <1>1, <1>2 DEF Initializing, Stopping

\* An active port has its thread: the flag is removed before the thread is
\* asked to end.
LEMMA ActiveRuns ==
  ASSUME NetInv, PoolInv, [Next]_vars
  PROVE  \A i \in Ports : actived'[i] => thread'[i] = "running"
<1>a. /\ actived \in [Ports -> BOOLEAN] /\ idx \in [Callers -> 0..Divisions]
      /\ thread \in [Ports -> {"none", "running", "ended"}]
      /\ \A i \in Ports : cq[i] \in Seq(Links \cup {Quit})
  BY DEF NetInv, TypeOK
<1>b. \A i \in Ports : actived[i] => thread[i] = "running"
  BY DEF PoolInv
<1>1. CASE \E c \in Callers : CreatePort(c)
  BY <1>1, <1>a, <1>b DEF CreatePort
<1>2. CASE \E c \in Callers : StopThread(c)
  BY <1>2, <1>a, <1>b DEF StopThread
<1>3. ASSUME NEW i \in Ports, iorun(i)
      PROVE  \A j \in Ports : actived'[j] => thread'[j] = "running"
  <2>1. actived' = actived /\ \A j \in Ports \ {i} : thread'[j] = thread[j]
    BY <1>3, <1>a DEF iorun
  <2>2. CASE Head(cq[i]) = Quit
    <3>1. 1 \in 1..Len(cq[i]) /\ cq[i][1] = Quit
      BY <1>3, <1>a, <2>2 DEF iorun
    <3>2. ~ actived[i]
      BY <3>1 DEF NetInv, AskedOnce
    <3> QED
      BY <2>1, <3>2, <1>b
  <2>3. CASE Head(cq[i]) # Quit
    <3>1. thread'[i] = thread[i]
      BY <1>3, <1>a, <2>3 DEF iorun
    <3> QED
      BY <2>1, <3>1, <1>b
  <2> QED
    BY <2>2, <2>3
<1>4. \/ \E c \in Callers : CreatePort(c) \/ StopThread(c)
      \/ \E i \in Ports : iorun(i)
      \/ UNCHANGED <<actived, thread>>
  BY DEF Next, Step, so_init, Starts, so_uninit, InitLater, IoInit,
     IoInitFailed, InitUndo, IoReady, objinit, MarkProtocol, objuninit, iouninit,
     WaitThread, ClosePort, FreePool, FreeAt, ioatth, Completion, vars, iovars
<1> QED
  BY <1>1, <1>2, <1>3, <1>4, <1>b

-----------------------------------------------------------------------------
(* The wait of iouninit                                                    *)

\* The answer that the caller of iouninit is sure of at port i.
Answered(i) ==
  \/ thread[i] = "ended"
  \/ /\ thread[i] = "running"
     /\ epfd[i] = "open" => \E k \in 1..Len(cq[i]) : cq[i][k] = Quit

\* A caller begins to wait with StopThread only, and its position stays while
\* it waits.
LEMMA WaitBegins ==
  ASSUME NetInv, [Next]_vars, NEW d \in Callers, pc'[d] = "wait"
  PROVE  StopThread(d) \/ (pc[d] = "wait" /\ idx'[d] = idx[d])
<1>1. idx \in [Callers -> 0..Divisions]
  BY DEF NetInv, TypeOK
<1>2. ASSUME NEW c \in Callers, NEW s, s # "wait", Goto(c, s)
      PROVE  c # d /\ pc'[d] = pc[d]
  BY <1>2, GotoAt
<1>3. ASSUME NEW c \in Callers, NEW p \in Protocols,
             so_init(c, p) \/ so_uninit(c, p)
      PROVE  pc[d] = "wait" /\ idx'[d] = idx[d]
  <2>1. idx' = idx
    BY <1>3 DEF so_init, Starts, so_uninit
  <2>2. \/ Goto(c, "startup") \/ Goto(c, "later") \/ Goto(c, "idle")
        \/ Goto(c, "objuninit")
    BY <1>3 DEF so_init, Starts, so_uninit
  <2> QED
    BY <2>1, <2>2, <1>2
<1>4. ASSUME NEW c \in Callers,
             \/ InitLater(c) \/ IoInitFailed(c) \/ InitUndo(c) \/ IoReady(c)
             \/ objinit(c) \/ MarkProtocol(c) \/ objuninit(c) \/ WaitThread(c) \/ FreePool(c)
      PROVE  pc[d] = "wait" /\ idx'[d] = idx[d]
  <2>1. idx' = idx
    BY <1>4 DEF InitLater, IoInitFailed, InitUndo, IoReady, objinit, MarkProtocol,
       objuninit, WaitThread, FreePool, FreeAt
  <2>2. \/ Goto(c, "flag") \/ Goto(c, "undo") \/ Goto(c, "idle") \/ Goto(c, "objinit")
        \/ Goto(c, "iouninit") \/ Goto(c, "close")
    BY <1>4 DEF InitLater, IoInitFailed, InitUndo, IoReady, objinit, MarkProtocol,
       objuninit, WaitThread, FreePool, FreeAt
  <2> QED
    BY <2>1, <2>2, <1>2
<1>5. ASSUME NEW c \in Callers, IoInit(c) \/ iouninit(c) \/ ClosePort(c)
      PROVE  pc[d] = "wait" /\ idx'[d] = idx[d]
  <2>1. Goto(c, "port") \/ Goto(c, "stop") \/ Goto(c, "idle")
    BY <1>5 DEF IoInit, iouninit, ClosePort
  <2>2. c # d /\ pc[d] = "wait"
    BY <2>1, <1>2
  <2>3. idx' = idx \/ \E n : idx' = [idx EXCEPT ![c] = n]
    BY <1>5 DEF IoInit, iouninit, ClosePort
  <2> QED
    BY <2>2, <2>3, <1>1
<1>6. ASSUME NEW c \in Callers, CreatePort(c)
      PROVE  pc[d] = "wait" /\ idx'[d] = idx[d]
  BY <1>6, <1>1 DEF CreatePort
<1>7. ASSUME NEW c \in Callers, StopThread(c)
      PROVE  StopThread(d) \/ (pc[d] = "wait" /\ idx'[d] = idx[d])
  <2>1. /\ Goto(c, "wait") \/ Goto(c, "close")
        /\ idx' = idx
    BY <1>7 DEF StopThread
  <2>2. c # d => pc'[d] = pc[d]
    BY <2>1, GotoAt
  <2> QED
    BY <1>7, <2>1, <2>2
<1>8. CASE \/ \E l \in Links : ioatth(l) \/ Completion(l)
           \/ \E i \in Ports : iorun(i)
           \/ UNCHANGED vars
  BY <1>8 DEF ioatth, Completion, iorun, vars
<1> QED
  BY <1>3, <1>4, <1>5, <1>6, <1>7, <1>8 DEF Next, Step

\* A request queued behind it leaves the request to end where it is.
LEMMA CompletionAnswered ==
  ASSUME NetInv, NEW l \in Links, Completion(l), NEW i \in Ports, Answered(i)
  PROVE  Answered(i)'
<1>1. /\ bound[l] \in Ports /\ cq \in [Ports -> Seq(Links \cup {Quit})]
      /\ thread' = thread /\ epfd' = epfd
      /\ cq' = [cq EXCEPT ![bound[l]] = Append(@, l)]
  BY DEF NetInv, TypeOK, Completion
<1>2. ASSUME NEW k \in 1..Len(cq[i]), cq[i][k] = Quit
      PROVE  k \in 1..Len(cq'[i]) /\ cq'[i][k] = Quit
  <2>1. CASE bound[l] = i
    <3>1. cq[i] \in Seq(Links \cup {Quit}) /\ cq'[i] = Append(cq[i], l)
      BY <1>1, <2>1
    <3> QED
      BY <1>2, <3>1
  <2>2. CASE bound[l] # i
    BY <1>1, <1>2, <2>2
  <2> QED
    BY <2>1, <2>2
<1> QED
  BY <1>1, <1>2 DEF Answered

\* The thread takes the oldest packet of its queue: the request to end, which
\* ends it, or another one, which leaves that request in the queue.
LEMMA IorunAnswered ==
  ASSUME NetInv, NEW j \in Ports, iorun(j), NEW i \in Ports, Answered(i)
  PROVE  Answered(i)'
<1>1. /\ cq \in [Ports -> Seq(Links \cup {Quit})]
      /\ thread \in [Ports -> {"none", "running", "ended"}]
  BY DEF NetInv, TypeOK
<1>2. /\ cq[j] # <<>> /\ thread[j] = "running" /\ epfd[j] = "open"
      /\ epfd' = epfd
      /\ cq' = [cq EXCEPT ![j] = Tail(@)]
      /\ thread' = [thread EXCEPT
                      ![j] = IF Head(cq[j]) = Quit THEN "ended" ELSE @]
  BY DEF iorun
<1>3. CASE i # j
  BY <1>1, <1>2, <1>3 DEF Answered
<1>4. CASE i = j /\ Head(cq[j]) = Quit
  BY <1>1, <1>2, <1>4 DEF Answered
<1>5. CASE i = j /\ Head(cq[j]) # Quit
  <2>1. PICK k \in 1..Len(cq[i]) : cq[i][k] = Quit
    BY <1>2, <1>5 DEF Answered
  <2>2. cq[i] \in Seq(Links \cup {Quit}) /\ cq[i] # <<>>
    BY <1>1, <1>2, <1>5
  <2>3. k # 1
    BY <1>5, <2>1, <2>2
  <2>4. cq'[i] = Tail(cq[i]) /\ thread'[i] = "running"
    BY <1>1, <1>2, <1>5
  <2>5. k - 1 \in 1..Len(Tail(cq[i])) /\ Tail(cq[i])[k - 1] = Quit
    BY <2>1, <2>2, <2>3
  <2> QED
    BY <2>4, <2>5 DEF Answered
<1> QED
  BY <1>3, <1>4, <1>5

\* While a caller waits, no other step touches its port.
LEMMA WaitUndisturbed ==
  ASSUME NetInv, [Next]_vars, NEW d \in Callers, pc[d] = "wait",
         ~ \E l \in Links : Completion(l), ~ \E i \in Ports : iorun(i)
  PROVE  UNCHANGED <<epfd, thread, cq>>
<1>1. ASSUME NEW c \in Callers
      PROVE  ~ CreatePort(c) /\ ~ ClosePort(c) /\ ~ StopThread(c)
  <2>1. ~ CreatePort(c)
    BY BuildOrStop DEF CreatePort
  <2>2. pc[c] \in {"stop", "close"} => c = d
    BY DEF NetInv, StopAlone, Stopping
  <2> QED
    BY <2>1, <2>2 DEF ClosePort, StopThread
<1>2. \/ \E c \in Callers : CreatePort(c) \/ ClosePort(c) \/ StopThread(c)
      \/ \E l \in Links : Completion(l)
      \/ \E i \in Ports : iorun(i)
      \/ UNCHANGED <<epfd, thread, cq>>
  BY DEF Next, Step, so_init, Starts, so_uninit, InitLater, IoInit,
     IoInitFailed, InitUndo, IoReady, objinit, MarkProtocol, objuninit, iouninit,
     WaitThread, FreePool, FreeAt, ioatth, vars, iovars
<1> QED
  BY <1>1, <1>2

\* Every wait is answered, and stays so.
LEMMA WaitStaysAnswered ==
  ASSUME NetInv, PoolInv, [Next]_vars, NEW d \in Callers, pc'[d] = "wait"
  PROVE  Answered(idx[d])' /\ idx'[d] = idx[d]
<1>1. CASE StopThread(d)
  <2>1. idx[d] \in Ports /\ idx' = idx
    BY <1>1, NetStackAssumption DEF NetInv, TypeOK, StopThread, Ports
  <2>2. actived[idx[d]]
    <3>1. Goto(d, IF actived[idx[d]] THEN "wait" ELSE "close")
      BY <1>1 DEF StopThread
    <3>2. pc'[d] = IF actived[idx[d]] THEN "wait" ELSE "close"
      BY <3>1, GotoAt
    <3> QED
      BY <3>2
  <2>3. thread[idx[d]] = "running" /\ thread' = thread /\ epfd' = epfd
    BY <1>1, <2>1, <2>2 DEF PoolInv, StopThread
  <2>4. ASSUME epfd[idx[d]] = "open"
        PROVE  \E k \in 1..Len(cq'[idx[d]]) : cq'[idx[d]][k] = Quit
    <3>1. cq \in [Ports -> Seq(Links \cup {Quit})]
      BY DEF NetInv, TypeOK
    <3>2. cq'[idx[d]] = Append(cq[idx[d]], Quit)
      BY <1>1, <2>1, <2>2, <2>4, <3>1 DEF StopThread
    <3>3. cq[idx[d]] \in Seq(Links \cup {Quit})
      BY <2>1, <3>1
    <3>4. /\ Len(cq[idx[d]]) + 1 \in 1..Len(Append(cq[idx[d]], Quit))
          /\ Append(cq[idx[d]], Quit)[Len(cq[idx[d]]) + 1] = Quit
      BY <3>3
    <3> QED
      BY <3>2, <3>4
  <2> QED
    BY <2>1, <2>3, <2>4 DEF Answered
<1>2. CASE pc[d] = "wait" /\ idx'[d] = idx[d]
  <2>1. idx[d] \in Ports
    BY <1>2 DEF NetInv, ThreadsEnd
  <2>2. Answered(idx[d])
    BY <1>2 DEF PoolInv, WaitAnswered, Answered
  <2>3. CASE \E l \in Links : Completion(l)
    <3>1. PICK l \in Links : Completion(l)
      BY <2>3
    <3>2. \A i \in Ports : Answered(i) => Answered(i)'
      BY <3>1, CompletionAnswered
    <3> QED
      BY <1>2, <2>1, <2>2, <3>2 DEF Answered
  <2>4. CASE \E j \in Ports : iorun(j)
    <3>1. PICK j \in Ports : iorun(j)
      BY <2>4
    <3>2. \A i \in Ports : Answered(i) => Answered(i)'
      BY <3>1, IorunAnswered
    <3> QED
      BY <1>2, <2>1, <2>2, <3>2 DEF Answered
  <2>5. CASE /\ ~ \E l \in Links : Completion(l)
             /\ ~ \E i \in Ports : iorun(i)
    <3>1. UNCHANGED <<epfd, thread, cq>>
      BY <1>2, <2>5, WaitUndisturbed
    <3> QED
      BY <1>2, <2>2, <3>1 DEF Answered
  <2> QED
    BY <2>3, <2>4, <2>5
<1> QED
  BY <1>1, <1>2, WaitBegins

\* Both hold in every reachable state.
THEOREM NetPoolInvariant == Spec => []PoolInv
<1>1. Init => PoolInv
  BY DEF Init, PoolInv, WaitAnswered
<1>2. NetInv /\ PoolInv /\ [Next]_vars => PoolInv'
  <2> SUFFICES ASSUME NetInv, PoolInv, [Next]_vars PROVE PoolInv'
    OBVIOUS
  <2>1. WaitAnswered'
    <3>1. ASSUME NEW d \in Callers, pc'[d] = "wait"
          PROVE  Answered(idx[d])' /\ idx'[d] = idx[d]
      BY <3>1, WaitStaysAnswered
    <3> QED
      BY <3>1 DEF WaitAnswered, Answered
  <2> QED
    BY <2>1, ActiveRuns DEF PoolInv
<1> QED
  BY <1>1, <1>2, NetInvariant, PTL DEF Spec

\* Whoever waits in iouninit, without a time limit, waits for a thread that
\* ended or has the request to end before it, for any number of ports, callers
\* and links: no completion overtakes or replaces that request.
THEOREM NetWaitAnswered == Spec => []WaitAnswered
<1>1. PoolInv => WaitAnswered
  BY DEF PoolInv
<1> QED
  BY <1>1, NetPoolInvariant, PTL
=============================================================================
