----------------------------- MODULE LockPages -----------------------------
(***************************************************************************)
(* os_lock_virtual_pages and os_unlock_and_free_virtual_pages (os.c): a    *)
(* block of memory is locked into the working set of the process, which is *)
(* enlarged when its quota does not allow another locked block.            *)
(*                                                                         *)
(* The working set belongs to the process and is read and written by two   *)
(* system calls, so threads that lock blocks at the same time overwrite    *)
(* each other's enlargement.  Every system call is a step.  All blocks     *)
(* have the same size, and the working set is counted in blocks.           *)
(***************************************************************************)
EXTENDS Integers, FiniteSets

CONSTANTS Threads,   \* threads that lock a block each
          Quota      \* blocks the process may lock before any adjustment

ASSUME LockPagesAssumption ==
  /\ IsFiniteSet(Threads)
  /\ Quota \in Nat

NotRead == -1

VARIABLES
  minimum,    \* the process's minimum working set
  locked,     \* threads whose block is locked
  pc,         \* of each thread
  block,      \* MemoryBlock: "NULL", "reserved", "committed", "freed"
  LoopFlag,   \* the block may still be committed again
  seen        \* MinimumWorkingSetSize, as read (NotRead: handleProcess not open)

vars == <<minimum, locked, pc, block, LoopFlag, seen>>

Init ==
  /\ minimum = Quota
  /\ locked = {}
  /\ pc = [t \in Threads |-> "idle"]
  /\ block = [t \in Threads |-> "NULL"]
  /\ LoopFlag = [t \in Threads |-> TRUE]
  /\ seen = [t \in Threads |-> NotRead]

Goto(t, step) == pc' = [pc EXCEPT ![t] = step]

\* A system call fails and the loop is left.
Refuse(t) == Goto(t, "release")

-----------------------------------------------------------------------------
(* os_lock_virtual_pages                                                   *)

\* The caller brings a block of its own, reserved or committed, or asks for a
\* new one with NULL.  Without memory for a new one, and for a block of its own
\* whose size is not a multiple of the page size, the call returns NULL.
os_lock_virtual_pages(t, given) ==
  /\ pc[t] = "idle"
  /\ LoopFlag' = [LoopFlag EXCEPT ![t] = TRUE]
  /\ seen' = [seen EXCEPT ![t] = NotRead]
  /\ \/ /\ block' = [block EXCEPT ![t] =
                       IF given = "NULL" THEN "committed" ELSE given]
        /\ Goto(t, "lock")
     \/ UNCHANGED <<block, pc>>
  /\ UNCHANGED <<minimum, locked>>

\* VirtualLock succeeds: the process locks fewer blocks than its quota.
Locked(t) ==
  /\ pc[t] = "lock"
  /\ block[t] = "committed"
  /\ Cardinality(locked) < minimum
  /\ locked' = locked \cup {t}
  /\ Goto(t, "held")
  /\ UNCHANGED <<minimum, block, LoopFlag, seen>>

\* ERROR_WORKING_SET_QUOTA: the working set has to be enlarged.  The handle of
\* the process is opened on the first turn only, the rest is done on each.
QuotaExceeded(t) ==
  /\ pc[t] = "lock"
  /\ block[t] = "committed"
  /\ Cardinality(locked) >= minimum
  /\ Goto(t, "query")
  /\ UNCHANGED <<minimum, locked, block, LoopFlag, seen>>

\* ERROR_NOACCESS: a block that was only reserved is committed, once.
Recommit(t) ==
  /\ pc[t] = "lock"
  /\ block[t] = "reserved"
  /\ LoopFlag[t]
  /\ \/ /\ block' = [block EXCEPT ![t] = "committed"]
        /\ LoopFlag' = [LoopFlag EXCEPT ![t] = FALSE]
        /\ UNCHANGED pc
     \/ block' = [block EXCEPT ![t] = "NULL"] /\ Refuse(t) /\ UNCHANGED LoopFlag
  /\ UNCHANGED <<minimum, locked, seen>>

\* Any other error of VirtualLock.
LockRefused(t) ==
  /\ pc[t] = "lock"
  /\ Refuse(t)
  /\ UNCHANGED <<minimum, locked, block, LoopFlag, seen>>

\* GetProcessWorkingSetSize; a handle that could not be opened is NULL, which
\* is not INVALID_HANDLE_VALUE, and fails here.
GetWorkingSet(t) ==
  /\ pc[t] = "query"
  /\ \/ /\ seen' = [seen EXCEPT ![t] = minimum]
        /\ Goto(t, "adjust")
     \/ Refuse(t) /\ UNCHANGED seen
  /\ UNCHANGED <<minimum, locked, block, LoopFlag>>

\* SetProcessWorkingSetSize, after which the loop starts again.
SetTo(t, size) ==
  /\ pc[t] = "adjust"
  /\ \/ minimum' = size /\ Goto(t, "lock")
     \/ Refuse(t) /\ UNCHANGED minimum
  /\ UNCHANGED <<locked, block, LoopFlag, seen>>

\* Mutant of SetWorkingSet: the size of the block is not added.
SetUnchanged(t) == SetTo(t, seen[t])

\* What was read, and this block.
SetWorkingSet(t) == SetTo(t, seen[t] + 1)

\* The call fails: the handle is closed and the block released, also one that
\* the caller brought.
ReleaseBlock(t) ==
  /\ pc[t] = "release"
  /\ block' = [block EXCEPT ![t] = IF @ = "NULL" THEN @ ELSE "freed"]
  /\ Goto(t, "idle")
  /\ UNCHANGED <<minimum, locked, LoopFlag, seen>>

\* The working set keeps its size.
os_unlock_and_free_virtual_pages(t) ==
  /\ pc[t] = "held"
  /\ locked' = locked \ {t}
  /\ block' = [block EXCEPT ![t] = "freed"]
  /\ Goto(t, "idle")
  /\ UNCHANGED <<minimum, LoopFlag, seen>>

Step(t) ==
  \/ Locked(t) \/ QuotaExceeded(t) \/ Recommit(t) \/ LockRefused(t)
  \/ GetWorkingSet(t) \/ SetWorkingSet(t) \/ ReleaseBlock(t)

Next ==
  \E t \in Threads :
    \/ \E given \in {"NULL", "reserved", "committed"} :
         os_lock_virtual_pages(t, given)
    \/ Step(t)
    \/ os_unlock_and_free_virtual_pages(t)

\* A thread inside a call goes on; nothing forces a call or an unlock.
Fairness == \A t \in Threads : WF_vars(Step(t))

Spec == Init /\ [][Next]_vars

FairSpec == Spec /\ Fairness
-----------------------------------------------------------------------------
(* Properties                                                              *)

TypeOK ==
  /\ minimum \in Nat
  /\ locked \subseteq Threads
  /\ pc \in [Threads -> {"idle", "lock", "query", "adjust", "release", "held"}]
  /\ block \in [Threads -> {"NULL", "reserved", "committed", "freed"}]
  /\ LoopFlag \in [Threads -> BOOLEAN]
  /\ seen \in [Threads -> Nat \cup {NotRead}]

\* The calls overwrite each other's enlargement, but never all of them: the
\* working set does not fall below its original size, and a call that enlarged
\* it finds it larger than that when it tries again.
EnlargementShared ==
  /\ minimum >= Quota
  /\ \A t \in Threads : pc[t] = "lock" /\ seen[t] # NotRead => minimum > Quota

\* The loop, which has no limit, ends.
LockEnds ==
  \A t \in Threads :
    pc[t] \in {"lock", "query", "adjust", "release"} ~> pc[t] \in {"idle", "held"}
-----------------------------------------------------------------------------
(* The inductive invariant behind the theorems of LockPagesProofs          *)

\* No call ever read less than the original size.
SeenQuota == \A t \in Threads :
  /\ seen[t] # NotRead => seen[t] >= Quota
  /\ pc[t] = "adjust" => seen[t] # NotRead

\* A turn of the loop that found the handle open follows an enlargement.
AfterEnlargement ==
  (\E t \in Threads : pc[t] \in {"lock", "query"} /\ seen[t] # NotRead)
    => minimum > Quota

PagesInv ==
  /\ TypeOK
  /\ SeenQuota
  /\ minimum >= Quota
  /\ AfterEnlargement
=============================================================================
