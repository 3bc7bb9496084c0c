-------------------------- MODULE LockPagesProofs --------------------------
(***************************************************************************)
(* Theorems about LockPages, for any number of threads and any quota.      *)
(* PagesInv is the inductive invariant; each action preserves it by a      *)
(* lemma of its own.                                                       *)
(***************************************************************************)
EXTENDS LockPages, TLAPS

\* Before the first call the working set has its original size.
LEMMA InitInv == Init => PagesInv
BY LockPagesAssumption DEF Init, PagesInv, TypeOK, SeenQuota, AfterEnlargement,
   NotRead

\* A call starts with a closed handle.
LEMMA Os_lock_virtual_pagesInv ==
  ASSUME PagesInv, NEW t \in Threads, NEW given \in {"NULL", "reserved",
         "committed"}, os_lock_virtual_pages(t, given)
  PROVE  PagesInv'
<1>1. TypeOK'
  BY DEF PagesInv, TypeOK, os_lock_virtual_pages, Goto
<1>2. SeenQuota'
  BY DEF PagesInv, TypeOK, SeenQuota, os_lock_virtual_pages, Goto
<1>3. (minimum >= Quota)'
  BY DEF PagesInv, TypeOK, os_lock_virtual_pages, Goto
<1>4. AfterEnlargement'
  BY DEF PagesInv, TypeOK, AfterEnlargement, os_lock_virtual_pages, Goto
<1> QED
  BY <1>1, <1>2, <1>3, <1>4 DEF PagesInv

\* A lock that succeeds changes neither size nor handle.
LEMMA LockedInv ==
  ASSUME PagesInv, NEW t \in Threads, Locked(t)
  PROVE  PagesInv'
<1>1. TypeOK'
  BY DEF PagesInv, TypeOK, Locked, Goto
<1>2. SeenQuota'
  BY DEF PagesInv, TypeOK, SeenQuota, Locked, Goto
<1>3. (minimum >= Quota)'
  BY DEF PagesInv, TypeOK, Locked, Goto
<1>4. AfterEnlargement'
  BY DEF PagesInv, TypeOK, AfterEnlargement, Locked, Goto
<1> QED
  BY <1>1, <1>2, <1>3, <1>4 DEF PagesInv

\* A turn over quota does not either.
LEMMA QuotaExceededInv ==
  ASSUME PagesInv, NEW t \in Threads, QuotaExceeded(t)
  PROVE  PagesInv'
<1>1. TypeOK'
  BY DEF PagesInv, TypeOK, QuotaExceeded, Goto
<1>2. SeenQuota'
  BY DEF PagesInv, TypeOK, SeenQuota, QuotaExceeded, Goto
<1>3. (minimum >= Quota)'
  BY DEF PagesInv, TypeOK, QuotaExceeded, Goto
<1>4. AfterEnlargement'
  BY DEF PagesInv, TypeOK, AfterEnlargement, QuotaExceeded, Goto
<1> QED
  BY <1>1, <1>2, <1>3, <1>4 DEF PagesInv

\* Nor does committing the block.
LEMMA RecommitInv ==
  ASSUME PagesInv, NEW t \in Threads, Recommit(t)
  PROVE  PagesInv'
<1>1. TypeOK'
  BY DEF PagesInv, TypeOK, Recommit, Refuse, Goto
<1>2. SeenQuota'
  BY DEF PagesInv, TypeOK, SeenQuota, Recommit, Refuse, Goto
<1>3. (minimum >= Quota)'
  BY DEF PagesInv, TypeOK, Recommit, Refuse, Goto
<1>4. AfterEnlargement'
  BY DEF PagesInv, TypeOK, AfterEnlargement, Recommit, Refuse, Goto
<1> QED
  BY <1>1, <1>2, <1>3, <1>4 DEF PagesInv

\* A failure leaves the working set as it is.
LEMMA LockRefusedInv ==
  ASSUME PagesInv, NEW t \in Threads, LockRefused(t)
  PROVE  PagesInv'
<1>1. TypeOK'
  BY DEF PagesInv, TypeOK, LockRefused, Refuse, Goto
<1>2. SeenQuota'
  BY DEF PagesInv, TypeOK, SeenQuota, LockRefused, Refuse, Goto
<1>3. (minimum >= Quota)'
  BY DEF PagesInv, TypeOK, LockRefused, Refuse, Goto
<1>4. AfterEnlargement'
  BY DEF PagesInv, TypeOK, AfterEnlargement, LockRefused, Refuse, Goto
<1> QED
  BY <1>1, <1>2, <1>3, <1>4 DEF PagesInv

\* What is read is at least the original size.
LEMMA GetWorkingSetInv ==
  ASSUME PagesInv, NEW t \in Threads, GetWorkingSet(t)
  PROVE  PagesInv'
<1>1. TypeOK'
  BY DEF PagesInv, TypeOK, GetWorkingSet, Refuse, Goto
<1>2. SeenQuota'
  BY LockPagesAssumption DEF PagesInv, TypeOK, SeenQuota, GetWorkingSet,
     Refuse, Goto, NotRead
<1>3. (minimum >= Quota)'
  BY DEF PagesInv, TypeOK, GetWorkingSet, Refuse, Goto
<1>4. AfterEnlargement'
  BY DEF PagesInv, TypeOK, AfterEnlargement, GetWorkingSet, Refuse, Goto
<1> QED
  BY <1>1, <1>2, <1>3, <1>4 DEF PagesInv

\* What is written is at least one block more, however old the value that was
\* read.
LEMMA SetWorkingSetInv ==
  ASSUME PagesInv, NEW t \in Threads, SetWorkingSet(t)
  PROVE  PagesInv'
<1>1. TypeOK'
  <2>1. seen[t] + 1 \in Nat
    BY DEF PagesInv, TypeOK, SeenQuota, SetWorkingSet, SetTo
  <2> QED
    BY <2>1 DEF PagesInv, TypeOK, SetWorkingSet, SetTo, Refuse, Goto
<1>2. SeenQuota'
  BY DEF PagesInv, TypeOK, SeenQuota, SetWorkingSet, SetTo, Refuse, Goto
<1>3. (minimum >= Quota)'
  BY LockPagesAssumption DEF PagesInv, TypeOK, SetWorkingSet, SetTo, Refuse,
     Goto, SeenQuota, NotRead
<1>4. AfterEnlargement'
  BY LockPagesAssumption DEF PagesInv, TypeOK, AfterEnlargement,
     SetWorkingSet, SetTo, Refuse, Goto, SeenQuota, NotRead
<1> QED
  BY <1>1, <1>2, <1>3, <1>4 DEF PagesInv

\* Releasing the block ends the call.
LEMMA ReleaseBlockInv ==
  ASSUME PagesInv, NEW t \in Threads, ReleaseBlock(t)
  PROVE  PagesInv'
<1>1. TypeOK'
  BY DEF PagesInv, TypeOK, ReleaseBlock, Goto
<1>2. SeenQuota'
  BY DEF PagesInv, TypeOK, SeenQuota, ReleaseBlock, Goto
<1>3. (minimum >= Quota)'
  BY DEF PagesInv, TypeOK, ReleaseBlock, Goto
<1>4. AfterEnlargement'
  BY DEF PagesInv, TypeOK, AfterEnlargement, ReleaseBlock, Goto
<1> QED
  BY <1>1, <1>2, <1>3, <1>4 DEF PagesInv

\* Unlocking leaves the working set as it is.
LEMMA Os_unlock_and_free_virtual_pagesInv ==
  ASSUME PagesInv, NEW t \in Threads, os_unlock_and_free_virtual_pages(t)
  PROVE  PagesInv'
<1>1. TypeOK'
  BY DEF PagesInv, TypeOK, os_unlock_and_free_virtual_pages, Goto
<1>2. SeenQuota'
  BY DEF PagesInv, TypeOK, SeenQuota, os_unlock_and_free_virtual_pages, Goto
<1>3. (minimum >= Quota)'
  BY DEF PagesInv, TypeOK, os_unlock_and_free_virtual_pages, Goto
<1>4. AfterEnlargement'
  BY DEF PagesInv, TypeOK, AfterEnlargement, os_unlock_and_free_virtual_pages,
     Goto
<1> QED
  BY <1>1, <1>2, <1>3, <1>4 DEF PagesInv

-----------------------------------------------------------------------------
(* The theorems                                                            *)

\* Every step of the specification preserves the invariant.
LEMMA NextInv == PagesInv /\ [Next]_vars => PagesInv'
<1> SUFFICES ASSUME PagesInv, [Next]_vars PROVE PagesInv'
  OBVIOUS
<1>1. ASSUME NEW t \in Threads,
             NEW given \in {"NULL", "reserved", "committed"},
             os_lock_virtual_pages(t, given)
      PROVE  PagesInv'
  BY <1>1, Os_lock_virtual_pagesInv
<1>2. ASSUME NEW t \in Threads, Step(t) PROVE PagesInv'
  BY <1>2, LockedInv, QuotaExceededInv, RecommitInv, LockRefusedInv,
     GetWorkingSetInv, SetWorkingSetInv, ReleaseBlockInv DEF Step
<1>3. ASSUME NEW t \in Threads, os_unlock_and_free_virtual_pages(t)
      PROVE  PagesInv'
  BY <1>3, Os_unlock_and_free_virtual_pagesInv
<1>4. CASE UNCHANGED vars
  BY <1>4 DEF PagesInv, TypeOK, SeenQuota, AfterEnlargement, vars
<1> QED
  BY <1>1, <1>2, <1>3, <1>4 DEF Next

\* The invariant holds in every reachable state.
THEOREM PagesInvariant == Spec => []PagesInv
<1>1. Init => PagesInv
  BY InitInv
<1>2. PagesInv /\ [Next]_vars => PagesInv'
  BY NextInv
<1> QED
  BY <1>1, <1>2, PTL DEF Spec

\* Lost updates of the working set never take back all enlargements: a call of
\* os_lock_virtual_pages that enlarged it tries again with more than the
\* original size, whatever the other threads wrote in between.
THEOREM PagesEnlargementShared == Spec => []EnlargementShared
<1>1. PagesInv => EnlargementShared
  BY DEF PagesInv, AfterEnlargement, EnlargementShared
<1> QED
  BY <1>1, PagesInvariant, PTL
=============================================================================
