SPECIFICATION FairSpec
CONSTANTS
  Threads = {t1, t2, t3}
  Quota = 1
INVARIANTS
  EnlargementShared
PROPERTIES
  LockEnds
