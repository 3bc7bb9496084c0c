\* Four calls of two threads on a pool of two ports; a bounded number of calls is
\* made and then everything rests.
SPECIFICATION FairSpec
CONSTANTS
  Callers = {c1, c2}
  Divisions = 2
  Links = {0, 1}
  MaxCalls = 4
CHECK_DEADLOCK FALSE
INVARIANTS
  OneAtATime
  PoolFreedLast
  WaitAnswered
PROPERTIES
  UninitReturns
