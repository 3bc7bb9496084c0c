\* One thread: the calls do not overlap.
SPECIFICATION Spec
CONSTANTS
  Callers = {c1}
  Contexts <- MCContexts
  MaxLeaks = 0
  None = None
CHECK_DEADLOCK FALSE
INVARIANTS
  FreedOnce
