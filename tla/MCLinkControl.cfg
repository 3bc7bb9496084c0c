\* Two threads in every interleaving of their calls; one reference is kept for ever.
SPECIFICATION FairSpec
CONSTANTS
  Callers = {c1, c2}
  Contexts <- MCContexts
  MaxLeaks = 1
  None = None
CHECK_DEADLOCK FALSE
INVARIANTS
  ContextReadBack
  NoStaleRead
PROPERTIES
  ControlEnds
