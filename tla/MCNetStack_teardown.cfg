SPECIFICATION Spec
CONSTANTS
  Callers = {c1}
  Divisions = 2
  Links = {0}
  MaxCalls = 3
CHECK_DEADLOCK FALSE
INVARIANTS
  TeardownWhenAllReleased
