SPECIFICATION Spec
CONSTANTS
  Handles = {h1, h2, h3}
  SynPackets = {p1, p2, p3, p4}
  Block = 1
  SynTimes = 1
  None = None
CHECK_DEADLOCK FALSE
INVARIANTS
  NoOrphan
