\* Two pending requests, one retry, three handles, four packets: connections are
\* accepted and dropped; the run rests when the listener is gone.
SPECIFICATION FairSpec
CONSTANTS
  Handles = {h1, h2, h3}
  SynPackets = {p1, p2, p3, p4}
  Block = 2
  SynTimes = 1
  None = None
CHECK_DEADLOCK FALSE
INVARIANTS
  AcceptsKept
  OneRequestEach
PROPERTIES
  RetriesBounded
  ListenerEnds
