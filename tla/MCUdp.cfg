\* Two threads, two hosts with two ports to connect to, one group; the link is
\* awakened at most once.  Everything rests when the link is unloaded.
SPECIFICATION FairSpec
CONSTANTS
  Threads = {t1, t2}
  Hosts = {a, b}
  Ports = {p, q}
  Groups = {g}
  MaxAwaken = 1
  None = None
CHECK_DEADLOCK FALSE
INVARIANTS
  RefsAccounted
  KeepsReceiving
  GroupTracked
PROPERTIES
  UdpEnds
