SPECIFICATION Spec
CONSTANTS
  Threads = {t1, t2}
  Hosts = {a}
  Ports = {p}
  Groups = {g}
  MaxAwaken = 0
  None = None
CHECK_DEADLOCK FALSE
INVARIANTS
  BlockReleased
