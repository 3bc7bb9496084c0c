\* Two writers, four packets, room for two cached packets: the cache overflows
\* while one packet is in flight and the order of two cached ones matters.
SPECIFICATION FairSpec
CONSTANTS
  Writers = {w1, w2}
  IO = io
  Packets = {p1, p2, p3, p4}
  CacheLimit = 3
  NoPkt = NoPkt
  NoThread = NoThread
INVARIANTS
  OneTransmitter
  CacheCounted
  NoLostWakeup
  OneOwner
  UnloadedIsQuiet
  PostedInOrder
PROPERTIES
  ImplementsChannel
  CallsBounded
  CacheDrains
  ClosingEnds
