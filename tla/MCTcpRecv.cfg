\* A buffer of 4 bytes with headers of 2: user data of 0 and 1 bytes fits several
\* times, 2 fills the buffer, 3 is the smallest large block, 6 the largest.
SPECIFICATION FairSpec
CONSTANTS
  Header = 2
  Buffer = 4
  MaxUser = 6
  RawBytes = 6
  GoodSizes = {0, 1, 2, 3, 6}
  FewSizes = {0, 1, 3}
  Streams <- MCStreams
INVARIANTS
  DeliveredIntact
  BytesKept
  BuffersFit
  NothingWithheld
PROPERTIES
  RefusesOnlyBad
  ImplementsFrames
  MemoryReturned
  StreamConsumed
