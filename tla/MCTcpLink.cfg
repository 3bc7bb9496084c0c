\* Three data events: enough for data before, during and after the connect event.
\* The network may be silent for ever.
SPECIFICATION FairSpec
CONSTANT MaxData = 3
INVARIANTS
  NothingAfterClosed
  ConnectedFirst
  ConnectedIsRead
PROPERTIES
  DestroyInterrupts
  PacketsReturned
