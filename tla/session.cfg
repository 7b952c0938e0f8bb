\* At most two asks at once out of three, up to two refused stops.
\* A retired session with no caller left does nothing more: it may stop.
CONSTANTS
  a1 = a1
  a2 = a2
  h = h
  c1 = c1
  c2 = c2
  q = q
  NoOne = NoOne
  Asks <- MCAsks
  HandlerAsks <- MCHandlerAsks
  Closers <- MCClosers
  HandlerClosers <- MCHandlerClosers
  MaxActive = 2
  MaxRefusals = 2
SPECIFICATION FairSpec
INVARIANTS
  ReaderBeforeStop
  RetiredExactlyWhenDue
  CloseTellsTheTruth
PROPERTIES
  OwnsNativeObjects
  SealRetires
  CloseReturns
CHECK_DEADLOCK FALSE
