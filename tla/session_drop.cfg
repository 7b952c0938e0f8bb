\* Core refuses runtime_stop once.
\* A retired session with no caller left does nothing more: it may stop.
CONSTANTS
  a1 = a1
  a2 = a2
  h = h
  c1 = c1
  c2 = c2
  q = q
  NoOne = NoOne
  Asks <- MCAsks
  HandlerAsks <- MCHandlerAsks
  Closers <- MCClosers
  HandlerClosers <- MCHandlerClosers
  MaxActive = 2
  MaxRefusals = 1
SPECIFICATION FairSpec
PROPERTIES
  DropRetires
CHECK_DEADLOCK FALSE
