\* Three starters; two required symbols, of which a file exports none, one or both.
SPECIFICATION FairSpec
CONSTANTS
  lib = lib
  other = other
  link = link
  None = None
  Hosts = {h}
  FileLanes = {f}
  StreamLanes = {s}
  Secured = {h}
  Owned = {f}
  Paths = {lib, other, link}
  Files = {lib, other}
  resolve <- MCResolve
  Fallbacks <- MCFallbacks
  Symbols = 2
\* Every start may have ended.
CHECK_DEADLOCK FALSE
INVARIANTS
  LoadLeavesNothing
  HandlesUsable
  StartIsAllOrNothing
PROPERTIES
  StartReturns
  KeepsContract
