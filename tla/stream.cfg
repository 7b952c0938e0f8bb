\* One record and one candidate: every third admission evicts.
SPECIFICATION FairSpec
CONSTANTS
  Threads = {t1, t2}
  Keys = {k1, k2}
  Contexts = {c1, c2, c3}
  None = None
  Capacity = 1
  MayLose = FALSE
\* The lane ends closed, with every call returned.
CHECK_DEADLOCK FALSE
INVARIANTS
  OwnersOnlyForCore
PROPERTIES
  OwnsLane
  LaneReleased
