SPECIFICATION FairSpec
CONSTANT Threads = {t1, t2, t3, t4}
\* The lane ends closed, with every call returned.
CHECK_DEADLOCK FALSE
PROPERTIES
  CloseMeansGone
  OwnsLane
  CloseReturns
