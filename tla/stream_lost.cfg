SPECIFICATION Spec
SYMMETRY Interchangeable
CONSTANTS
  Threads = {t1, t2}
  Keys = {k1, k2, k3}
  Contexts = {c1, c2, c3, c4}
  None = None
  Capacity = 1
  MayLose = TRUE
\* The lane ends closed, with every call returned.
CHECK_DEADLOCK FALSE
INVARIANTS
  ContextsAlive
  OwnersCoverCore
  NothingLeaks
PROPERTIES
  StorageSuffices
