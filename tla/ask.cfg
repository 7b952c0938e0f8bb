\* Two asynchronous asks on one lane and a synchronous one, two borrows; whichever
\* comes third finds the identities used up.
SPECIFICATION FairSpec
CONSTANTS
  SyncAsks = {s}
  AsyncAsks = {a1, a2}
  Lanes = 1
  MaxActive = 2
  MaxID = 2
\* Every ask may have returned.
CHECK_DEADLOCK FALSE
INVARIANTS
  TicketsBeforeRelease
  IdentitiesUnique
  OutcomeKept
PROPERTIES
  TicketSerialized
  QueuedCancellation
  AskReturns
  ReturnsBorrows
