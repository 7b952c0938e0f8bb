\* Two requests, in every order with two registrations of each of two threads.  Two
\* of the short names fill the table; a short one and the long one, its bytes.
SPECIFICATION FairSpec
CONSTANTS
  a = a
  b = b
  c = c
  long = long
  None = None
  Threads = {p1, p2}
  Targets = {a, b, c, long}
  size <- MCSize
  MaxHandlers = 2
  MaxBytes = 3
  MaxProjected = 1
  MaxRequests = 2
\* A lock cycle is reported as a call that does not return.
CHECK_DEADLOCK FALSE
INVARIANTS
  RightHandler
  WithinLimits
PROPERTIES
  Answered
  CallsReturn
