\* Two threads; nine security policies and two strategies.
SPECIFICATION Spec
CONSTANTS
  None = None
  Callers = {c1, c2}
  StartSpecs <- MCStartSpecs
  StartSecurity <- MCStartSecurity
  SecuritySpecs <- MCSecuritySpecs
  ConnectionSpecs <- MCConnectionSpecs
\* A start may fail.
CHECK_DEADLOCK FALSE
INVARIANTS
  AppliedMeansAsked
  SealedOut
  GivenIsExplicit
