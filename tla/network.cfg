\* Two of the starts are outbound and give a bind port.
SPECIFICATION Spec
CONSTANTS
  None = None
  Callers = {c1}
  StartSpecs <- MCStartSpecs
  StartSecurity <- MCStartSecurity
  SecuritySpecs <- MCSecuritySpecs
  ConnectionSpecs <- MCConnectionSpecs
\* A start may fail.
CHECK_DEADLOCK FALSE
INVARIANTS
  ExactPresenceBits
