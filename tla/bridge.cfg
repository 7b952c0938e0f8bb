\* One object of each kind; a library that lacks no function of a lane, any one, or all.
SPECIFICATION BridgeSpec
CONSTANT
  Libraries <- MCLibraries
INVARIANTS
  EntersAsDeclared
  NothingLost
