SPECIFICATION BridgeSpec
CONSTANTS
  none = none
  NoRequest = none
  zero_addr <- MCzero_addr
  HeapWords = 6
  NumRoots = 2
  Requests <- MCMixed
  gray_cap = 4
INVARIANTS
  StackInBounds
CHECK_DEADLOCK FALSE
