SPECIFICATION Spec
CONSTANTS
  none = none
  NoRequest = none
  zero_addr <- MCzero_addr
  HeapWords = 6
  NumRoots = 2
  Requests <- MCClosures
  gray_cap = 4
INVARIANT RootsInUse
CHECK_DEADLOCK FALSE
