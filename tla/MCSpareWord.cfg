SPECIFICATION Spec
CONSTANTS
  none = none
  NoRequest = none
  zero_addr <- MCzero_addr
  HeapWords = 6
  NumRoots = 2
  Requests <- MCRaw
  gray_cap = 4
INVARIANT FreeListOfBlocks
CHECK_DEADLOCK FALSE
