SPECIFICATION FairSpec
CONSTANTS
  none = none
  NoRequest = none
  zero_addr <- MCzero_addr
  HeapWords = 10
  Requests = {1, 2, 3}
  Tags = {1}
INVARIANTS
  LiveIntact
  HeapWalkable
  FreeListExact
  FailureMeansNoFit
PROPERTIES
  SweepCoalesces
  StoreSpec
  Returns
