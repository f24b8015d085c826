SPECIFICATION Spec
CONSTANTS
  none = none
  NoRequest = none
  zero_addr <- MCzero_addr
  HeapWords = 7
  Requests = {0, 1}
  Tags = {0}
INVARIANT NormalisedInStep
