SPECIFICATION Spec
CONSTANTS
  minor_heap_size = 56
  max_young_wosize = 4
  minor_base_addr = 4096
  zero_addr = 1024
  LowWz = 2
  OldWz = 1
  HeapWords = 14
  RootCap = 4
  MaxMajor = 2
  MaxSlots = 1
  Requests <- MCRequests
INVARIANTS
  ParentsFound
  CopiesExact
  NoMinorLeft
PROPERTIES
  TranslateExact
  SynthesisExact
  MajorKept
CHECK_DEADLOCK FALSE
