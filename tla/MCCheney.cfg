SPECIFICATION Spec
CONSTANTS
  NumMinor = 3
  NumOld = 1
  NumMajor = 4
  Distances = {1}
  QueueSize = 3
  Images <- MCImages
INVARIANTS
  SharingKept
  QueueExact
  PromotesLive
  NoMinorLeft
PROPERTIES
  RootsMoved
CHECK_DEADLOCK FALSE
