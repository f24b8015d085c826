SPECIFICATION FairSpec
CONSTANTS
  inf = inf
  imm = imm
  NumBlocks <- MCNumBlocks
  InfixHeaders <- MCInfix
  ParentOf <- MCParentOf
  Immediates <- MCImmediates
  Contents <- MCContents
  NoScanSets <- MCNoScanSets
  RootArrays <- MCRootArrays
  Capacities <- MCCapacities
INVARIANTS
  TypeOK
  StackIsGraySet
  TriColor
  RescanCovers
  OnlyReachableMarked
  MarkExact
PROPERTIES
  MarkTerminates
CHECK_DEADLOCK FALSE
