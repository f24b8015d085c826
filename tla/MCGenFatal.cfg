CONSTANTS
  Small = {s1, s2, s3, s4, s5}
  Large = {l1}
  SmallWh = 2
  LargeWh = 3
  NoObj = NoObj
  MinorWords = 2
  MajorWords = 8
  RootVars = {r1}
SPECIFICATION Spec
SYMMETRY ObjSymmetry
CHECK_DEADLOCK FALSE
INVARIANTS PromotionFailsOnlyWhenFull
