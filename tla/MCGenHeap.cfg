CONSTANTS
  Small = {s1, s2, s3}
  Large = {l1}
  SmallWh = 2
  LargeWh = 4
  NoObj = NoObj
  MinorWords = 4
  MajorWords = 8
  RootVars = {r1, r2}
SPECIFICATION Spec
SYMMETRY Symmetry
CHECK_DEADLOCK FALSE
INVARIANTS TypeOK NoDangling RefTableComplete RefTableValid MinorRoomAfterGC PromotedIsUpperBound
PROPERTIES Transparent FullPrecise
