CONSTANTS
  NumPages = 3
  PageBytes = 2
  TLBSize = 2
  Sizes = {1, 2}
  MemByte = {0, 1}
  Frame = {f1, f2, f3}
  Null = Null
  MaxCalls = 4
SYMMETRY FrameSymmetry
SPECIFICATION MCSpec
INVARIANTS TypeOK TLBCoherent PagesDisjoint StatsAccountForPages LastPageCached
PROPERTIES PagesStay FlatSpec
CHECK_DEADLOCK FALSE
