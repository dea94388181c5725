SPECIFICATION FairSpec
CONSTANTS
  NumPages = 3
  PageBytes = 4
  TLBSize = 1
  Sizes = {1, 2}
  MemByte = {0, 1, 2, 3, 4, 5, 6}
  kXLENInBytes = 2
  Files <- MCFiles
INVARIANTS TypeOK ImageLoaded DamageConfined
PROPERTY LoadingEnds
CHECK_DEADLOCK FALSE
