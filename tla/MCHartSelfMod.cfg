CONSTANTS
  NumWords = 4
  WordBytes = 4
  PageWords = 2
  Word = {"bad", "op", "store", "jal", "ecall"}
  Zero = "bad"
  Unmapped = Unmapped
  Decode <- MCDecode
  StoreWords = {"op", "ecall"}
  CacheSizes <- AllOrNone
  MaxInstr = 4
  MaxBlock = 5
SPECIFICATION FairSpec
INVARIANTS BlocksFromMemory FreshWithoutCache
PROPERTIES IsaSpec CreationEnds EcallEndsRun
CHECK_DEADLOCK FALSE
