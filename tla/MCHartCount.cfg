CONSTANTS
  NumWords = 4
  WordBytes = 4
  PageWords = 2
  Word = {"bad", "op", "br", "jalr", "ecall"}
  Zero = "bad"
  Unmapped = Unmapped
  Decode <- MCDecode
  StoreWords = {}
  CacheSizes = {2}
  MaxInstr = 7
  MaxBlock = 5
SPECIFICATION Spec
INVARIANT InstrCountIsRetired
CHECK_DEADLOCK FALSE
