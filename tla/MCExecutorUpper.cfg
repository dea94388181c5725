SPECIFICATION MixSpec
CONSTANTS
  XLEN = 4
  kRegNum = 3
  kCSRegNum = 1
  kXLENInBytes = 4
  kUpperShift = 2
  kShamtBits = 2
  WordBits = 2
  PageBits = 3
  Absent = Absent
  NoInst = NoInst
  Loaded <- MCLoaded
  EntryPoints <- MCEntry
  Program <- MCProgram
  Deviating <- MCButUpper
PROPERTY
  RVSpec
CHECK_DEADLOCK FALSE
