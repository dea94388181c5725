SPECIFICATION Spec
CONSTANTS
  XLEN = 32
  MaxCalls = 3
  Table <- MCTable
INVARIANTS
  TypeOK
  ImmediatesAreTheManuals
  ShiftAmountSurvives
CHECK_DEADLOCK FALSE
