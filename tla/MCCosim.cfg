SPECIFICATION FairSpec
CONSTANTS
  None = None
  Runs <- MCRuns
  Traces <- MCTraces
INVARIANTS TypeOK VerdictIsAgreement SuccessMeansSameRun DiagnosisIsRight
PROPERTY ComparisonEnds
CHECK_DEADLOCK FALSE
