SPECIFICATION Spec
CONSTANTS
  None = None
  Runs <- MCRuns
  Traces <- MCTraces
INVARIANT FinishedTraceHasEnded
CHECK_DEADLOCK FALSE
