CONSTANTS
  Lines <- MCStrays
  GccRuns = FALSE
SPECIFICATION FairSpec
INVARIANT CompilesTheNamedFile
CHECK_DEADLOCK FALSE
