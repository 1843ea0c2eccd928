CONSTANTS
  Lines <- MCLines
  GccRuns = TRUE
SPECIFICATION FairSpec
INVARIANTS
  TypeOK
  ParsesLine
  ReadsLiveMemory
  AssemblyRemoved
PROPERTIES
  KeepsPromise
  Terminates
CHECK_DEADLOCK FALSE
