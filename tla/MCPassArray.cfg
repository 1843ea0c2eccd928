CONSTANTS
  Inputs <- MCInputs
  MapSize = 4
  Capacity = 1
SPECIFICATION FairSpec
INVARIANT TypeOK
PROPERTIES
  ImplementsRegAlloc
  Terminates
CHECK_DEADLOCK FALSE
