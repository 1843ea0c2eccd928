CONSTANTS
  MapSize = 5
  Programs <- MCMany
SPECIFICATION FairSpec
INVARIANT
  MapInBounds
CHECK_DEADLOCK FALSE
