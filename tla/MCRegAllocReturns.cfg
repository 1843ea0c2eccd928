CONSTANTS
  MapSize = 5
  Programs <- MCTwoReturns
SPECIFICATION FairSpec
INVARIANT
  EpilogueBeforeReturns
CHECK_DEADLOCK FALSE
