CONSTANTS
  MapSize = 5
  Programs <- MCPrograms
SPECIFICATION FairSpec
INVARIANTS
  TypeOK
  SlotsDistinct
  OperandsPlaced
  FrameCovers
  AllLegal
  EpilogueBeforeReturns
PROPERTY
  Terminates
CHECK_DEADLOCK FALSE
