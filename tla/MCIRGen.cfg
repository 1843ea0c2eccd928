CONSTANTS
  WordBits = 4
  ByteBits = 3
  Inputs <- MCInputs
  Junk <- MCJunk
SPECIFICATION Spec
INVARIANTS
  FreshTemporaries
  LabelsResolve
  NoReadBeforeWrite
  MeaningPreserved
CHECK_DEADLOCK FALSE
