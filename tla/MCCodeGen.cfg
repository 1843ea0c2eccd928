CONSTANTS
  Programs = {}
  WordBits = 4
  ByteBits = 3
  MapSize = 4
  IRPrograms <- MCIRPrograms
  Junk <- MCJunk
SPECIFICATION CodeGenSpec
INVARIANTS
  PrefixSimulates
  RewritesPreserveMeaning
  AssemblyKeepsMeaning
CHECK_DEADLOCK FALSE
