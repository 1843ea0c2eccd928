CONSTANTS
  Texts <- MCTexts
  WordBits = 6
  ByteBits = 3
  MapSize = 6
  Junk <- MCJunk
SPECIFICATION FairSpec
INVARIANTS
  TypeOK
  TokenizesByLongestMatch
  ParsesGrammar
  FreesEachNodeOnce
  ErrorsAreNotLost
  AcceptsTheLanguage
  AcceptedIsGenerated
  CompilesAsC
PROPERTY
  Terminates
CHECK_DEADLOCK FALSE
