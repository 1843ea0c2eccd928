CONSTANTS
  k1 = k1
  k2 = k2
  k3 = k3
  k4 = k4
  v1 = v1
  v2 = v2
  NULL = NULL
  Keys <- MCKeys
  Values <- MCValues
  Hash <- MCHash
  MaxPuts = 5
SPECIFICATION FairSpec
INVARIANTS
  TypeOK
  RoomLeft
  ChainsUnbroken
  ExpansionFaithful
PROPERTIES
  ImplementsMap
  CallsReturn
