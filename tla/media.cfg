CONSTANTS
  Codec = {a, b}
  MaxPipes = 3
  Lively = {1}
  MaxRefresh = 2
  MaxKeys = 2
  MaxMkiLen = 5
  MaxPow2 = 3
SPECIFICATION Spec
INVARIANTS
  EncryptedAsAgreed
  SameCodec
  PlayingIsTrue
  AttributesReadBack
PROPERTIES
  PendingEnds
  StopIsFinal
CHECK_DEADLOCK FALSE
