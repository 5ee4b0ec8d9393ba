CONSTANTS
  Window = 2
  MaxSent = 3
SPECIFICATION ProxyFairSpec
INVARIANTS
  LastWords
PROPERTIES
  LikeDirect
  EndsTogether
CHECK_DEADLOCK FALSE
