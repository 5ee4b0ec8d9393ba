CONSTANTS
  A = A
  B = B
  Frontends = {A, B}
  Clients = {c}
  AtStart <- Sorted
  Live = {A}
  MaxArrays = 2
  MaxInviteTokens = 2
  Freq = 1
  PlayerTokens = 2
  PlayerWait = 2
  PlayerGap = 1
SPECIFICATION FairSpec
INVARIANTS
  BucketBounded
PROPERTIES
  PlayerRate
  ServerRate
  RefillArrives
