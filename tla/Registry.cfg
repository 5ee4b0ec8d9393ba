CONSTANTS
  Names = {m, n}
  Requests = {q, r}
  AtStart = 1
  MaxIds = 3
  Live = {1}
SPECIFICATION Spec
SYMMETRY Alikes
INVARIANTS
  
  ListedOnce
  MatchesTable
  
CHECK_DEADLOCK FALSE
