CONSTANTS
  MaxPlayers = 2
  p1 = p1
  p2 = p2
  n1 = n1
  n2 = n2
  Persons = {p1, p2}
  None = None
  Names = {n1, n2}
  NamesOf <- OwnName
  BadHosts = {p1}
  BadNames = {}
  TimeRule = FALSE
  MaxRows = 2
  MaxObits = 0
  MaxTasks = 2
SPECIFICATION FairSpec
CHECK_DEADLOCK FALSE
INVARIANTS
  CountCoversSlots
  StatsOnce
PROPERTY BadHostIsMuted
