CONSTANTS
  MaxPlayers = 2
  p1 = p1
  p2 = p2
  n1 = n1
  n2 = n2
  Persons = {p1, p2}
  None = None
  Names = {n1, n2}
  NamesOf <- SharedName
  BadHosts = {p1}
  BadNames = {}
  TimeRule = FALSE
  MaxRows = 2
  MaxObits = 2
  MaxTasks = 0
SPECIFICATION Spec
CHECK_DEADLOCK FALSE
INVARIANTS
  BooksBalance
  ScoreConsistent
  ScoresAgree
