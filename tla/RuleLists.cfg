CONSTANTS
  Sessions = {s1, s2}
  Checks = {k1}
  WideCount = 1
  Started = 3
  MaxAdded = 5
  MaxChanges = 2
  Prefixes = {{1}, {2}, {4}, {5}, {1, 3}, {2, 4}}
SPECIFICATION ListSpec
INVARIANTS
  CheckGoesByTheList
  FileFollows
PROPERTY ListIsABook
CHECK_DEADLOCK FALSE
