CONSTANTS
  a = a
  Emails = {a, b, c}
  SignIns = {s, t}
  AtStart <- OneUser
  MaxUsers = 3
  MaxSessions = 2
SPECIFICATION Spec
SYMMETRY Alikes
INVARIANTS
  UsersDistinct
  SignInLasts
CHECK_DEADLOCK FALSE
