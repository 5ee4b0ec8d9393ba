CONSTANTS
  Handler = h
  Procs = {h}
  MaxMessages = 2
  MaxDraws = 4
  MaxUp = 1
SPECIFICATION Spec
PROPERTY PreviousIvIsTried
CHECK_DEADLOCK FALSE
