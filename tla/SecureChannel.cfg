CONSTANTS
  Handler = h
  Procs = {h, s}
  MaxMessages = 2
  MaxDraws = 4
  MaxUp = 2
VIEW AheadView
SPECIFICATION FairSpec
INVARIANTS
  ClientFollows
  QuietMeansSynchronised
PROPERTIES
  InOrderDelivery
  EverythingArrives
CHECK_DEADLOCK FALSE
