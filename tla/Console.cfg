CONSTANTS
  Sessions = {s1, s2}
  Frontends = {f}
  Printers = {p}
  NoFrontend = NoFrontend
  MaxLinks = 2
  MaxLines = 1
VIEW LiveView
SPECIFICATION FairSpec
INVARIANTS
  TerminalsKept
  StreamExact
PROPERTY StreamsEnd
CHECK_DEADLOCK FALSE
