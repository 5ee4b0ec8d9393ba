CONSTANTS
  Conns = {c1, c2, c3}
  Senders = {s1}
  None = None
SPECIFICATION FairSpec
INVARIANTS
  ServedOwnsRecord
  FlagsAreExplained
  ChallengeProvesOne
PROPERTIES
  SessionIsStable
  ClosedIsReleased
