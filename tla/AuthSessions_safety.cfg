SPECIFICATION Spec
CONSTANTS
  Handlers = {h1, h2}
  Users = {u1, u2}
  Sessions = {s1}
  TTL = 2
  RefreshInterval = 1
  CleanupInterval = 1
  CallsFail = TRUE
  MaxTime = 4
  MaxRotations = 1
  None = None
SYMMETRY Symmetry
INVARIANTS SessionsOfThisPassword IdleSessionEnds
PROPERTIES EndedStaysEnded KeptForTTL
