SPECIFICATION ExtSpec
CONSTANTS
  Jobs = {j1, j2}
  Submissions = {s1}
  Workers = {w1}
  Handlers = {h1, h2}
  WakeCap = 1
  MaxEvidence = 1
  MaxFaults = 1
  None = None
SYMMETRY Symmetry
INVARIANTS HandedToOne ScoredIsInSnapshot
PROPERTY NeverRestarted
