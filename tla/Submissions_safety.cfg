SPECIFICATION Spec
CONSTANTS
  Handlers = {h1, h2, h3}
  Submissions = {s1, s2}
  Artifacts = {a1, a2, a3, a4}
  MaxArtifacts = 1
  Parser = TRUE
  None = None
SYMMETRY Symmetry
INVARIANTS OverflowBounded RowsHaveFiles NoStrayFile
