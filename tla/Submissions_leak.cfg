SPECIFICATION Spec
CONSTANTS
  Handlers = {h1}
  Submissions = {s1}
  Artifacts = {a1, a2}
  MaxArtifacts = 1
  Parser = TRUE
  None = None
SYMMETRY Symmetry
INVARIANT RefusedLeavesNoFile
