SPECIFICATION EvaluationSpec
CONSTANTS
  r = r
  p = p
  q = q
  c = c
  g = g
  i = i
  m1 = m1
  m2 = m2
  Artifacts <- SomeArtifacts
  Specs <- SomeSpecs
  Rubric <- SomeRubric
  Scores <- SomeScores
  Refs = {r, g, Unset, Unknown}
  Engines <- SomeEngines
  Unknown = Unknown
  Unset = Unset
INVARIANTS CompletedIsSound SuggestionsOfOneAnswer RuleScoresFit
CHECK_DEADLOCK FALSE
