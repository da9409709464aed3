SPECIFICATION ScoreSpec
CONSTANTS
  Metrics = {m1, m2}
  NoMetric = NoMetric
  MaxScores = {1, 2, 3}
  Weights = {0, 1, 5000}
  WeightTotalBPS = 10000
  MaxInputs = 2
SYMMETRY Symmetry
INVARIANTS AcceptedIsComplete TotalCloseToMean
CHECK_DEADLOCK FALSE
