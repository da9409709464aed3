SPECIFICATION Spec
CONSTANTS
  m = m
  Experiments = {1, 2}
  Submissions = {1, 2, 3}
  ExperimentOf <- TwoExperiments
  Metrics = {m}
  Reviews <- ReviewsWithZero
  WeightTotalBPS = 10000
  Limits = {1, 2}
  ListLimit = 2
  Handlers = {h}
  Builders = {h}
  None = None
  Exports = {x}
  Formats = {"pdf"}
  Users = {"admin"}
INVARIANT MinimumIsLowest
