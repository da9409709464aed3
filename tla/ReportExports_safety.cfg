SPECIFICATION Spec
CONSTANTS
  m = m
  Experiments = {1, 2}
  Submissions = {1, 2, 3}
  ExperimentOf <- TwoExperiments
  Metrics = {m}
  Reviews <- SomeReviews
  WeightTotalBPS = 10000
  Limits = {1, 2}
  ListLimit = 2
  Handlers = {h, d}
  Builders = {h}
  None = None
  Exports = {x}
  Formats = {"", "doc"}
  Users = {"admin", "teacher"}
INVARIANTS CountsPublished AveragesClose DownloadIsWhole
