SPECIFICATION Spec
CONSTANTS
  a = a
  b = b
  Databases = {"sqlite", "postgres"}
  Server = server
  Runners = {server, command}
  Releases <- SomeReleases
  Sums = {a, b}
  NVersions = 2
  UsersVersion = 1
  AssistantVersion = 2
  MaxStarts = 2
  Nothing = Nothing
  Environments <- SomeEnvironments
  Inputs <- SomeInputs
  Names = {n1, n2}
  Conversations = {c}
  ToolCalls = {k}
  Handlers = {h1, h2}
  MaxRequests = 3
SYMMETRY Symmetry
INVARIANTS JournalMatchesSchema UpIsComplete RequestsMeetRelease NoLateAdmin PendingHasNotRun
CHECK_DEADLOCK FALSE
