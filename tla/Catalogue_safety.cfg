SPECIFICATION Spec
CONSTANTS
  Users = {root, u}
  Root = root
  RoleSets <- TeacherOrStudent
  Permissions = {"editor", "viewer"}
  Courses = {c}
  Classes = {k}
  Templates = {t}
  Experiments = {e}
  Handlers = {h1, h2}
  None = None
  Backends = {"postgres", "sqlite"}
  MaxVersions = 2
  MaxRequests = 3
SYMMETRY Symmetry
INVARIANTS VersionsNumbered ExperimentsBindPublished SubmissionsHaveGround SerialRolesOfOneRequest
CHECK_DEADLOCK FALSE
