CONSTANTS
  Keys = {k1}
  Emails = {n1, n2}
  Limits = {1}
  Terms = {1}
  Grants <- OneGrant
  Changes <- OneOfTwo
  Validity = 1
  Stopped = {"suspended"}
  TrialDays = 1
  MaxTime = 1
  Calls = {c1, c2}
  Sends = {n1, n2}
  Modules = {o1, o2}
  Operations = {"open", "moment", "submit", "assign", "enrol", "complete"}
  MaxRows = 3
  MaxDeaths = 0
  Tenants = {n1, n2}
  Objects = {o1, o2}
  Shareds = {"s1"}
  Lessons = {o1, o2}
  People = {n1, n2}
  MaxTokens = 3
  MaxFaults = 1
  Keep = Keep
  None = None
SYMMETRY Symmetry
SPECIFICATION ClientsSpec
INVARIANTS LicencesHold CoursesFollow CoursesOnce VideosHold
PROPERTIES LicenceSteps PortalHolds
CHECK_DEADLOCK FALSE
