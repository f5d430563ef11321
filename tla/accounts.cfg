CONSTANTS
  Calls = {c1, c2}
  MaxFailures = 3
  MaxCount = 4
  MaxSecrets = 2
  Users = {n1, n2, viewer}
  Admins = {n1, n2}
  Outsiders = {staff}
  MaxLinks = 2
  MaxAccounts = 2
  Emails = {n1, n2}
  Workspaces = {"w1", "w2"}
  Persons = {"p1", "p2"}
  Home <- OneOutside
  Probes = {n1, n2}
  Domains = {"d1"}
  MaxRows = 2
  Shared = {"d1"}
  Campaigns = {"k1"}
  Runners = {c1, c2}
  Limit = 1
  Window = 2
  Attempts = 1
  MaxHits = 3
  Tenants = {n1, n2}
  Interval = 2
  MaxFaults = 1
  MaxTime = 3
  Apis = {"a1", "a2"}
  Workers = {"w"}
  Shipped <- Rolling
  Retries = 1
  None = None
SYMMETRY Symmetry
SPECIFICATION AccountsSpec
INVARIANTS SignInInv GuessesBounded LinksHold MailsStayInside SendersHold LimiterHolds DigestHolds
PROPERTIES TeamSteps SignUpHolds ProbeConfirmsOnce SendersStay StartHolds
CHECK_DEADLOCK FALSE
