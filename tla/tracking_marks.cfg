CONSTANTS
  Sends = {s1}
  Calls = {c1, c2}
  Modules = {m1}
  Operations <- Tracking
  MaxTime = 2
  MaxRows = 1
  MaxFaults = 1
  None = None
SYMMETRY Symmetry
SPECIFICATION MarksSpec
INVARIANTS EngagementInv NeverOverstated
PROPERTIES CreditSettles FirstWins
