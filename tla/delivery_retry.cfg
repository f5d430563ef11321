CONSTANTS
  Sends = {s1}
  Requests = {r1, r2}
  Workers = {w1}
  Operations <- AllOperations
  FaultKinds <- AllFaults
  MaxFaults = 1
  MaxAttempts = 2
  MaxOccurrences = 1
  Recurring = FALSE
  None = None
SPECIFICATION FairSpec
PROPERTIES KillQuiesces RetryHeals JobsDeliver
