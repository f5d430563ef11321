CONSTANTS
  Sends = {s1}
  Requests = {r1, r2}
  Workers = {w1, w2}
  Operations <- AllOperations
  FaultKinds <- AllFaults
  MaxFaults = 2
  MaxAttempts = 2
  MaxOccurrences = 2
  Recurring = TRUE
  None = None
SYMMETRY Symmetry
SPECIFICATION Spec
INVARIANTS DeliveryInv AtMostOnce SentMeansMailed LateMailBound
PROPERTIES KillSticks ImplementsContract
