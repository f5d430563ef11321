CONSTANTS
  Tenants = {t1}
  Objects = {o1}
  Rows = {m1}
  Shareds = {s1}
  Calls = {c1}
  MaxFaults = 0
  None = None
SPECIFICATION Spec
INVARIANT SharedVideosSurvive
CHECK_DEADLOCK FALSE
