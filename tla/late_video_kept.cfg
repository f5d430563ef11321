CONSTANTS
  Tenants = {t1}
  Objects = {o1}
  Rows = {m1}
  Shareds = {s1}
  Calls = {c1, c2}
  MaxFaults = 0
  None = None
SPECIFICATION Spec
INVARIANT ErasedVideosGo
CHECK_DEADLOCK FALSE
