CONSTANTS
  Apis = {"a1"}
  Workers = {"w"}
  Shipped <- OneEach
  Retries = 1
  None = None
SPECIFICATION Spec
INVARIANT WorksOnCurrentSchema
CHECK_DEADLOCK FALSE
