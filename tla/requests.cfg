CONSTANTS
  Tenants = {t1, t2}
  Accounts = {a}
  Levels = {"full", "trial", "suspended"}
  Persons = {n1, n2}
  Sends = {"s1"}
  Extras = {n1, n2}
  Callers = {t1, t2}
  Operations = {"quiz", "watch", "assign", "questions"}
  Cap = 2
  MaxAttempts = 4
  MaxTokens = 3
  MaxFaults = 1
  None = None
SYMMETRY Symmetry
SPECIFICATION RequestsSpec
INVARIANTS HandledIsAllowed ScopesHold ScreensAgree ScreensSettle
PROPERTIES LessonsHold PassIsFinal
CHECK_DEADLOCK FALSE
