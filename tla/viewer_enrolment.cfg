CONSTANTS
  Accounts = {a1}
  None = None
SPECIFICATION Spec
INVARIANTS EveryoneCanEnrol
