SPECIFICATION Spec
CONSTANTS
  Party = 2
  Foes = 2
  Hundred = 1
  Stock = 1
  Kinds = {"Throw"}
  Statuses = {}
CHECK_DEADLOCK FALSE
INVARIANTS NoAssertFails
