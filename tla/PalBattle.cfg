SPECIFICATION Spec
CONSTANTS
  Party = 2
  Foes = 2
  Hundred = 1
  Stock = 1
  Kinds = {"Use", "Coop", "Magic", "Repeat"}
  Statuses = {"Confused", "Puppet"}
CHECK_DEADLOCK FALSE
CONSTRAINT Followed
INVARIANTS TypeOK EnemyFindsTarget TurnOrderSound OneAsked NothingFromNothing
