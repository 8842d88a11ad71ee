SPECIFICATION PartySpec
CONSTANTS
  Hat = Hat
  Robe = Robe
  Charm = Charm
  r1 = r1
  r2 = r2
  venom = venom
  curse = curse
  Items = {Robe, Charm, Hat}
  Roles = {r1, r2}
  Body <- MCBody
  Part <- MCPart
  Usable = {Charm, Hat}
  Price = 2
  Slots = 2
  Cap = 2
  Poisons = {venom, curse}
  Level <- MCLevel
  PoisonSlots = 3
  Parties <- MCParties
  CashBound = 2
  Leader = r1
  None = None
CONSTRAINT Followed
INVARIANT PartyTypeOK
PROPERTIES ImplementsGoods EachDoesItsOwn ChangeUncurses
