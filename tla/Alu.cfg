SPECIFICATION Spec
CONSTANTS
  Width = 3
  LongWidth = 3
  Half = 4
INVARIANT CompareDecides
PROPERTIES
  WideSubtracts
  MulThenDiv
  SignedDivision
CHECK_DEADLOCK FALSE
