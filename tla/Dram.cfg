SPECIFICATION MCSpec
CONSTANTS
  BurstLen = 2
  NrCol = 4
  NrRow = 2
  NrBank = 2
  Byte <- MCByte
  NoByte = NoByte
  Lens <- MCLens
  Access <- MCAccess
INVARIANTS
  TypeOK
  RowBufCoherent
  NoUninitialisedByte
PROPERTY ImplementsFlatMemory
CHECK_DEADLOCK FALSE
