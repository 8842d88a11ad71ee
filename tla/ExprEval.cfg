SPECIFICATION ExprSpec
CONSTANTS
  Width = 8
  NrTokens = 24
  Eax = 5
  SymbolAddr = 7
  Mem <- MCMem
  Height <- MCHeight
  Earlier <- MCEarlier
  Later <- MCLater
INVARIANTS
  GuardedIsRight
CHECK_DEADLOCK FALSE
