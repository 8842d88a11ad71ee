SPECIFICATION Spec
CONSTANTS
  NR_WP = 3
  Expr = {e1, e2}
  Value <- MCValue
  Null = Null
  NoExpr = NoExpr
  MaxN = 3
  EipExpr = {e2}
  Zero = 0
INVARIANT EndedStaysEnded
CHECK_DEADLOCK FALSE
