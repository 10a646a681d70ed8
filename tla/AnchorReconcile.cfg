SPECIFICATION Spec
CONSTANTS
  Null = Null
  NoRow = NoRow
  Starting = 10
  Pnls <- SomePnls
  MaxDrawdownPct = 20
  MaxFlights = 2
  LockAts <- Unfunded
  Steps <- TickReconcile
  Movements <- NoMovements
  Balances <- FewBalances
PROPERTIES NoRaiseLost
CHECK_DEADLOCK FALSE
