SPECIFICATION Spec
CONSTANTS
  Null = Null
  NoRow = NoRow
  Starting = 10
  Pnls <- SomePnls
  MaxDrawdownPct = 20
  MaxFlights = 2
  LockAts <- Unfunded
  Steps <- Payouts
  Movements <- Debit
  Balances <- FewBalances
PROPERTY NoFalseBreach
CHECK_DEADLOCK FALSE
