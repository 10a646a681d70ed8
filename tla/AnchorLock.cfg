SPECIFICATION Spec
CONSTANTS
  Null = Null
  NoRow = NoRow
  Starting = 10
  Pnls <- SomePnls
  MaxDrawdownPct = 20
  MaxFlights = 2
  LockAts <- Funded
  Steps <- Payouts
  Movements <- Debit
  Balances <- FewBalances
INVARIANT LockKept
CHECK_DEADLOCK FALSE
