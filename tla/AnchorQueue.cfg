SPECIFICATION FairSpec
CONSTANTS
  Null = Null
  NoRow = NoRow
  Starting = 10
  Pnls <- TwoPnls
  MaxDrawdownPct = 20
  MaxFlights = 1
  LockAts <- EitherKind
  Steps <- Everything
  Movements <- Debit
  Balances <- FewBalances
INVARIANT PeakKept
PROPERTIES AnchorsRise PeakPersisted
CHECK_DEADLOCK FALSE
