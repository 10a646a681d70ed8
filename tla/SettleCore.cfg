SPECIFICATION Spec
CONSTANTS
  a1 = a1  a2 = a2  t1 = t1  t2 = t2  t3 = t3
  p1 = p1  p2 = p2
  Null = Null
  Accounts <- TwoAccounts
  Trades <- ThreeRows
  AccountOf <- Split
  Procs <- TwoProcs
  Ops = {"trigger", "close", "autoFail", "failRealised", "expire"}
  Prices <- TwoPrices
  MaxLots = 2
  MaxOpen = 2
  Starting = 10
  Target = 1
  InitOpen <- TwoOpen
  InitPending <- NoRows
  Sibling <- Unpaired
SYMMETRY Anonymous
CHECK_DEADLOCK FALSE
INVARIANTS LedgerBalanced FailureCounted
PROPERTIES SettledOnce OutcomeFinal
