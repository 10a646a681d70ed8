SPECIFICATION Spec
CONSTANTS
  a1 = a1  a2 = a2  t1 = t1  t2 = t2  t3 = t3
  p1 = p1  p2 = p2
  Null = Null
  Accounts <- OneAccount
  Trades <- TwoRows
  AccountOf <- OnA1
  Procs <- TwoProcs
  Ops = {"fill", "cancelDead", "cancel"}
  Prices <- OnePrice
  MaxLots = 1
  MaxOpen = 3
  Starting = 10
  Target = 1
  InitOpen <- NoRows
  InitPending <- TwoPending
  Sibling <- Unpaired
CHECK_DEADLOCK FALSE
INVARIANTS CancelledUnfilled
