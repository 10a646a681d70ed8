SPECIFICATION FairSpec
CONSTANTS
  a1 = a1  a2 = a2  t1 = t1  t2 = t2  t3 = t3
  p1 = p1  p2 = p2
  Null = Null
  Accounts <- OneAccount
  Trades <- ThreeRows
  AccountOf <- OnA1
  Procs <- TwoProcs
  Ops = {"market","order","oco","fill","batch","cancel","cancelDead","autoFail","pass"}
  Prices <- OnePrice
  MaxLots = 1
  MaxOpen = 2
  Starting = 10
  Target = 0
  InitOpen <- NoRows
  InitPending <- OnePending
  Sibling <- Unpaired
CHECK_DEADLOCK FALSE
INVARIANTS CapHolds OcoExclusive
PROPERTIES TransactionsEnd
