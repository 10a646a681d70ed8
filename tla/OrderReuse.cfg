SPECIFICATION Spec
CONSTANTS
  o1 = o1  o2 = o2  o3 = o3  c1 = c1  c2 = c2  a1 = a1  a2 = a2
  r1 = r1  r2 = r2  w1 = w1  w2 = w2
  Null = Null
  Orders <- OneOrder
  Sessions <- OneSession
  Accounts <- TwoAccounts
  Requests <- OneRequest
  Workers <- OneWorker
  SlotLimit = 2
  Gifts = FALSE
  Sources <- Stripe
CHECK_DEADLOCK FALSE
INVARIANTS OneAccountPerOrder
