SPECIFICATION Spec
CONSTANTS
  a1 = a1  a2 = a2  y1 = y1  y2 = y2  s1 = s1  s2 = s2
  x1 = x1  x2 = x2  k1 = k1  k2 = k2
  Null = Null
  Accounts <- OneAccount
  Payouts <- TwoPayouts
  Sessions <- TwoSessions
  Admins <- TwoAdmins
  Keys <- TwoKeys
  Amounts <- One
  Results <- Win
  MaxProfit = 2
  CapPct = 0
  Ops = {"request", "approve", "reject", "bulkReject"}
SYMMETRY Anonymous
CHECK_DEADLOCK FALSE
INVARIANTS OnePending KeyUsedOnce
PROPERTIES LedgerSpec
