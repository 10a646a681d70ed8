SPECIFICATION WatchSpec
CONSTANTS
  t1 = t1
  t2 = t2
  a1 = a1
  p1 = p1
  p2 = p2
  Trades = {t1, t2}
  Accounts = {a1}
  AccountOf <- OneBook
  Passes = {p1}
  Pnls = {1, 2}
  Null = Null
  Own = Own
  Unread = Unread
  CanLock = {a1}
  CanRestore = {a1}
  MaxWrites = 2
  MaxFaults = 1
INVARIANTS
  FloatingSum
PROPERTIES
  EvictKeepsOpen
  Converges
CHECK_DEADLOCK FALSE
