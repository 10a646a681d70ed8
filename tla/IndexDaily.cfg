SPECIFICATION WatchSpec
CONSTANTS
  t1 = t1
  t2 = t2
  a1 = a1
  p1 = p1
  p2 = p2
  Trades = {t1}
  Accounts = {a1}
  AccountOf <- OneTrade
  Passes = {p1}
  Pnls = {1}
  Null = Null
  Own = Own
  Unread = Unread
  CanLock = {a1}
  CanRestore = {}
  MaxWrites = 2
  MaxFaults = 1
PROPERTIES
  TodayConverges
CHECK_DEADLOCK FALSE
