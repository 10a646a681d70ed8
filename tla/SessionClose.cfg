SPECIFICATION FairSpec
CONSTANTS
  t1 = t1  t2 = t2  s1 = s1  s2 = s2  p1 = p1  p2 = p2
  Null = Null  Route = Route
  Trades <- OneTrade
  Sessions <- TwoSessions
  Processes <- OneProcess
  ProcessOf <- Alone
  Jobs = {"weekend", "flat", "news"}
  Scope <- NoOvernight
  MaxFaults = 1
INVARIANTS BookedOnce OneRunner
PROPERTIES MarkHonest OpenNeverCancelled ForcedFlat
