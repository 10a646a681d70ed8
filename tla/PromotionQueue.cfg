SPECIFICATION FairSpec
CONSTANTS
  a1 = a1  a2 = a2  a3 = a3  r1 = r1  r2 = r2  p1 = p1  p2 = p2
  Null = Null
  Accounts <- ThreeAccounts
  Reviews <- TwoReviews
  Procs <- TwoProcs
  Roots <- OneRoot
  Steps = 2
  Touched <- OneRoot
  Ops = {"pass", "floatPass", "approve", "reject"}
CHECK_DEADLOCK FALSE
INVARIANTS SuccessorsExplained NoStrandedPass
PROPERTIES PromotedWhilePassed DecisionsEnd
