SPECIFICATION Spec
CONSTANTS
  a1 = a1  a2 = a2  a3 = a3  r1 = r1  r2 = r2  p1 = p1  p2 = p2
  Null = Null
  Accounts <- ThreeAccounts
  Reviews <- TwoReviews
  Procs <- TwoProcs
  Roots <- OneRoot
  Steps = 3
  Touched <- ThreeAccounts
  Ops = {"pass", "floatPass", "approve"}
CHECK_DEADLOCK FALSE
INVARIANTS TypeOK ApprovedAsShown LadderFollowed
