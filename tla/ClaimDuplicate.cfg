SPECIFICATION ClaimsSpec
CONSTANTS
  r1 = r1  r2 = r2  r3 = r3  k1 = k1  k2 = k2
  None = None
  Requests <- ThreeRequests
  Keys <- TwoKeys
  Handlers = {"market"}
  PoolMax = 2
  Faults = {}
CHECK_DEADLOCK FALSE
INVARIANTS OnePerKey
