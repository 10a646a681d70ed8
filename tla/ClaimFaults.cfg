SPECIFICATION ClaimsFairSpec
CONSTANTS
  r1 = r1  r2 = r2  r3 = r3  k1 = k1  k2 = k2
  None = None
  Requests <- ThreeRequests
  Keys <- OneKey
  Handlers = {"market", "pending", "create"}
  PoolMax = 2
  Faults = {"commit", "complete", "abandon", "crash"}
CHECK_DEADLOCK FALSE
INVARIANT CompletedMeansOpened
PROPERTIES AnswerStands KeyFreed EveryRequestAnswered
