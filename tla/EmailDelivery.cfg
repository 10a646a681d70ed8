SPECIFICATION FairSpec
CONSTANTS
  j1 = j1  j2 = j2  w1 = w1  w2 = w2
  Null = Null
  Jobs <- TwoJobs
  Workers <- TwoWorkers
  BatchSize = 2
  MaxAttempts = 2
  MaxFaults = 1
  MaxRequeues = 1
INVARIANTS MailedOnce SentIsTrue AttemptsBounded
PROPERTIES EveryJobEnds
