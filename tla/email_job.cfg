SPECIFICATION FairSpec
CONSTANTS
  r1 = r1
  r2 = r2
  r3 = r3
  w1 = w1
  w2 = w2
  Recipient <- Users2
  Worker <- TwoWorkers
  NoOne = NoOne
  ParentRuns = 1
  ItemsPerTask = 1
  MaxRetries = 1
  InfiniteRetryCap = 1
  MaxDatabaseTries = 2
  Outcomes = {"sent", "throttled", "fatal"}
  Events = {"duplicate", "template", "enroll"}
  MaxEvents = 1
  OverlapTasks = FALSE
INVARIANT SentAtMostOnce
INVARIANT DoneMeansAllSettled
PROPERTY KeepsThePromise
