SPECIFICATION Spec
CONSTANTS
  r1 = r1
  r2 = r2
  r3 = r3
  w1 = w1
  w2 = w2
  Recipient <- Users3
  Worker <- OneWorker
  NoOne = NoOne
  ParentRuns = 1
  ItemsPerTask = 2
  MaxRetries = 1
  InfiniteRetryCap = 1
  MaxDatabaseTries = 2
  Outcomes <- AllOutcomes
  Events = {"optout"}
  MaxEvents = 1
  OverlapTasks = FALSE
SYMMETRY UserSymmetry
INVARIANT TypeOK
INVARIANT RetryCarriesTheRest
INVARIANT RetriesBounded
INVARIANT EveryoneAccountedFor
INVARIANT DeclinedNotEmailed
