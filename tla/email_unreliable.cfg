SPECIFICATION Spec
CONSTANTS
  r1 = r1
  r2 = r2
  r3 = r3
  w1 = w1
  w2 = w2
  Recipient <- Users2
  Worker <- OneWorker
  NoOne = NoOne
  ParentRuns = 1
  ItemsPerTask = 1
  MaxRetries = 1
  InfiniteRetryCap = 1
  MaxDatabaseTries = 2
  Outcomes = {"sent", "disconnected"}
  Events = {"duplicate", "database", "broker", "close", "crash", "expire", "unenroll"}
  MaxEvents = 2
  OverlapTasks = FALSE
SYMMETRY UserSymmetry
INVARIANT LedgerCounts
INVARIANT RestMeansOver
INVARIANT RestMeansUnlocked
PROPERTY SettledIsFinal
