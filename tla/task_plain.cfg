SPECIFICATION FairSpec
CONSTANTS
  u1 = u1
  u2 = u2
  w1 = w1
  w2 = w2
  v1 = v1
  Requester <- TwoRequesters
  Worker <- TwoWorkers
  Watcher <- OneWatcher
  UsesSubtasks = FALSE
  Racing = FALSE
  MaxTasks = 2
  Events = {"revoke"}
  MaxEvents = 1
INVARIANT OneAtATime
PROPERTY RefusedOnlyWhenAlive
PROPERTY EveryTaskEnds
