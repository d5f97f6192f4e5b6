SPECIFICATION Spec
CONSTANTS
  u1 = u1
  u2 = u2
  w1 = w1
  w2 = w2
  v1 = v1
  Requester <- TwoRequesters
  Worker <- TwoWorkers
  Watcher <- OneWatcher
  UsesSubtasks = TRUE
  Racing = TRUE
  MaxTasks = 2
  Events = {"broker", "revoke"}
  MaxEvents = 2
SYMMETRY Symmetric
INVARIANT RowInvariant
PROPERTY ReadyIsFinal
PROPERTY SubtasksNotHidden
