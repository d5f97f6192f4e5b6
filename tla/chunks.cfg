SPECIFICATION Spec
CONSTANTS
  MaxItems = 7
  MaxPerTask = 4
INVARIANT YieldsChunks
INVARIANT NothingLost
