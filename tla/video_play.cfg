SPECIFICATION Spec
CONSTANTS
  Duration = 4
  Configs <- ManyConfigs
  MaxDue = 2
  MaxActs = 3
INVARIANT PlaybackInvariant
INVARIANT SettledViewAgrees
PROPERTY SeekNotLost
PROPERTY StartsInsideRegion
PROPERTY ResumesWhereLeft
CHECK_DEADLOCK FALSE
