SPECIFICATION FairSpec
CONSTANTS
  v1 = v1
  v2 = v2
  Video <- TwoVideos
  Configs <- AllConfigs
INVARIANT StartInvariant
INVARIANT OnePlayerAtATime
INVARIANT SpeedsOfThePlayer
PROPERTY FallbackIsFinal
PROPERTY GetsAPlayer
CHECK_DEADLOCK FALSE
