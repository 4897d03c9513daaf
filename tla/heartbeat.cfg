\* A ping every three ticks, a pong window of five, two misses.
SPECIFICATION FairSpec
CONSTANTS
  Interval = 3
  Timeout = 2
  MaxMissed = 2
INVARIANTS
  TypeOK
  LoopFollowsContext
  DetectionInTime
  CancelLostOnlyOnExit
PROPERTIES
  DeadMeansSilent
  SilentClientDies
  CancelledHandlerLeaves
