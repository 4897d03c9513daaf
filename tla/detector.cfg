\* Two ids for three connections, a clock that is set at any time by any amount.
SPECIFICATION FairSpec
CONSTANTS
  Healths = {h1, h2, h3}
  Ids = {i1, i2}
  IdleThreshold = 0
  SweepInterval = 1
  MaxAhead = 1
INVARIANTS
  TypeOK
  OpenAreWatched
  CalledAreIdle
PROPERTIES
  CalledOnce
  IdleAreSwept
