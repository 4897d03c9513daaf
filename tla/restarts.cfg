\* Three lifespans, two clients, a policy without limit and one of two attempts.
SPECIFICATION FairSpec
CONSTANTS
  InitialDelay = 1
  MaxDelay = 3
  Multiplier = 2
  JitterPercent = 50
  MaxExponent = 3
  Lifespans = {l1, l2, l3}
  Clients = {c1, c2}
  Limits = {0, 2}
\* It may stop: the last lifespan is over and every client has given up.
CHECK_DEADLOCK FALSE
INVARIANTS
  TypeOK
  RegistryIsCurrent
  StopsAtLimit
PROPERTIES
  WaitersGetServed
