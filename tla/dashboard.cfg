\* Ids repeat: three clients share two.
SPECIFICATION FairSpec
CONSTANTS
  Clients = {c1, c2, c3}
  ConnIds = {i1, i2}
  QueueSize = 3
\* The simulation ends.
CHECK_DEADLOCK FALSE
INVARIANTS
  TypeOK
  TablesAgree
  SummaryIsZero
PROPERTIES
  SimulationEnds
