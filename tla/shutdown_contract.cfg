\* Two connections, two callers of close_all: liveness and refinement.
SPECIFICATION FairSpec
CONSTANTS
  Handlers = {h1, h2}
  ConnIds = {i1, i2}
  UniqueIds = TRUE
  Closers = {lifespan, admin}
  Lifespan = lifespan
  Suspending = {h1, h2}
  None = None
PROPERTIES
  KeepsContract
  CloseAllEnds
