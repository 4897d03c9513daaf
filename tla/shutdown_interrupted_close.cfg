\* One caller of close_all and a close() that may suspend.
SPECIFICATION Spec
CONSTANTS
  Handlers = {h1, h2}
  ConnIds = {i1, i2}
  UniqueIds = TRUE
  Closers = {lifespan}
  Lifespan = lifespan
  Suspending = {h1, h2}
  None = None
INVARIANTS
  CleanExit
