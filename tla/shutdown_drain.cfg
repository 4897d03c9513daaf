\* Three connections, one of which closes without suspending, two ids or more
\* shared or not, the lifespan and a second caller of close_all.
SPECIFICATION Spec
CONSTANTS
  Handlers = {h1, h2, h3}
  ConnIds = {i1, i2, i3}
  UniqueIds = FALSE
  Closers = {lifespan, admin}
  Lifespan = lifespan
  Suspending = {h1, h2}
  None = None
SYMMETRY HandlerSymmetry
INVARIANTS
  TypeOK
  CloseAllDrains
  GatherCannotHang
  RegistryAccurate
  PromptCloseEndsCleanly
