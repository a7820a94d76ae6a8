CONSTANTS
  c1 = c1
  c2 = c2
  f1 = f1
  f2 = f2
  f3 = f3
  Nobody = Nobody
  Client <- MCClient
  Functor <- MCFunctor
  Owner <- MCOwner
SPECIFICATION FairThreadSpec
INVARIANTS
  NoLostWakeup
  NobodyLeftBehind
PROPERTIES
  RoundsAreFinite
  ImplementsExecutor
  QueuedRuns
  QuitEndsLoop
CHECK_DEADLOCK FALSE
