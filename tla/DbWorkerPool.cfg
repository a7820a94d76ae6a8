CONSTANTS
  o1 = o1
  o2 = o2
  o3 = o3
  NoOp = NoOp
  AsyncThreads = 2
  ThreadEntry = {"worker_thread_", "worker_thread()"}
  Op <- MCOp
  Asks <- MCAsks
SPECIFICATION FairSpec
INVARIANTS
  FifoConservation
  SingleOwner
  HandleOutlivesUse
  FutureTellsFate
PROPERTIES
  QueuedIsServed
CHECK_DEADLOCK FALSE
