CONSTANTS
  o1 = o1
  o2 = o2
  o3 = o3
  NoOp = NoOp
  AsyncThreads = 2
  ThreadEntry = {"worker_thread_"}
  Op <- MCOp
  Asks <- MCAsks
SPECIFICATION FairSpec
PROPERTIES
  ExecutedAsynchronously
CHECK_DEADLOCK FALSE
