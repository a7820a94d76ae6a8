CONSTANTS
  a1 = a1
  a2 = a2
  d1 = d1
  d2 = d2
  NoConn = NoConn
  Conn <- MCConn
  Async <- MCAsync
  Size <- MCSize
  Faults = {"deadlock", "failed", "lost", "begin", "commit", "rollback"}
  MaxFaults = 2
SPECIFICATION FairSpec
INVARIANTS
  AllOrNothing
  DirectTellsTruth
  RetriesAlone
PROPERTIES
  AllFinish
CHECK_DEADLOCK FALSE
