CONSTANTS
  a1 = a1
  a2 = a2
  d1 = d1
  d2 = d2
  NoConn = NoConn
  Conn <- MCConn
  Async <- MCAsync
  Size <- MCSize
  Faults = {"deadlock"}
  MaxFaults = 1
SPECIFICATION Spec
INVARIANTS
  AtMostOnce
CHECK_DEADLOCK FALSE
