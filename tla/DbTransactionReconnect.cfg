CONSTANTS
  a1 = a1
  a2 = a2
  d1 = d1
  d2 = d2
  NoConn = NoConn
  Conn <- MCConn
  Async <- MCAsync
  Size <- MCSize
  Faults = {"lost"}
  MaxFaults = 1
SPECIFICATION Spec
INVARIANTS
  DoneIsAtomic
CHECK_DEADLOCK FALSE
