CONSTANTS
  c1 = c1
  c2 = c2
  m1 = m1
  m2 = m2
  Caller <- MCCaller
  Msg <- MCMsgs
  Parts = 2
  LoopCalls = {"send", "stop_read", "start_read"}
  OtherCalls = {"send", "shutdown", "stop_read"}
  Races = TRUE
  SameLoop = TRUE
  ServerEnds = TRUE
SPECIFICATION Spec
SYMMETRY MCMsgSymmetry
INVARIANTS
  StreamIntact
PROPERTIES
  GracefulShutdown
CHECK_DEADLOCK FALSE
