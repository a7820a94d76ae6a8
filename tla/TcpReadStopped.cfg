CONSTANTS
  c1 = c1
  c2 = c2
  m1 = m1
  m2 = m2
  Caller <- MCCaller
  Msg <- MCMsgs
  Parts = 2
  LoopCalls = {"stop_read"}
  OtherCalls = {"force_close"}
  Races = FALSE
  SameLoop = TRUE
  ServerEnds = FALSE
SPECIFICATION Spec
INVARIANTS
  CloseAssertion
CHECK_DEADLOCK FALSE
