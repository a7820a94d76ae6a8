CONSTANTS
  c1 = c1
  c2 = c2
  m1 = m1
  m2 = m2
  Caller <- MCCaller
  Msg <- MCMsgs
  Parts = 2
  LoopCalls = {"send", "shutdown", "force_close"}
  OtherCalls = {"send", "shutdown", "force_close"}
  Races = FALSE
  SameLoop = FALSE
  ServerEnds = FALSE
SPECIFICATION FairSpec
INVARIANTS
  UpThenDown
  CleanDeath
  AssertionsHold
PROPERTIES
  PeerGoneEnds
  BufferDrains
CHECK_DEADLOCK FALSE
