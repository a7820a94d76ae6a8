CONSTANTS
  t1 = t1
  t2 = t2
  Caller <- MCCaller
  Keeper = Keeper
  Nobody = Nobody
  NumConns = 2
  Width = 3
  Attempts = 2
  LoopBreaker = 2
  MaxCalls = 1
  MaxLost = 1
SPECIFICATION FairSpec
INVARIANTS
  OneUser
  HandlesInUse
  SuccessIsTrue
PROPERTIES
  Served
CHECK_DEADLOCK FALSE
