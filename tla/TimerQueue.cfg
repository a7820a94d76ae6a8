CONSTANTS
  t1 = t1
  t2 = t2
  Free = Free
  Addr <- MCAddr
  Intervals <- MCIntervals
  MaxTimers = 2
  MaxTime = 2
  MaxSets = 1
SPECIFICATION FairSpec
INVARIANTS
  SetsAgree
  OneHolder
  CancelledNeverWaits
  NobodyElsesTimer
  AlarmSet
PROPERTIES
  TimerRuns
CHECK_DEADLOCK FALSE
