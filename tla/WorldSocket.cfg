CONSTANTS
  Net = Net
  Io = Io
  Producers = {Net, Io}
  Packets = {e1, e2}
  Dummy = Dummy
  Null = Null
  Chains = {c1, c2, c3}
  Queries = {q1, q2, q3}
  None = None
  MaxSteps = 2
SPECIFICATION FairSpec
INVARIANTS
  MemorySafe
  EmptyIsTrue
  ResultsInOrder
  NoneForgotten
  WrittenInOrder
PROPERTIES
  ImplementsFifo
  SentIsWritten
  AnsweredIsCalled
CHECK_DEADLOCK FALSE
