SPECIFICATION FairSpec
CONSTANTS
  Conn = {c1, c2, c3}
  MaxThreads = 2
  Descriptors = {2, 3}
  MaxCrash = 1
INVARIANTS PoolInv LeaksAreOfBrokenClients
PROPERTY WholeIsAnswered
CHECK_DEADLOCK FALSE
