SPECIFICATION FairSpec
CONSTANTS
  m = m
  a = a
  b = b
  mu = mu
  None = None
  Main = m
  Threads <- MCThreads
  Ids = {1, 2, 3}
  MainId = 1
  Mutexes = {}
  Recursive = {}
  MaxDepth = 0
  MaxJoins = 2
  Calls = {"join"}
  TaskFails = FALSE
CHECK_DEADLOCK FALSE
PROPERTY EveryJoinReturns
