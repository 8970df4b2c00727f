SPECIFICATION Spec
CONSTANTS
  m = m
  a = a
  b = b
  mu = mu
  None = None
  Main = m
  Threads <- MCThreads
  Ids = {1, 2, 3}
  MainId = 1
  Mutexes = {}
  Recursive = {}
  MaxDepth = 0
  MaxJoins = 1
  Calls = {"join", "stop", "suspend", "resume"}
  TaskFails = TRUE
SYMMETRY Symmetric
CHECK_DEADLOCK FALSE
INVARIANTS SelfListed CreatedHasStarted JoinedHasEnded
PROPERTY StraysOnlyAtEnds
