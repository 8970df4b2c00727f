SPECIFICATION Spec
CONSTANTS
  m = m
  a = a
  b = b
  mu = mu
  None = None
  Main = m
  Threads <- MCThreads
  Ids = {1, 2, 3}
  MainId = 1
  Mutexes = {mu}
  Recursive = {mu}
  MaxDepth = 2
  MaxJoins = 2
  Calls = {}
  TaskFails = FALSE
SYMMETRY Symmetric
CHECK_DEADLOCK FALSE
INVARIANT HolderAlive
PROPERTY LocksKept
