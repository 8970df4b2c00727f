SPECIFICATION FairSpec
CONSTANTS
  t1 = t1
  t2 = t2
  f1 = f1
  f2 = f2
  f3 = f3
  NULL = NULL
  Threads <- MCThreads
  Files <- MCFiles
  NDFILE = 3
  c = c
  Console <- MCConsole
  GoOn = FALSE
CHECK_DEADLOCK FALSE
INVARIANTS OwnFile UseIsSafe FilesCounted FreeIsFound
PROPERTY CallsReturn
