SPECIFICATION Spec
CONSTANTS
  k1 = k1
  k2 = k2
  k3 = k3
  v1 = v1
  v2 = v2
  Missing = Missing
  Keys <- MCKeys
  Vals <- MCVals
  Words <- MCWords
  RegionSize = 12
  MaxKeyId = 2
  Deletes = TRUE
  Faults = {}
  MaxMishaps = 0
VIEW MCView
CHECK_DEADLOCK FALSE
INVARIANT ValueUnderOwnId
