SPECIFICATION Spec
CONSTANTS
  k1 = k1
  k2 = k2
  k3 = k3
  v1 = v1
  v2 = v2
  Missing = Missing
  Keys <- MCKeys
  Vals <- MCVals
  Words <- MCWordsBig
  RegionSize = 15
  MaxKeyId = 2
  Deletes = FALSE
  Faults = {}
  MaxMishaps = 0
INVARIANT OneValuePerKey
PROPERTY OkMeansStored
