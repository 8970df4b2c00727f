SPECIFICATION Spec
CONSTANTS
  k1 = k1
  k2 = k2
  k3 = k3
  v1 = v1
  v2 = v2
  Missing = Missing
  Keys <- MCThreeKeys
  Vals <- MCVals
  Words <- MCWords
  RegionSize = 10
  MaxKeyId = 2
  Deletes = TRUE
  Faults = {"power", "format", "copy", "newHdr", "oldHdr", "hdr", "payload", "valid", "delete"}
  MaxMishaps = 1
SYMMETRY Symmetric
VIEW MCView
CHECK_DEADLOCK FALSE
INVARIANTS TypeOK NoHalfWrittenEntry FitsRegion KeysUnique
INVARIANTS MountedIsRecovered StoreFindable FullMeansFull
PROPERTY Refinement
