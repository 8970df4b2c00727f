SPECIFICATION Spec
CONSTANTS
  i1 = i1
  i2 = i2
  i3 = i3
  r1 = r1
  Garbage = Garbage
  Items <- MCItems
  Readers <- MCReaders
  Width = 5
  AllocFails = TRUE
SYMMETRY Symmetric
INVARIANTS TypeOK FreeListOK WalkComplete ItemsReachable
PROPERTY Refinement
