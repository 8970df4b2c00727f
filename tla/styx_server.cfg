SPECIFICATION Spec
CONSTANTS
  a = a
  b = b
  f1 = f1
  f2 = f2
  NULL = NULL
  Clients = {a, b}
  Fids = {f1, f2}
  NewNames = {"x"}
  Walks <- MCWalks
  Device = "gpio"
  Mangled = "?"
  Strings = {"s1"}
  MaxPath = 5
  MaxFids = 2
  Refused = 3
SYMMETRY MCSymmetry
CHECK_DEADLOCK FALSE
INVARIANTS TypeOK RefsExact ServerIsSafe TemporaryFilesGo
PROPERTY TreeRefinement
