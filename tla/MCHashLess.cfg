SPECIFICATION Spec
CONSTANTS
  BlockIds = {b1, b2, b3}
  Objs = {o1, o2, o3, o4}
  INVALID_BLOCKID = INVALID_BLOCKID
  blockSize = 2
  MaxCows = 1
SYMMETRY Symmetry
INVARIANTS
  RefCountExact
  FreeListExact
PROPERTIES
  AppendIsExclusive
