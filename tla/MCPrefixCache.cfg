SPECIFICATION Spec
CONSTANTS
  BlockIds = {b1, b2, b3}
  Objs = {o1, o2, o3, o4}
  Hashes = {h1, h2, h3}
  INVALID_BLOCKID = INVALID_BLOCKID
  INVALID_HASH_VALUE = INVALID_HASH_VALUE
SYMMETRY Symmetry
INVARIANTS
  RefCountExact
  BlocksPartitioned
  CacheConsistent
PROPERTIES
  HeldEntriesStay
